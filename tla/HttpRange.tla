------------------------------ MODULE HttpRange ------------------------------
(***************************************************************************)
(* One get_byte_ranges call of the pre-signed URL reader                   *)
(* (src/src/rust/src/http_reader.rs): all ranges in one multi-range        *)
(* request, or, when the server does not honour it, one request per range, *)
(* at most MaxInflight at a time, with the results in request order.       *)
(*                                                                         *)
(* The object's bytes are positions; a slice [lo, hi) of it is a record, a *)
(* requested range too.  The text of headers and bodies is left out: a     *)
(* multipart body is the sequence of its parts, a part is its slice.       *)
(***************************************************************************)
EXTENDS Integers, Sequences, SequencesExt

CONSTANTS
  Size,          (* bytes of the object                                   *)
  Requests,      (* the lists of ranges that may be asked for             *)
  MaxInflight,   (* FALLBACK_MAX_INFLIGHT                                 *)
  HonoursRange   (* the server answers a single range with 206            *)

Slices == [lo : 0 .. Size, hi : 0 .. Size]
Empty(r) == r.hi <= r.lo
Disjoint(r, s) == r.hi <= s.lo \/ s.hi <= r.lo

(* Ranges are the tile and header ranges of one file: two of them are the  *)
(* same bytes or have no byte in common.                                   *)
ASSUME HttpAssumption ==
  /\ Size \in Nat \ {0}
  /\ MaxInflight \in Nat \ {0}
  /\ HonoursRange \in BOOLEAN
  /\ Requests \subseteq Seq(Slices)
  /\ \A rs \in Requests : \A j, k \in DOMAIN rs :
       rs[j] = rs[k] \/ Empty(rs[j]) \/ Empty(rs[k]) \/ Disjoint(rs[j], rs[k])

Whole == [lo |-> 0, hi |-> Size]
NoBytes == [lo |-> 0, hi |-> 0]

VARIABLES
  ranges,    (* the ranges of the call                                    *)
  phase,     (* begin, multi, single, done, error                         *)
  request,   (* of each range: idle, sent, ok, failed                     *)
  got,       (* the bytes of each range, once ok                          *)
  yielded    (* results handed to try_collect, in order                   *)

httpVars == <<ranges, phase, request, got, yielded>>

Asked == DOMAIN ranges

HttpInit ==
  /\ ranges \in Requests
  /\ phase = "begin"
  /\ request = [k \in Asked |-> "idle"]
  /\ got = [k \in Asked |-> NoBytes]
  /\ yielded = 0

-----------------------------------------------------------------------------
(* The server (external).  A multipart body has parts with no byte in      *)
(* common: each is one range, or several coalesced with the gaps between   *)
(* them; parts come in any order and some may be missing.                  *)
Coalesced ==
  {s \in Slices : ~Empty(s) /\ \E j, k \in Asked : s = [lo |-> ranges[j].lo, hi |-> ranges[k].hi]}
Bodies ==
  {parts \in SeqOf(Coalesced, Len(ranges)) :
     \A j, k \in DOMAIN parts : j # k => Disjoint(parts[j], parts[k])}

(* The body of the answer to a single range: that range, or all the object *)
(* when the server answers 200.                                            *)
Body(k) == IF HonoursRange THEN ranges[k] ELSE Whole

-----------------------------------------------------------------------------
(* Mutant of SendMulti: empty ranges go into the header too.               *)
SendMulti_Empties ==
  /\ phase = "begin"
  /\ Len(ranges) > 1
  /\ phase' = "multi"
  /\ UNCHANGED <<ranges, request, got, yielded>>

(* get_byte_ranges with several ranges, none empty: one request for all.   *)
SendMulti ==
  /\ phase = "begin"
  /\ Len(ranges) > 1
  /\ \A k \in Asked : ~Empty(ranges[k])
  /\ phase' = "multi"
  /\ UNCHANGED <<ranges, request, got, yielded>>

(* No range, one range, or an empty one among several.                     *)
SkipMulti ==
  /\ phase = "begin"
  /\ Len(ranges) <= 1 \/ \E k \in Asked : Empty(ranges[k])
  /\ phase' = "single"
  /\ UNCHANGED <<ranges, request, got, yielded>>

(* Mutant of PartFor: parts taken by their place in the body.              *)
PartFor_ByPlace(parts, k) ==
  IF Len(parts) >= Len(ranges) THEN {parts[k]} ELSE {}

(* parse_byteranges: the part that starts where the range starts.          *)
PartFor(parts, k) == {parts[j] : j \in {i \in DOMAIN parts : parts[i].lo = ranges[k].lo}}

(* A multipart 206 with a part for every range is the answer.              *)
MultiAnswered(parts) ==
  /\ phase = "multi"
  /\ \A k \in Asked : PartFor(parts, k) # {}
  /\ got' \in {g \in [Asked -> ToSet(parts)] : \A k \in Asked : g[k] \in PartFor(parts, k)}
  /\ phase' = "done"
  /\ UNCHANGED <<ranges, request, yielded>>

(* A part missing, a 200 (its body unread), a 206 that is not multipart,   *)
(* an error status, a broken body, a timeout: ask range by range.          *)
MultiRefused(parts) ==
  /\ phase = "multi"
  /\ \E k \in Asked : PartFor(parts, k) = {}
  /\ phase' = "single"
  /\ UNCHANGED <<ranges, request, got, yielded>>

-----------------------------------------------------------------------------
(* buffered(MaxInflight): the next range starts while fewer than that many *)
(* are started and not yet handed on.                                      *)
Startable(k) ==
  /\ phase = "single"
  /\ request[k] = "idle"
  /\ \A j \in 1 .. k - 1 : request[j] # "idle"
  /\ k - 1 - yielded < MaxInflight

(* get_bytes of an empty range answers without a request.                  *)
GetEmpty(k) ==
  /\ Startable(k)
  /\ Empty(ranges[k])
  /\ request' = [request EXCEPT ![k] = "ok"]
  /\ UNCHANGED <<ranges, phase, got, yielded>>

Send(k) ==
  /\ Startable(k)
  /\ ~Empty(ranges[k])
  /\ request' = [request EXCEPT ![k] = "sent"]
  /\ UNCHANGED <<ranges, phase, got, yielded>>

(* Mutant of Answer: handed on as it arrives, and again in order.          *)
Answer_AsItArrives(k) ==
  /\ phase = "single"
  /\ request[k] = "sent"
  /\ request' = [request EXCEPT ![k] = "ok"]
  /\ got' = [got EXCEPT ![k] = Body(k)]
  /\ yielded' = yielded + 1
  /\ UNCHANGED <<ranges, phase>>

(* The whole body is read, whatever 2xx status it came with.               *)
Answer(k) ==
  /\ phase = "single"
  /\ request[k] = "sent"
  /\ request' = [request EXCEPT ![k] = "ok"]
  /\ got' = [got EXCEPT ![k] = Body(k)]
  /\ UNCHANGED <<ranges, phase, yielded>>

(* An error status, a broken connection, or the client's timeout.          *)
Fail(k) ==
  /\ phase = "single"
  /\ request[k] = "sent"
  /\ request' = [request EXCEPT ![k] = "failed"]
  /\ UNCHANGED <<ranges, phase, got, yielded>>

(* Mutant of Yield: a failed range gives no bytes.                         *)
Yield_SkipsFailed ==
  /\ phase = "single"
  /\ yielded < Len(ranges)
  /\ request[yielded + 1] \in {"ok", "failed"}
  /\ yielded' = yielded + 1
  /\ UNCHANGED <<ranges, phase, request, got>>

(* try_collect takes the results in request order.                         *)
Yield ==
  /\ phase = "single"
  /\ yielded < Len(ranges)
  /\ request[yielded + 1] = "ok"
  /\ yielded' = yielded + 1
  /\ UNCHANGED <<ranges, phase, request, got>>

(* Mutant of YieldError: the error waits for all the other ranges.         *)
YieldError_AtEnd ==
  /\ phase = "single"
  /\ yielded < Len(ranges)
  /\ request[yielded + 1] = "failed"
  /\ \A j \in Asked \ {yielded + 1} : request[j] \in {"ok", "failed"}
  /\ phase' = "error"
  /\ UNCHANGED <<ranges, request, got, yielded>>

(* The first error in request order ends the call; the rest is dropped.    *)
YieldError ==
  /\ phase = "single"
  /\ yielded < Len(ranges)
  /\ request[yielded + 1] = "failed"
  /\ phase' = "error"
  /\ UNCHANGED <<ranges, request, got, yielded>>

Collected ==
  /\ phase = "single"
  /\ yielded = Len(ranges)
  /\ phase' = "done"
  /\ UNCHANGED <<ranges, request, got, yielded>>

HttpNext ==
  \/ SendMulti
  \/ SkipMulti
  \/ phase = "multi" /\ \E parts \in Bodies : MultiAnswered(parts)
  \/ phase = "multi" /\ \E parts \in Bodies : MultiRefused(parts)
  \/ \E k \in Asked : GetEmpty(k)
  \/ \E k \in Asked : Send(k)
  \/ \E k \in Asked : Answer(k)
  \/ \E k \in Asked : Fail(k)
  \/ Yield
  \/ YieldError
  \/ Collected

HttpSpec == HttpInit /\ [][HttpNext]_httpVars

(* Every request ends (build_http_client sets a connect and a total        *)
(* timeout) and the runtime polls the call.                                *)
FairHttpSpec == HttpSpec /\ WF_httpVars(HttpNext)

-----------------------------------------------------------------------------
(* Type invariant of the range reader.                                     *)
HttpTypeOK ==
  /\ ranges \in Requests
  /\ phase \in {"begin", "multi", "single", "done", "error"}
  /\ request \in [Asked -> {"idle", "sent", "ok", "failed"}]
  /\ got \in [Asked -> Slices]
  /\ yielded \in 0 .. Len(ranges)

(* The bytes handed to the TIFF reader are, range by range and in the      *)
(* order asked, the bytes asked for: a reordered, coalesced or partial     *)
(* multipart body is put right or given up for single requests.            *)
RangesExact ==
  phase = "done" =>
    \A k \in Asked : IF Empty(ranges[k]) THEN Empty(got[k]) ELSE got[k] = ranges[k]

(* No request carries an empty range: its last byte, end - 1, would wrap.  *)
NoEmptyRequest ==
  \A k \in Asked : Empty(ranges[k]) => phase # "multi" /\ request[k] # "sent"

(* The fallback is bounded over the whole list: the connections open and   *)
(* the bodies read but not yet handed on are at most MaxInflight, and they *)
(* are the next ranges in order.                                           *)
FallbackBounded ==
  \A k \in Asked :
    /\ request[k] # "idle" => k <= yielded + MaxInflight
    /\ k <= yielded => request[k] = "ok"

(* The call ends, with all the ranges or with an error.                    *)
ReadEnds == <>(phase \in {"done", "error"})

(* What the module's comment says: "a non-cooperating server never         *)
(* triggers a whole-file download".                                        *)
NeverWholeFile == \A k \in Asked : got[k] # Whole

-----------------------------------------------------------------------------
(* Strengthenings for the proofs.                                          *)

(* Before the single requests nothing has been asked.                      *)
NothingSentYet ==
  phase \in {"begin", "multi"} =>
    yielded = 0 /\ \A k \in Asked : request[k] = "idle"

(* A range that was answered has its bytes; an empty one has none.         *)
AnswersRight ==
  phase # "done" =>
    \A k \in Asked :
      IF Empty(ranges[k]) THEN Empty(got[k]) ELSE request[k] = "ok" => got[k] = ranges[k]

HttpInv == HttpTypeOK /\ NoEmptyRequest /\ FallbackBounded /\ NothingSentYet

=============================================================================
