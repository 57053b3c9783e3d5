-------------------------- MODULE HttpRange_proofs --------------------------
(***************************************************************************)
(* For every object, list of ranges and MaxInflight: the reader returns    *)
(* the bytes asked for, in order, whatever a server that honours single    *)
(* ranges makes of a multi-range request.                                  *)
(***************************************************************************)
EXTENDS HttpRange, TLAPS

LEMMA RequestTypes ==
  ASSUME HttpTypeOK
  PROVE  /\ ranges \in Seq(Slices) /\ Asked = 1 .. Len(ranges) /\ Len(ranges) \in Nat
         /\ \A k \in Asked : ranges[k] \in Slices /\ ranges[k].lo \in Nat /\ ranges[k].hi \in Nat
         /\ MaxInflight \in Nat \ {0} /\ Size \in Nat
<1>1. ranges \in Seq(Slices) /\ MaxInflight \in Nat \ {0} /\ Size \in Nat
  BY HttpAssumption DEF HttpTypeOK
<1>2. Asked = 1 .. Len(ranges) /\ Len(ranges) \in Nat
  BY <1>1 DEF Asked
<1>3. \A k \in Asked : ranges[k] \in Slices
  BY <1>1, <1>2
<1>4. \A r \in Slices : r.lo \in Nat /\ r.hi \in Nat
  BY <1>1 DEF Slices
<1> QED
  BY <1>1, <1>2, <1>3, <1>4

LEMMA RangesApart ==
  ASSUME HttpTypeOK, NEW j \in Asked, NEW k \in Asked,
         ~Empty(ranges[j]), ~Empty(ranges[k])
  PROVE  ranges[j] = ranges[k] \/ Disjoint(ranges[j], ranges[k])
  BY HttpAssumption DEF HttpTypeOK, Asked

(* The part taken for a range is that range: a coalesced part hides the    *)
(* start of another range, for which there is then no part.                *)
LEMMA PartIsRange ==
  ASSUME HttpTypeOK, \A k \in Asked : ~Empty(ranges[k]),
         NEW parts \in Bodies, \A k \in Asked : PartFor(parts, k) # {},
         NEW k \in Asked, NEW part \in PartFor(parts, k)
  PROVE  part = ranges[k]
<1>1. \A j \in DOMAIN parts : parts[j] \in Coalesced
  BY DEF Bodies, SeqOf
<1>2. PICK j \in DOMAIN parts : part = parts[j] /\ parts[j].lo = ranges[k].lo
  BY DEF PartFor
<1>3. PICK a \in Asked, b \in Asked : part = [lo |-> ranges[a].lo, hi |-> ranges[b].hi]
  BY <1>1, <1>2 DEF Coalesced
<1>4. ~Empty(part) /\ part.lo = ranges[k].lo /\ part.hi = ranges[b].hi
  <2>1. part \in Coalesced /\ part.lo = ranges[k].lo
    BY <1>1, <1>2
  <2>2. ~Empty(part)
    BY <2>1 DEF Coalesced
  <2> QED
    BY <1>3, <2>1, <2>2
<1>5. /\ ranges[k].lo \in Nat /\ ranges[k].hi \in Nat /\ ranges[k].lo < ranges[k].hi
      /\ ranges[b].lo \in Nat /\ ranges[b].hi \in Nat /\ ranges[b].lo < ranges[b].hi
  BY RequestTypes DEF Empty
<1>6. ranges[b] = ranges[k] \/ Disjoint(ranges[b], ranges[k])
  BY RangesApart
<1>7. CASE ranges[b] = ranges[k]
  <2>1. part = [lo |-> ranges[k].lo, hi |-> ranges[k].hi]
    BY <1>3, <1>4, <1>7
  <2>2. ranges[k] = [lo |-> ranges[k].lo, hi |-> ranges[k].hi]
    BY RequestTypes DEF Slices
  <2> QED
    BY <2>1, <2>2
<1>8. CASE ranges[b].hi <= ranges[k].lo
  BY <1>4, <1>5, <1>8 DEF Empty
<1>9. CASE ranges[k].hi <= ranges[b].lo
  <2>1. PICK m \in DOMAIN parts : parts[m].lo = ranges[b].lo
    BY DEF PartFor
  <2>2. m # j
    BY <1>2, <1>5, <1>9, <2>1
  <2>3. Disjoint(parts[j], parts[m])
    BY <2>2 DEF Bodies
  <2>4. PICK s : s = parts[m]
    OBVIOUS
  <2>5. s.lo \in Nat /\ s.hi \in Nat /\ s.lo < s.hi
    <3>1. s \in Slices /\ ~Empty(s)
      BY <1>1, <2>4 DEF Coalesced
    <3> QED
      BY <3>1, RequestTypes DEF Slices, Empty
  <2>6. part.hi <= s.lo \/ s.hi <= part.lo
    BY <1>2, <2>3, <2>4 DEF Disjoint
  <2> QED
    BY <1>4, <1>5, <1>9, <2>1, <2>4, <2>5, <2>6
<1> QED
  BY <1>6, <1>7, <1>8, <1>9 DEF Disjoint

-----------------------------------------------------------------------------
LEMMA HttpInitInv == HttpInit => HttpInv /\ AnswersRight
<1> SUFFICES ASSUME HttpInit PROVE HttpInv /\ AnswersRight
  OBVIOUS
<1>1. /\ ranges \in Seq(Slices) /\ Len(ranges) \in Nat /\ NoBytes \in Slices
      /\ Empty(NoBytes) /\ MaxInflight \in Nat
  <2>1. ranges \in Seq(Slices) /\ MaxInflight \in Nat /\ Size \in Nat
    BY HttpAssumption DEF HttpInit
  <2>2. NoBytes \in Slices
    BY <2>1 DEF NoBytes, Slices
  <2>3. Empty(NoBytes)
    BY DEF NoBytes, Empty
  <2> QED
    BY <2>1, <2>2, <2>3
<1> QED
  BY <1>1 DEF HttpInit, HttpInv, HttpTypeOK, NoEmptyRequest, FallbackBounded, NothingSentYet,
     AnswersRight, Asked

LEMMA HttpStepInv == HttpInv /\ [HttpNext]_httpVars => HttpInv'
<1> SUFFICES ASSUME HttpInv, [HttpNext]_httpVars PROVE HttpInv'
  OBVIOUS
<1>1. /\ ranges \in Seq(Slices) /\ Asked = 1 .. Len(ranges) /\ Len(ranges) \in Nat
      /\ \A k \in Asked : ranges[k] \in Slices
      /\ MaxInflight \in Nat \ {0} /\ Size \in Nat /\ Whole \in Slices
      /\ yielded \in 0 .. Len(ranges) /\ ranges \in Requests
      /\ request \in [Asked -> {"idle", "sent", "ok", "failed"}] /\ got \in [Asked -> Slices]
  BY RequestTypes DEF HttpInv, HttpTypeOK, Whole, Slices
<1> USE DEF HttpInv, HttpTypeOK, NoEmptyRequest, FallbackBounded, NothingSentYet, Asked
<1>2. CASE SendMulti
  BY <1>1, <1>2 DEF SendMulti
<1>3. CASE SkipMulti
  BY <1>1, <1>3 DEF SkipMulti
<1>4. CASE \E parts \in Bodies : phase = "multi" /\ MultiAnswered(parts)
  <2>1. PICK parts \in Bodies : phase = "multi" /\ MultiAnswered(parts)
    BY <1>4
  <2>2. \A j \in DOMAIN parts : parts[j] \in Slices
    BY <2>1 DEF Bodies, SeqOf, Coalesced
  <2>3. got' \in [Asked -> Slices]
    BY <2>1, <2>2 DEF MultiAnswered, ToSet
  <2> QED
    BY <1>1, <2>1, <2>3 DEF MultiAnswered
<1>5. CASE \E parts \in Bodies : phase = "multi" /\ MultiRefused(parts)
  BY <1>1, <1>5 DEF MultiRefused
<1>6. CASE \E k \in Asked : GetEmpty(k)
  BY <1>1, <1>6 DEF GetEmpty, Startable
<1>7. CASE \E k \in Asked : Send(k)
  BY <1>1, <1>7 DEF Send, Startable
<1>8. CASE \E k \in Asked : Answer(k)
  BY <1>1, <1>8 DEF Answer, Body
<1>9. CASE \E k \in Asked : Fail(k)
  BY <1>1, <1>9 DEF Fail
<1>10. CASE Yield
  BY <1>1, <1>10 DEF Yield
<1>11. CASE YieldError
  BY <1>1, <1>11 DEF YieldError
<1>12. CASE Collected
  BY <1>1, <1>12 DEF Collected
<1>13. CASE UNCHANGED httpVars
  BY <1>1, <1>13 DEF httpVars
<1> QED
  BY <1>2, <1>3, <1>4, <1>5, <1>6, <1>7, <1>8, <1>9, <1>10, <1>11, <1>12, <1>13 DEF HttpNext

LEMMA HttpStepRight ==
  ASSUME HonoursRange, HttpInv, AnswersRight, RangesExact, [HttpNext]_httpVars
  PROVE  AnswersRight' /\ RangesExact'
<1>1. /\ Asked = 1 .. Len(ranges) /\ Len(ranges) \in Nat /\ yielded \in 0 .. Len(ranges)
      /\ request \in [Asked -> {"idle", "sent", "ok", "failed"}] /\ got \in [Asked -> Slices]
      /\ HttpTypeOK
  BY RequestTypes DEF HttpInv, HttpTypeOK
<1>2. UNCHANGED ranges
  BY DEF HttpNext, SendMulti, SkipMulti, MultiAnswered, MultiRefused, GetEmpty, Send, Answer,
     Fail, Yield, YieldError, Collected, httpVars
<1>3. CASE \E parts \in Bodies : phase = "multi" /\ MultiAnswered(parts)
  <2>1. PICK parts \in Bodies : phase = "multi" /\ MultiAnswered(parts)
    BY <1>3
  <2>2. \A k \in Asked : ~Empty(ranges[k])
    BY <2>1 DEF HttpInv, NoEmptyRequest
  <2>3. \A k \in Asked : PartFor(parts, k) # {} /\ got'[k] \in PartFor(parts, k)
    BY <2>1 DEF MultiAnswered
  <2>4. \A k \in Asked : got'[k] = ranges[k]
    BY <1>1, <2>2, <2>3, PartIsRange
  <2> QED
    BY <1>2, <2>1, <2>2, <2>4 DEF MultiAnswered, AnswersRight, RangesExact, Asked
<1>4. CASE \E k \in Asked : Answer(k)
  <2>1. PICK k \in Asked : Answer(k)
    BY <1>4
  <2>2. got' = [got EXCEPT ![k] = ranges[k]] /\ request' = [request EXCEPT ![k] = "ok"]
        /\ phase = "single" /\ phase' = "single" /\ request[k] = "sent"
    BY <2>1 DEF Answer, Body
  <2>3. ~Empty(ranges[k])
    BY <2>2 DEF HttpInv, NoEmptyRequest
  <2> QED
    BY <1>1, <1>2, <2>2, <2>3 DEF AnswersRight, RangesExact, Asked
<1>5. CASE \E k \in Asked : GetEmpty(k)
  BY <1>1, <1>2, <1>5 DEF GetEmpty, Startable, AnswersRight, RangesExact, Asked
<1>6. CASE \E k \in Asked : Send(k) \/ Fail(k)
  BY <1>1, <1>2, <1>6 DEF Send, Startable, Fail, AnswersRight, RangesExact, Asked
<1>7. CASE Collected
  <2>1. \A k \in Asked : request[k] = "ok"
    BY <1>1, <1>7 DEF Collected, HttpInv, FallbackBounded
  <2> QED
    BY <1>1, <1>2, <1>7, <2>1 DEF Collected, AnswersRight, RangesExact, Asked
<1>8. CASE \/ SendMulti \/ SkipMulti \/ Yield \/ YieldError
           \/ \E parts \in Bodies : MultiRefused(parts)
           \/ UNCHANGED httpVars
  BY <1>1, <1>2, <1>8 DEF SendMulti, SkipMulti, Yield, YieldError, MultiRefused, httpVars,
     AnswersRight, RangesExact, Asked
<1> QED
  BY <1>3, <1>4, <1>5, <1>6, <1>7, <1>8 DEF HttpNext

-----------------------------------------------------------------------------
(* The invariant of the reader, whatever the server does.                  *)
THEOREM HttpInvariant == HttpSpec => []HttpInv
<1>1. HttpInit => HttpInv
  BY HttpInitInv
<1> QED
  BY <1>1, HttpStepInv, PTL DEF HttpSpec

(* Type correctness of a get_byte_ranges call.                             *)
THEOREM HttpTyped == HttpSpec => []HttpTypeOK
<1>1. HttpInv => HttpTypeOK
  BY DEF HttpInv
<1> QED
  BY <1>1, HttpInvariant, PTL

(* No empty range is put into a request.                                   *)
THEOREM HttpNoEmptyRequest == HttpSpec => []NoEmptyRequest
<1>1. HttpInv => NoEmptyRequest
  BY DEF HttpInv
<1> QED
  BY <1>1, HttpInvariant, PTL

(* The fallback keeps to its window of MaxInflight ranges.                 *)
THEOREM HttpFallbackBounded == HttpSpec => []FallbackBounded
<1>1. HttpInv => FallbackBounded
  BY DEF HttpInv
<1> QED
  BY <1>1, HttpInvariant, PTL

(* With a server that honours single ranges, a call that returns has the   *)
(* bytes of every range, in order.                                         *)
THEOREM HttpExact ==
  ASSUME HonoursRange
  PROVE  HttpSpec => []RangesExact
<1>1. HttpInit => HttpInv /\ AnswersRight /\ RangesExact
  <2>1. HttpInit => RangesExact
    BY DEF HttpInit, RangesExact
  <2> QED
    BY <2>1, HttpInitInv
<1>2. HttpInv /\ AnswersRight /\ RangesExact /\ [HttpNext]_httpVars
        => HttpInv' /\ AnswersRight' /\ RangesExact'
  BY HttpStepInv, HttpStepRight
<1> QED
  BY <1>1, <1>2, PTL DEF HttpSpec

(* A server that honours single ranges never makes the reader read the     *)
(* whole object, unless the object was asked for.                          *)
THEOREM HttpNeverWhole ==
  ASSUME HonoursRange, \A rs \in Requests : \A k \in DOMAIN rs : rs[k] # Whole
  PROVE  HttpSpec => []NeverWholeFile
<1>1. HttpInit => NeverWholeFile
  <2>1. NoBytes # Whole
    BY HttpAssumption DEF NoBytes, Whole
  <2> QED
    BY <2>1 DEF HttpInit, NeverWholeFile
<1>2. ASSUME HttpInv, NeverWholeFile, [HttpNext]_httpVars
      PROVE  NeverWholeFile'
  <2>1. /\ HttpTypeOK /\ got \in [Asked -> Slices] /\ ranges' = ranges
        /\ \A k \in Asked : ranges[k] # Whole
    BY <1>2 DEF HttpInv, HttpTypeOK, Asked, HttpNext, SendMulti, SkipMulti, MultiAnswered,
       MultiRefused, GetEmpty, Send, Answer, Fail, Yield, YieldError, Collected, httpVars
  <2>2. CASE \E parts \in Bodies : phase = "multi" /\ MultiAnswered(parts)
    <3>1. PICK parts \in Bodies : phase = "multi" /\ MultiAnswered(parts)
      BY <2>2
    <3>2. \A k \in Asked : ~Empty(ranges[k])
      BY <1>2, <3>1 DEF HttpInv, NoEmptyRequest
    <3>3. \A k \in Asked : PartFor(parts, k) # {} /\ got'[k] \in PartFor(parts, k)
      BY <3>1 DEF MultiAnswered
    <3>4. \A k \in Asked : got'[k] = ranges[k]
      BY <2>1, <3>2, <3>3, PartIsRange
    <3> QED
      BY <2>1, <3>4 DEF NeverWholeFile, Asked
  <2>3. CASE \E k \in Asked : Answer(k)
    BY <1>2, <2>1, <2>3 DEF Answer, Body, NeverWholeFile, Asked
  <2>4. CASE UNCHANGED got
    BY <1>2, <2>1, <2>4 DEF NeverWholeFile, Asked
  <2> QED
    BY <1>2, <2>2, <2>3, <2>4
    DEF HttpNext, SendMulti, SkipMulti, MultiRefused, GetEmpty, Send, Fail, Yield, YieldError,
        Collected, httpVars
<1> QED
  BY <1>1, <1>2, HttpInvariant, PTL DEF HttpSpec

=============================================================================
