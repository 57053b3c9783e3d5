---------------------------- MODULE FetchStream ----------------------------
(***************************************************************************)
(* The streaming fetch session of src/src/rust/src/lib.rs: R opens a set   *)
(* of sources, cog_fetch_stream_begin spawns ONE driver task that pushes   *)
(* every requested window fetch through buffer_unordered(io), each fetch   *)
(* then awaits a send on a bounded channel, and cog_fetch_take blocks R's  *)
(* thread for the next completed window.                                   *)
(*                                                                         *)
(* A job is named by the (1-based) source it reads: the only caller,       *)
(* ck_batch, requests each source at most once, in increasing order.       *)
(***************************************************************************)
EXTENDS Integers, Sequences, FiniteSets

CONSTANTS
  NSrc,      (* number of sources opened into the SourceSet               *)
  Io,        (* fetch futures buffer_unordered keeps alive at once        *)
  Buf,       (* depth of the channel between the driver and R             *)
  CanPanic,  (* TRUE: a fetch future may panic instead of returning       *)
  CanDrop    (* TRUE: R may abandon the session before it is drained      *)

ASSUME StreamAssumption ==
  /\ NSrc \in Nat
  /\ Io \in Nat \ {0}
  /\ Buf \in Nat \ {0}
  /\ CanPanic \in BOOLEAN
  /\ CanDrop \in BOOLEAN

Src == 1 .. NSrc

VARIABLES
  idx,       (* the sources requested from the session                    *)
  todo,      (* requested, not yet pulled by the driver                   *)
  fetching,  (* fetch futures that have not produced a result             *)
  parked,    (* fetches with a result, awaiting tx.send                   *)
  result,    (* "none", or what the fetch of a source produced            *)
  chan,      (* the channel: sources in the order they were sent          *)
  taken,     (* sources cog_fetch_take has handed to R                    *)
  lost,      (* sources whose window or future was dropped unread         *)
  driver,    (* the driver task                                           *)
  sess,      (* the FetchSession R holds                                  *)
  eos        (* cog_fetch_take has returned NULL                          *)

streamVars ==
  <<idx, todo, fetching, parked, result, chan, taken, lost, driver, sess, eos>>

(* The elements of a sequence.                                             *)
Elems(q) == {q[i] : i \in DOMAIN q}

Sent == Elems(chan)

StreamTypeOK ==
  /\ idx \in SUBSET Src
  /\ todo \in SUBSET Src
  /\ fetching \in SUBSET Src
  /\ parked \in SUBSET Src
  /\ result \in [Src -> {"none", "ok", "err"}]
  /\ chan \in Seq(Src)
  /\ taken \in SUBSET Src
  /\ lost \in SUBSET Src
  /\ driver \in {"running", "ended", "panicked", "aborted"}
  /\ sess \in {"open", "dropped"}
  /\ eos \in BOOLEAN

(* Mutant of StreamInit: results sized by the request, not by the set.     *)
StreamInit_SizedByRequest ==
  /\ idx \in SUBSET Src
  /\ todo = idx
  /\ fetching = {}
  /\ parked = {}
  /\ result = [s \in idx |-> "none"]
  /\ chan = <<>>
  /\ taken = {}
  /\ lost = {}
  /\ driver = "running"
  /\ sess = "open"
  /\ eos = FALSE

(***************************************************************************)
(* cog_fetch_stream_begin: every index was validated against the set, the  *)
(* channel is created and the driver spawned.                              *)
(***************************************************************************)
StreamInit ==
  /\ idx \in SUBSET Src
  /\ todo = idx
  /\ fetching = {}
  /\ parked = {}
  /\ result = [s \in Src |-> "none"]
  /\ chan = <<>>
  /\ taken = {}
  /\ lost = {}
  /\ driver = "running"
  /\ sess = "open"
  /\ eos = FALSE

-----------------------------------------------------------------------------
(***************************************************************************)
(* The driver task.                                                        *)
(***************************************************************************)

(* Futures buffer_unordered owns: a parked send still occupies its slot.   *)
Slots == fetching \cup parked

(* Mutant of Pull: a parked send no longer counts against io.              *)
Pull_ParkedIsFree(s) ==
  /\ driver = "running"
  /\ s \in todo
  /\ \A t \in todo : s <= t
  /\ Cardinality(fetching) < Io
  /\ todo' = todo \ {s}
  /\ fetching' = fetching \cup {s}
  /\ UNCHANGED <<idx, parked, result, chan, taken, lost, driver, sess, eos>>

(* buffer_unordered asks the iterator for the next job, in order, whenever *)
(* fewer than io futures are alive.                                        *)
Pull(s) ==
  /\ driver = "running"
  /\ s \in todo
  /\ \A t \in todo : s <= t
  /\ Cardinality(Slots) < Io
  /\ todo' = todo \ {s}
  /\ fetching' = fetching \cup {s}
  /\ UNCHANGED <<idx, parked, result, chan, taken, lost, driver, sess, eos>>

(* A fetch returns a window or an error (errors include HTTP timeouts).    *)
Finish(s, r) ==
  /\ driver = "running"
  /\ s \in fetching
  /\ fetching' = fetching \ {s}
  /\ parked' = parked \cup {s}
  /\ result' = [result EXCEPT ![s] = r]
  /\ UNCHANGED <<idx, todo, chan, taken, lost, driver, sess, eos>>

(* Mutant of Send: try_send, which gives up on a full channel.             *)
Send_OrGiveUp(s) ==
  /\ driver = "running"
  /\ sess = "open"
  /\ s \in parked
  /\ IF Len(chan) < Buf
     THEN chan' = Append(chan, s) /\ UNCHANGED lost
     ELSE lost' = lost \cup {s} /\ UNCHANGED chan
  /\ parked' = parked \ {s}
  /\ UNCHANGED <<idx, todo, fetching, result, taken, driver, sess, eos>>

(* tx.send completes when the channel has room.                            *)
Send(s) ==
  /\ driver = "running"
  /\ sess = "open"
  /\ s \in parked
  /\ Len(chan) < Buf
  /\ chan' = Append(chan, s)
  /\ parked' = parked \ {s}
  /\ UNCHANGED <<idx, todo, fetching, result, taken, lost, driver, sess, eos>>

(* The receiver is gone: send fails at once, and "let _ =" ignores it.     *)
SendClosed(s) ==
  /\ driver = "running"
  /\ sess = "dropped"
  /\ s \in parked
  /\ parked' = parked \ {s}
  /\ lost' = lost \cup {s}
  /\ UNCHANGED <<idx, todo, fetching, result, chan, taken, driver, sess, eos>>

(* What dropping the driver's future loses: everything not yet sent.       *)
DropFutures ==
  /\ lost' = lost \cup todo \cup fetching \cup parked
  /\ todo' = {}
  /\ fetching' = {}
  /\ parked' = {}

(* All futures are polled by the one driver task, so a panic in one fetch  *)
(* unwinds the task and drops every other future and every sender.         *)
Panic(s) ==
  /\ CanPanic
  /\ driver = "running"
  /\ s \in fetching
  /\ driver' = "panicked"
  /\ DropFutures
  /\ UNCHANGED <<idx, result, chan, taken, sess, eos>>

(* Mutant of DriverEnd: the sends are spawned instead of awaited, and the  *)
(* driver returns while some are still waiting for room.                   *)
DriverEnd_SendsDetached ==
  /\ driver = "running"
  /\ todo = {} /\ fetching = {}
  /\ driver' = "ended"
  /\ parked' = {}
  /\ lost' = lost \cup parked
  /\ UNCHANGED <<idx, todo, fetching, result, chan, taken, sess, eos>>

(* Mutant of DriverEnd: a sender outlives the driver, so that the receiver *)
(* never learns that nothing more can come.                                *)
DriverEnd_SenderKept == driver = "running" /\ UNCHANGED streamVars

(* collect() completes: the driver returns and drops the last sender.      *)
DriverEnd ==
  /\ driver = "running"
  /\ todo = {} /\ fetching = {} /\ parked = {}
  /\ driver' = "ended"
  /\ UNCHANGED <<idx, todo, fetching, parked, result, chan, taken, lost, sess, eos>>

(* The abort requested by Drop takes effect at an await point, later.      *)
Abort ==
  /\ driver = "running"
  /\ sess = "dropped"
  /\ driver' = "aborted"
  /\ DropFutures
  /\ UNCHANGED <<idx, result, chan, taken, sess, eos>>

DriverNext ==
  \/ \E s \in Src : Pull(s)
  \/ \E s \in Src, r \in {"ok", "err"} : Finish(s, r)
  \/ \E s \in Src : Send(s)
  \/ \E s \in Src : SendClosed(s)
  \/ \E s \in Src : Panic(s)
  \/ DriverEnd
  \/ Abort

-----------------------------------------------------------------------------
(***************************************************************************)
(* R's side of the session.                                                *)
(***************************************************************************)

(* Mutant of Take: the message is read but left in the channel.            *)
Take_Peek ==
  /\ sess = "open"
  /\ ~eos
  /\ chan # <<>>
  /\ taken' = taken \cup {Head(chan)}
  /\ UNCHANGED <<idx, todo, fetching, parked, result, chan, lost, driver, sess, eos>>

(* cog_fetch_take returns a window or a per-source error.                  *)
Take ==
  /\ sess = "open"
  /\ ~eos
  /\ chan # <<>>
  /\ taken' = taken \cup {Head(chan)}
  /\ chan' = Tail(chan)
  /\ UNCHANGED <<idx, todo, fetching, parked, result, lost, driver, sess, eos>>

(* Mutant of TakeNull: try_recv, which cannot tell empty from finished.    *)
TakeNull_OnEmpty ==
  /\ sess = "open"
  /\ ~eos
  /\ chan = <<>>
  /\ eos' = TRUE
  /\ UNCHANGED <<idx, todo, fetching, parked, result, chan, taken, lost, driver, sess>>

(* blocking_recv yields None once the channel is empty and every sender is *)
(* dropped, whatever ended the driver: cog_fetch_take returns NULL.        *)
TakeNull ==
  /\ sess = "open"
  /\ ~eos
  /\ chan = <<>>
  /\ driver # "running"
  /\ eos' = TRUE
  /\ UNCHANGED <<idx, todo, fetching, parked, result, chan, taken, lost, driver, sess>>

(* R abandons the handle: FetchSession::drop aborts the task, and the      *)
(* receiver goes with everything it still holds.                           *)
DropSession ==
  /\ CanDrop
  /\ sess = "open"
  /\ sess' = "dropped"
  /\ lost' = lost \cup Sent
  /\ chan' = <<>>
  /\ UNCHANGED <<idx, todo, fetching, parked, result, taken, driver, eos>>

StreamNext == DriverNext \/ Take \/ TakeNull \/ DropSession

StreamSpec == StreamInit /\ [][StreamNext]_streamVars

(***************************************************************************)
(* Fairness: tokio keeps polling a woken task; every HTTP request carries  *)
(* a timeout (http_reader.rs), so a fetch returns; R's loop keeps taking.  *)
(***************************************************************************)
DriverFairness ==
  /\ \A s \in Src : WF_streamVars(Pull(s))
  /\ \A s \in Src : WF_streamVars(\E r \in {"ok", "err"} : Finish(s, r))
  /\ \A s \in Src : WF_streamVars(Send(s))
  /\ WF_streamVars(DriverEnd)
  /\ WF_streamVars(Abort)

FairStreamSpec ==
  StreamSpec /\ DriverFairness /\ WF_streamVars(Take) /\ WF_streamVars(TakeNull)

-----------------------------------------------------------------------------
(***************************************************************************)
(* Properties.                                                             *)
(***************************************************************************)

(* Every requested source is in exactly one place -- waiting, fetching,    *)
(* parked, in the channel, taken or dropped -- whatever interleaving of    *)
(* completion, parking, panic and abandonment happened.                    *)
Conservation ==
  /\ idx = todo \cup fetching \cup parked \cup Sent \cup taken \cup lost
  /\ todo \cap (fetching \cup parked \cup Sent \cup taken \cup lost) = {}
  /\ fetching \cap (parked \cup Sent \cup taken \cup lost) = {}
  /\ parked \cap (Sent \cup taken \cup lost) = {}
  /\ Sent \cap (taken \cup lost) = {}
  /\ taken \cap lost = {}
  /\ \A i, j \in DOMAIN chan : chan[i] = chan[j] => i = j

(* Backpressure: the fetches started and not yet taken by R never exceed   *)
(* the futures buffer_unordered owns plus the channel's depth, however far *)
(* the consumer falls behind (lib.rs, comment on FetchSession).            *)
Backpressure ==
  /\ Cardinality(Slots) <= Io
  /\ Len(chan) <= Buf

(* cog_fetch_take documents NULL as "the stream is fully drained". The     *)
(* code keeps that unless the driver panicked: NULL after any other end    *)
(* means that R was handed every requested source.                         *)
NullMeansDrainedOrPanicked == eos => taken = idx \/ driver = "panicked"

(* The session implements StreamPromise, where a NULL that follows a panic *)
(* is hidden: exactly-once delivery, and no other NULL before the end.     *)
Promise ==
  INSTANCE StreamPromise WITH Sources <- Src, jobs <- idx, delivered <- taken,
                              over <- eos /\ driver # "panicked"
PromiseKept == Promise!PromiseSpec

(* Liveness: as long as no fetch panics and R keeps the session, every     *)
(* requested source is handed over and then the stream ends, so that R's   *)
(* blocking take never waits forever.                                      *)
EverySourceDelivered ==
  [](driver # "panicked" /\ sess = "open")
    => <>(eos /\ taken = idx)

-----------------------------------------------------------------------------
(***************************************************************************)
(* The inductive invariant behind the safety properties.                   *)
(***************************************************************************)

(* A stopped driver left nothing behind, and nothing is lost while R holds *)
(* the session unless the driver panicked.                                 *)
StoppedClean ==
  /\ driver # "running" => Slots \cup todo = {}
  /\ driver = "aborted" => sess = "dropped"
  /\ sess = "open" /\ driver # "panicked" => lost = {}
  /\ sess = "dropped" => chan = <<>>

(* NULL is final: it was returned on an empty channel nobody can fill.     *)
EosFinal == eos => driver # "running" /\ chan = <<>>

(* Every window offered to R carries a result.                             *)
ResultsKnown == \A s \in parked \cup Sent \cup taken : result[s] # "none"

StreamInv ==
  /\ StreamTypeOK
  /\ Conservation
  /\ Backpressure
  /\ StoppedClean
  /\ EosFinal
  /\ ResultsKnown
  /\ NullMeansDrainedOrPanicked

=============================================================================
