------------------------------ MODULE EventLog ------------------------------
(***************************************************************************)
(* What the ingestion endpoint promises its clients, whatever happens       *)
(* between the request and the answer: an append-only log of rows with at   *)
(* most one row per (vehicle, ts, source), to which a request appends its   *)
(* own row at one instant, and an answer that tells the truth about it.     *)
(*                                                                         *)
(*   accepted   the row of this very request was appended                   *)
(*   duplicate  a row with the same key was already there                   *)
(*   rejected   nothing was appended                                        *)
(*   error      unknown: the row may or may not have been appended          *)
(*                                                                         *)
(* Telemetry implements this specification; no cache appears here.          *)
(***************************************************************************)
CONSTANTS Requests,   \* request slots
          Events,     \* payloads a client may submit
          Rows,       \* rows the log may hold
          NoEvent     \* the slot is not waiting for an answer

VARIABLES log,        \* rows appended so far
          call,       \* the payload a slot waits an answer for, or NoEvent
          answer      \* the last answer a slot received

logVars == <<log, call, answer>>

LogKey(x) == <<x.vehicle, x.ts, x.source>>

InLog(e) == \E row \in log : LogKey(row) = LogKey(e)

\* The row stands for the payload: same key, same measurement.
RecordOf(row, e) == LogKey(row) = LogKey(e) /\ row.speed = e.speed

Init ==
  /\ log = {}
  /\ call = [r \in Requests |-> NoEvent]
  /\ answer = [r \in Requests |-> "none"]

\* A payload refused on sight, without touching the log.
Refuse(r) ==
  /\ call[r] = NoEvent
  /\ answer' = [answer EXCEPT ![r] = "rejected"]
  /\ UNCHANGED <<log, call>>

Submit(r, e) ==
  /\ call[r] = NoEvent
  /\ call' = [call EXCEPT ![r] = e]
  /\ answer' = [answer EXCEPT ![r] = "none"]
  /\ UNCHANGED log

Append(r) ==
  /\ ~InLog(call[r])
  /\ \E row \in Rows : RecordOf(row, call[r]) /\ log' = log \cup {row}

Answer(r, a) ==
  /\ call[r] # NoEvent
  /\ call' = [call EXCEPT ![r] = NoEvent]
  /\ answer' = [answer EXCEPT ![r] = a]

Accept(r) == Answer(r, "accepted") /\ Append(r)

Duplicate(r) == Answer(r, "duplicate") /\ InLog(call[r]) /\ UNCHANGED log

Reject(r) == Answer(r, "rejected") /\ UNCHANGED log

Lose(r) == Answer(r, "error") /\ (Append(r) \/ UNCHANGED log)

Next ==
  \E r \in Requests :
    \/ Refuse(r)
    \/ \E e \in Events : Submit(r, e)
    \/ Accept(r)
    \/ Duplicate(r)
    \/ Reject(r)
    \/ Lose(r)

Spec == Init /\ [][Next]_logVars
=============================================================================
