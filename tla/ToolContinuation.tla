--------------------------- MODULE ToolContinuation ---------------------------
(***************************************************************************)
(* Whether a model call followed a completed tool call, decided from what  *)
(* is retained of the executor's session (evals/_qualify.py, continuation  *)
(* and grade_tool_loop).                                                   *)
(*                                                                         *)
(* The executor records a session as model calls, a call as a start, its   *)
(* tool and a finish with the reason it ended.  Another session may be     *)
(* recorded between its calls.  What is retained may lack rows and, from   *)
(* an earlier recorder, the reasons; clocks may disagree with the order.   *)
(***************************************************************************)
EXTENDS Naturals, Sequences, FiniteSets

CONSTANTS
  MaxCalls,    \* bound: model calls recorded
  MaxLost,     \* bound: rows recorded and not retained
  Undecided, NoReason

ASSUME ContinuationAssumption == MaxCalls \in Nat /\ MaxLost \in Nat

VARIABLES
  calls,       \* in the order of their identifiers: [session, tool, reason, tokens]
  retained     \* what the grader reads: [rows, reasons, named, anomalies, clock]

continuationVars == <<calls, retained>>

Sessions == {"attempt", "other"}
Rows(cs) == (DOMAIN cs) \X {"step-start", "tool", "step-finish"}
NotRetained == [rows |-> {}, reasons |-> FALSE, named |-> FALSE, anomalies |-> FALSE,
                clock |-> FALSE, open |-> TRUE]

\* rows the executor really recorded
Recorded ==
  {r \in Rows(calls) : /\ r[2] = "tool" => calls[r[1]].tool # "none"
                       /\ r[2] = "step-finish" => calls[r[1]].reason # NoReason}

-----------------------------------------------------------------------------
\* The decision

Own(rows, session) == {r \in rows : calls[r[1]].session = session}
Complete(rows, i) == {<<i, "step-start">>, <<i, "step-finish">>} \subseteq rows

\* a later call is enough, whatever ended the one with the tool
ContinuedByOrder(rows, i) ==
  /\ <<i, "tool">> \in rows /\ calls[i].tool = "completed"
  /\ \E j \in DOMAIN calls : j > i /\ Complete(rows, j)
\* the call of a completed tool ended so that the tool could run, and a later call is whole
ContinuedCall(rows, i) ==
  /\ <<i, "tool">> \in rows /\ calls[i].tool = "completed"
  /\ <<i, "step-finish">> \in rows /\ calls[i].reason = "tool-calls"
  /\ \E j \in DOMAIN calls : j > i /\ Complete(rows, j)

\* clock: as recorded, a call or a tool's end is dated out of that order
Continuation ==
  LET sessions == {calls[r[1]].session : r \in retained.rows}
      own == Own(retained.rows,
                 IF retained.named THEN "attempt" ELSE CHOOSE s \in sessions : TRUE)
      continued == {i \in DOMAIN calls : ContinuedCall(own, i)}
  IN IF \/ retained.anomalies
        \/ ~retained.named /\ Cardinality(sessions) # 1
        \/ own = {}
        \/ ~retained.reasons /\ \E r \in own : r[2] = "step-finish"
        \/ ~retained.clock
     THEN Undecided ELSE continued # {}

\* grade_tool_loop, for an artifact with its marker and a gate that can be read
Outcome ==
  LET scoped == IF retained.named THEN Own(retained.rows, "attempt") ELSE retained.rows
      finishes == {r \in scoped : r[2] = "step-finish"}
      completed == {r \in scoped : r[2] = "tool" /\ calls[r[1]].tool = "completed"}
      dropped == completed = {} /\ \A r \in finishes : ~calls[r[1]].tokens
  IN IF finishes = {} \/ dropped THEN "infrastructure-failure"
     ELSE IF Continuation = Undecided THEN "insufficient-evidence"
     ELSE IF Continuation THEN "pass" ELSE "protocol-failure"

-----------------------------------------------------------------------------
\* What the executor records, and what is retained of it

ContinuationInit == calls = <<>> /\ retained = NotRetained

StartCall ==
  \E s \in Sessions :
    /\ retained.open /\ Len(calls) < MaxCalls
    /\ calls' = Append(calls, [session |-> s, tool |-> "none", reason |-> NoReason, tokens |-> FALSE])
    /\ UNCHANGED retained

\* a tool that failed continues nothing, like none
ToolEnds ==
  \E i \in DOMAIN calls :
    /\ retained.open /\ calls[i].tool = "none" /\ calls[i].reason = NoReason
    /\ calls' = [calls EXCEPT ![i].tool = "completed"]
    /\ UNCHANGED retained

\* a stream that dropped is recorded with no tokens and no known reason; the executor may call
\* again after either end, and a killed call has none
FinishCall ==
  \E i \in DOMAIN calls, reason \in {"tool-calls", "stop", "unknown"} :
    /\ retained.open /\ calls[i].reason = NoReason
    /\ calls' = [calls EXCEPT ![i].reason = reason, ![i].tokens = reason # "unknown"]
    /\ UNCHANGED retained

\* no row in the retained evidence that the executor did not record; some may be missing, and
\* one thing about the rest may be wrong
RetainRows ==
  \E lost \in {l \in SUBSET Recorded : Cardinality(l) <= MaxLost}, named \in BOOLEAN,
     wrong \in {"nothing", "reasons", "anomalies", "clock"} :
    /\ retained.open
    /\ retained' = [rows |-> Recorded \ lost, named |-> named, reasons |-> wrong # "reasons",
                    anomalies |-> wrong = "anomalies", clock |-> wrong # "clock", open |-> FALSE]
    /\ UNCHANGED calls

ContinuationNext == StartCall \/ ToolEnds \/ FinishCall \/ RetainRows
ContinuationSpec == ContinuationInit /\ [][ContinuationNext]_continuationVars

-----------------------------------------------------------------------------
\* A tool loop passes only if one really ran: in one session, a call whose tool completed ended
\* in order to run tools and another whole call followed, whatever rows, reasons, dates or
\* sessions the retained evidence has.
PassedMeansContinued ==
  ~retained.open /\ Outcome = "pass" =>
    \E i, j \in DOMAIN calls :
      /\ i < j /\ calls[i].session = calls[j].session
      /\ retained.named => calls[i].session = "attempt"
      /\ calls[i].tool = "completed" /\ calls[i].reason = "tool-calls"
      /\ calls[j].reason # NoReason
=============================================================================
