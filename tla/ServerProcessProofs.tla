------------------------- MODULE ServerProcessProofs -------------------------
(* Proofs about ServerProcess, for every number of clients, transactions,  *)
(* statements and crashes.                                                 *)
EXTENDS ServerProcess, TLAPS

Places == {"idle", "header", "body", "begin", "tx", "respond", "answered", "dropped"}

Types ==
  /\ at \in [Requests -> Places]
  /\ plan \in [Requests -> [txs: Nat, lenient: BOOLEAN]]
  /\ committed \in [Requests -> Nat]
  /\ told \in [Requests -> {"nothing", "ok", "error"}]

-----------------------------------------------------------------------------
(* Types *)

LEMMA InitTypes == Init => Types
<1> SUFFICES ASSUME Init PROVE Types
  OBVIOUS
<1>1. [txs |-> 0, lenient |-> FALSE] \in [txs: Nat, lenient: BOOLEAN]
  OBVIOUS
<1>2. plan \in [Requests -> [txs: Nat, lenient: BOOLEAN]]
  BY <1>1 DEF Init
<1>3. at \in [Requests -> Places]
  BY DEF Init, Places
<1>4. committed \in [Requests -> Nat] /\ told \in [Requests -> {"nothing", "ok", "error"}]
  BY DEF Init
<1> QED
  BY <1>2, <1>3, <1>4 DEF Types

LEMMA StepTypes ==
  ASSUME Types, [Next]_vars
  PROVE  Types'
<1>1. CASE UNCHANGED requests
  BY <1>1 DEF requests, Types
<1>2. ASSUME NEW r \in Requests, NEW txs \in TxCounts, NEW lenient \in BOOLEAN,
             Connect(r, txs, lenient)
      PROVE  Types'
  <2>1. txs \in Nat
    BY CountsAssumption
  <2> QED
    BY <1>2, <2>1 DEF Connect, Types, Places
<1>3. ASSUME NEW reason, End(reason) PROVE Types'
  BY <1>3 DEF End, Types, Places
<1>4. ASSUME NEW r \in Requests,
             SendHeader(r) \/ SendBody(r) \/ BreakBody(r) \/ DropHeader(r) \/ HangUp(r)
      PROVE  Types'
  BY <1>4 DEF SendHeader, SendBody, BreakBody, DropHeader, HangUp, Move, Types, Places
<1>5. ASSUME NEW r \in Requests,
             BeginTx(r) \/ BeginRefused(r) \/ FnError(r) \/ FnPanic(r) \/ Respond(r)
      PROVE  Types'
  BY <1>5 DEF BeginTx, BeginRefused, FnError, FnPanic, Respond, Fails, Move, Types, Places
<1>6. ASSUME NEW r \in Requests, Commit(r) PROVE Types'
  BY <1>6 DEF Commit, Types, Places
<1>7. CASE Start \/ Open \/ ListenFails \/ Signal \/ Drained \/ GraceOver \/ CloseStore
  BY <1>1, <1>7 DEF Start, Open, OpenStatement, Listen, ListenFails, Signal, Drained,
                    GraceOver, CloseStore
<1>8. CASE Exit \/ Crash
  BY <1>3, <1>8 DEF Exit, Crash
<1> QED
  BY <1>1, <1>2, <1>4, <1>5, <1>6, <1>7, <1>8 DEF Next, Client, Handler, vars

(* Every request is at one of the stages a handler and its client go       *)
(* through (main.go, store.InTx), and its tally is a number.               *)
THEOREM TypesCorrect == Spec => []Types
<1> QED
  BY InitTypes, StepTypes, PTL DEF Spec

-----------------------------------------------------------------------------
(* The connection *)

LEMMA StepConnection ==
  ASSUME Types, ConnectionNotLost, [Next]_vars
  PROVE  ConnectionNotLost'
<1>1. CASE UNCHANGED <<conn, at>>
  BY <1>1 DEF ConnectionNotLost
<1>2. ASSUME NEW reason, End(reason) PROVE ConnectionNotLost'
  BY <1>2, RequestsAssumption DEF End, Active, InHandler, ConnectionNotLost, Types
<1>3. ASSUME NEW r \in Requests, NEW from, NEW to,
             Move(r, from, to), from # "tx", to # "tx", conn' = conn
      PROVE  ConnectionNotLost'
  BY <1>3 DEF Move, ConnectionNotLost, Types
<1>4. ASSUME NEW r \in Requests, NEW txs, NEW lenient, Connect(r, txs, lenient)
      PROVE  ConnectionNotLost'
  BY <1>4 DEF Connect, ConnectionNotLost, Types
<1>5. ASSUME NEW r \in Requests, SendHeader(r) \/ SendBody(r) \/ BreakBody(r) \/ DropHeader(r)
      PROVE  ConnectionNotLost'
  BY <1>3, <1>5 DEF SendHeader, SendBody, BreakBody, DropHeader
<1>6. ASSUME NEW r \in Requests, Respond(r) \/ BeginRefused(r)
      PROVE  ConnectionNotLost'
  BY <1>6 DEF Respond, BeginRefused, Fails, Move, ConnectionNotLost, Types
(* A request takes the connection when nobody holds it, and whoever ends a *)
(* transaction, in whatever way, held it and returns it.                   *)
<1>7. ASSUME NEW r \in Requests, BeginTx(r) PROVE ConnectionNotLost'
  BY <1>7, RequestsAssumption DEF BeginTx, Move, ConnectionNotLost, Types
<1>8. ASSUME NEW r \in Requests, Commit(r) \/ FnError(r) \/ FnPanic(r)
      PROVE  ConnectionNotLost'
  BY <1>8, RequestsAssumption
     DEF Commit, FnError, FnPanic, FnDone, Fails, ConnectionNotLost, Types
<1>9. CASE Start \/ Open \/ ListenFails \/ Signal \/ Drained \/ GraceOver \/ CloseStore
  BY <1>1, <1>9 DEF Start, Open, OpenStatement, Listen, ListenFails, Signal, Drained,
                    GraceOver, CloseStore, requests
<1>10. ASSUME NEW r \in Requests, HangUp(r) PROVE ConnectionNotLost'
  BY <1>1, <1>10 DEF HangUp
<1>11. CASE Exit \/ Crash
  BY <1>2, <1>11 DEF Exit, Crash
<1>12. CASE UNCHANGED vars
  BY <1>1, <1>12 DEF vars, requests
<1>13. ASSUME NEW r \in Requests, Client(r) \/ DropHeader(r) \/ BeginTx(r) \/ Handler(r)
       PROVE  ConnectionNotLost'
  BY <1>4, <1>5, <1>6, <1>7, <1>8, <1>10, <1>13 DEF Client, Handler
<1> QED
  BY <1>9, <1>11, <1>12, <1>13 DEF Next

(* The connection is never lost (SetMaxOpenConns(1) and InTx): in every    *)
(* reachable state, whoever holds it is in a transaction, and only they.   *)
THEOREM ConnectionKept == Spec => []ConnectionNotLost
<1>1. ASSUME Init PROVE ConnectionNotLost
  <2>1. conn = NoRequest /\ at = [r \in Requests |-> "idle"]
    BY <1>1 DEF Init
  <2> QED
    BY <2>1, RequestsAssumption DEF ConnectionNotLost
<1> QED
  BY <1>1, StepConnection, TypesCorrect, PTL DEF Spec

-----------------------------------------------------------------------------
(* Answers *)

(* What has happened of a request up to the place where it is: until its   *)
(* handler begins, nothing; while it runs transactions, some but not all   *)
(* of them; from then on, what it says.  AnswersAreTrue is the last part,  *)
(* which is not inductive by itself.                                       *)
Honest(r) ==
  /\ at[r] \in {"header", "body"} =>
       told[r] = "nothing" /\ committed[r] = 0 /\ plan[r].txs > 0
  /\ at[r] \in {"begin", "tx"} => told[r] = "nothing" /\ committed[r] < plan[r].txs
  /\ at[r] \in {"respond", "answered"} =>
       /\ told[r] = "ok" => committed[r] = plan[r].txs
       /\ told[r] = "error" /\ plan[r].txs = 1 => committed[r] = 0

LEMMA StepHonest ==
  ASSUME Types, [Next]_vars, NEW q \in Requests, Honest(q)
  PROVE  Honest(q)'
<1>1. CASE UNCHANGED <<at[q], plan[q], committed[q], told[q]>>
  BY <1>1 DEF Honest
<1>2. CASE UNCHANGED vars
  BY <1>2 DEF vars, requests, Honest
<1>3. ASSUME NEW reason, End(reason) PROVE Honest(q)'
  BY <1>3 DEF End, Honest, Types
<1>4. ASSUME NEW txs \in TxCounts, NEW lenient \in BOOLEAN, Connect(q, txs, lenient)
      PROVE  Honest(q)'
  <2>1. txs \in Nat /\ txs > 0
    BY CountsAssumption
  <2> QED
    BY <1>4, <2>1 DEF Connect, Honest, Types
<1>5. CASE SendHeader(q) \/ SendBody(q) \/ BreakBody(q) \/ DropHeader(q) \/ HangUp(q)
  BY <1>5 DEF SendHeader, SendBody, BreakBody, DropHeader, HangUp, Move, Honest, Types
<1>6. CASE BeginTx(q) \/ BeginRefused(q) \/ Respond(q)
  BY <1>6 DEF BeginTx, BeginRefused, Respond, Fails, Move, Honest, Types
<1>7. CASE FnError(q) \/ FnPanic(q)
  BY <1>7 DEF FnError, FnPanic, FnDone, Fails, Honest, Types
<1>8. CASE Commit(q)
  BY <1>8 DEF Commit, FnDone, Honest, Types
<1>9. ASSUME NEW r \in Requests \ {q},
             \/ \E txs \in TxCounts, lenient \in BOOLEAN : Connect(r, txs, lenient)
             \/ SendHeader(r) \/ SendBody(r) \/ BreakBody(r) \/ DropHeader(r) \/ HangUp(r)
             \/ BeginTx(r) \/ BeginRefused(r) \/ Respond(r)
             \/ FnError(r) \/ FnPanic(r) \/ Commit(r)
      PROVE  Honest(q)'
  <2>1. UNCHANGED <<at[q], plan[q], committed[q], told[q]>>
    BY <1>9 DEF Connect, SendHeader, SendBody, BreakBody, DropHeader, HangUp, BeginTx,
                BeginRefused, Respond, FnError, FnPanic, Commit, Fails, Move, Types
  <2> QED
    BY <1>1, <2>1
<1>10. CASE Start \/ Open \/ ListenFails \/ Signal \/ Drained \/ GraceOver \/ CloseStore
  BY <1>1, <1>10 DEF Start, Open, OpenStatement, Listen, ListenFails, Signal, Drained,
                     GraceOver, CloseStore, requests
<1>11. CASE Exit \/ Crash
  BY <1>3, <1>11 DEF Exit, Crash
<1> QED
  BY <1>2, <1>4, <1>5, <1>6, <1>7, <1>8, <1>9, <1>10, <1>11 DEF Next, Client, Handler

(* Answers agree with the database file (InTx commits or rolls back before *)
(* the handler answers), whatever crashes, cancels or competes.            *)
THEOREM AnswersTrue == Spec => []AnswersAreTrue
<1> DEFINE IInv == \A q \in Requests : Honest(q)
<1>1. Init => IInv
  BY DEF Init, Honest
<1>2. Types /\ IInv /\ [Next]_vars => IInv'
  BY StepHonest
<1>3. IInv => AnswersAreTrue
  BY DEF Honest, AnswersAreTrue
<1> HIDE DEF IInv
<1> QED
  BY <1>1, <1>2, <1>3, TypesCorrect, PTL DEF Spec

-----------------------------------------------------------------------------
(* Closing the store *)

(* Requests connect while the process serves; afterwards Active shrinks.   *)
LEMMA ActiveShrinks ==
  ASSUME Types, [Next]_vars, phase # "serving"
  PROVE  Active' \subseteq Active
<1>1. CASE UNCHANGED at
  BY <1>1 DEF Active, InHandler
<1>2. ASSUME NEW reason, End(reason) PROVE Active' \subseteq Active
  BY <1>2 DEF End, Active, InHandler, Types
<1>3. ASSUME NEW r \in Requests, SendHeader(r) \/ SendBody(r) \/ BreakBody(r) \/ DropHeader(r)
      PROVE  Active' \subseteq Active
  BY <1>3 DEF SendHeader, SendBody, BreakBody, DropHeader, Move, Active, InHandler, Types
<1>4. ASSUME NEW r \in Requests,
             \/ BeginTx(r) \/ BeginRefused(r) \/ Respond(r)
             \/ FnError(r) \/ FnPanic(r) \/ Commit(r)
      PROVE  Active' \subseteq Active
  BY <1>4 DEF BeginTx, BeginRefused, Respond, FnError, FnPanic, Commit, FnDone, Fails, Move,
              Active, InHandler, Types
<1>5. CASE Start \/ Open \/ ListenFails \/ Signal \/ Drained \/ GraceOver \/ CloseStore
  BY <1>1, <1>5 DEF Start, Open, OpenStatement, Listen, ListenFails, Signal, Drained,
                    GraceOver, CloseStore, requests
<1>6. CASE Exit \/ Crash
  BY <1>2, <1>6 DEF Exit, Crash
<1>7. CASE UNCHANGED vars
  BY <1>1, <1>7 DEF vars, requests
<1>8. \A r \in Requests, txs \in TxCounts, lenient \in BOOLEAN : ~Connect(r, txs, lenient)
  BY DEF Connect
<1>9. ASSUME NEW r \in Requests, HangUp(r) PROVE Active' \subseteq Active
  BY <1>1, <1>9 DEF HangUp
<1> QED
  BY <1>3, <1>4, <1>5, <1>6, <1>7, <1>8, <1>9 DEF Next, Client, Handler

(* ClosedAfterGrace holds from the moment Shutdown returns.                *)
LeavesAfterGrace == phase \in {"leaving", "closed"} => graceOver \/ Active = {}

LEMMA StepLeaves ==
  ASSUME Types, LeavesAfterGrace, [Next]_vars
  PROVE  LeavesAfterGrace'
<1> SUFFICES ASSUME phase' \in {"leaving", "closed"}, ~graceOver' PROVE Active' = {}
  BY DEF LeavesAfterGrace
<1>1. CASE Drained
  BY <1>1 DEF Drained, requests, Active, InHandler
<1>2. CASE phase \in {"leaving", "closed"} /\ graceOver' = graceOver
  <2>1. Active = {} /\ phase # "serving"
    BY <1>2 DEF LeavesAfterGrace
  <2> QED
    BY <2>1, ActiveShrinks
<1>3. CASE CloseStore \/ UNCHANGED process
  BY <1>2, <1>3 DEF CloseStore, process
<1>4. ~ (Start \/ Open \/ ListenFails \/ Signal \/ GraceOver \/ Exit \/ Crash)
  BY DEF Start, Open, OpenStatement, Listen, ListenFails, Signal, GraceOver, Exit, Crash, End
<1>5. ASSUME NEW r \in Requests, Client(r) \/ DropHeader(r) \/ BeginTx(r) \/ Handler(r)
      PROVE  UNCHANGED process
  BY <1>5 DEF Client, Handler, Connect, SendHeader, SendBody, BreakBody, DropHeader, HangUp,
              BeginTx, BeginRefused, Respond, FnError, FnPanic, Commit, Fails
<1> QED
  BY <1>1, <1>3, <1>4, <1>5 DEF Next, vars

(* The store is closed under a running request only after Shutdown's five  *)
(* seconds (main.go: the deferred Close runs when Shutdown has returned).  *)
THEOREM ClosesAfterGrace == Spec => []ClosedAfterGrace
<1>1. Init => LeavesAfterGrace
  BY DEF Init, LeavesAfterGrace
<1>2. LeavesAfterGrace => ClosedAfterGrace
  BY DEF LeavesAfterGrace, ClosedAfterGrace
<1> QED
  BY <1>1, <1>2, StepLeaves, TypesCorrect, PTL DEF Spec

=============================================================================
