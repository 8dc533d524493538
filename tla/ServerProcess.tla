---------------------------- MODULE ServerProcess ----------------------------
(***************************************************************************)
(* The server process (main.go), its requests, and the one connection to   *)
(* the database they share (store.Open, store.InTx).                       *)
(*                                                                         *)
(* The process opens the store, serves until a signal, drains for at most  *)
(* five seconds, closes the store and exits; it may be killed at any time. *)
(* Each request is a goroutine that reads its body and then runs a number  *)
(* of InTx transactions one after the other.  SetMaxOpenConns(1) makes a   *)
(* transaction hold the only connection from BEGIN to COMMIT or ROLLBACK.  *)
(*                                                                         *)
(* net/http, database/sql and SQLite are modelled from what main.go and    *)
(* store.go use of them: a cancelled request context rolls its transaction *)
(* back, a panic in a handler is recovered after InTx has rolled back,     *)
(* a closed DB refuses BEGIN but lets the transaction in progress end, and *)
(* a transaction open when the process ends never happened.                *)
(***************************************************************************)
EXTENDS Naturals, FiniteSets

CONSTANTS
  Requests,   \* client connections, each with one request at a time
  NoRequest,  \* nobody
  TxCounts,   \* numbers of transactions a handler may run, at least one
  Statements, \* statements Open executes: DDL, then the meta row
  MaxCrashes  \* bound on how often the process is killed or cannot listen

ASSUME RequestsAssumption == NoRequest \notin Requests /\ IsFiniteSet(Requests)
ASSUME CountsAssumption ==
  TxCounts \subseteq Nat \ {0} /\ Statements \in Nat \ {0} /\ MaxCrashes \in Nat

VARIABLES
  phase,     \* "down", "opening", "serving", "draining", "leaving", "closed"
  step,      \* the statement Open executes next
  applied,   \* statements whose effect is in the database file
  ended,     \* why the process last ended
  graceOver, \* the five seconds of Shutdown have run out
  crashes,
  conn,      \* the request that holds the connection
  at,        \* where each request is
  plan,      \* what each request asks for: [txs, lenient]; only the handler of
             \* POST .../close, of one transaction, is lenient about its body
  committed, \* transactions of the request that are in the database file
  told,      \* what its handler answers
  gone       \* requests whose client has gone away: their context is cancelled

process == <<phase, step, applied, ended, graceOver, crashes>>
requests == <<at, plan, committed, told, gone>>
vars == <<process, conn, requests>>

(* Shutdown waits for a connection from its first byte to its answer.      *)
InHandler == {"body", "begin", "tx", "respond"}
Active == {r \in Requests : at[r] \in InHandler \cup {"header"}}

Init ==
  /\ phase = "down" /\ step = 1 /\ applied = {} /\ ended = "never ran"
  /\ graceOver = FALSE /\ crashes = 0
  /\ conn = NoRequest
  /\ at = [r \in Requests |-> "idle"]
  /\ plan = [r \in Requests |-> [txs |-> 0, lenient |-> FALSE]]
  /\ committed = [r \in Requests |-> 0]
  /\ told = [r \in Requests |-> "nothing"]
  /\ gone = {}

-----------------------------------------------------------------------------
(* The process *)

Start ==
  /\ phase = "down"
  /\ phase' = "opening" /\ step' = 1 /\ ended' = "running" /\ graceOver' = FALSE
  /\ UNCHANGED <<applied, crashes, conn, requests>>

OpenOnce == \* faulty variant: CREATE TABLE without IF NOT EXISTS
  /\ phase = "opening" /\ step <= Statements
  /\ IF step \in applied
       THEN phase' = "down" /\ ended' = "open failed" /\ UNCHANGED <<step, applied>>
       ELSE applied' = applied \cup {step} /\ step' = step + 1 /\ UNCHANGED <<phase, ended>>
  /\ UNCHANGED <<graceOver, crashes, conn, requests>>

(* CREATE ... IF NOT EXISTS and INSERT OR IGNORE, each on its own: what an *)
(* earlier, interrupted Open has done is done.                             *)
OpenStatement ==
  /\ phase = "opening" /\ step <= Statements
  /\ applied' = applied \cup {step}
  /\ step' = step + 1
  /\ UNCHANGED <<phase, ended, graceOver, crashes, conn, requests>>

Listen ==
  /\ phase = "opening" /\ step > Statements
  /\ phase' = "serving"
  /\ UNCHANGED <<step, applied, ended, graceOver, crashes, conn, requests>>

(* log.Fatalf: deferred calls do not run.                                  *)
ListenFails ==
  /\ phase = "opening" /\ step > Statements /\ crashes < MaxCrashes
  /\ phase' = "down" /\ ended' = "cannot listen" /\ crashes' = crashes + 1
  /\ UNCHANGED <<step, applied, graceOver, conn, requests>>

(* SIGINT or SIGTERM: Shutdown closes the listener and idle connections.   *)
Signal ==
  /\ phase = "serving"
  /\ phase' = "draining"
  /\ UNCHANGED <<step, applied, ended, graceOver, crashes, conn, requests>>

CloseUnderWay == \* faulty variant: Shutdown is not waited for
  /\ phase = "draining"
  /\ phase' = "leaving"
  /\ UNCHANGED <<step, applied, ended, graceOver, crashes, conn, requests>>

Drained ==
  /\ phase = "draining" /\ Active = {}
  /\ phase' = "leaving"
  /\ UNCHANGED <<step, applied, ended, graceOver, crashes, conn, requests>>

GraceOverNever == FALSE /\ UNCHANGED vars \* faulty variant: Shutdown without a deadline

(* Shutdown gives up after five seconds, whoever is still in a handler.    *)
GraceOver ==
  /\ phase = "draining"
  /\ phase' = "leaving" /\ graceOver' = TRUE
  /\ UNCHANGED <<step, applied, ended, crashes, conn, requests>>

(* The deferred st.Close, under handlers that are still running.           *)
CloseStore ==
  /\ phase = "leaving"
  /\ phase' = "closed"
  /\ UNCHANGED <<step, applied, ended, graceOver, crashes, conn, requests>>

(* The process ends: handlers with it, and the transaction one may be in.  *)
End(reason) ==
  /\ phase' = "down" /\ ended' = reason
  /\ conn' = NoRequest
  /\ at' = [r \in Requests |-> IF r \in Active THEN "dropped" ELSE at[r]]
  /\ UNCHANGED <<step, applied, graceOver, plan, committed, told, gone>>

Exit == phase = "closed" /\ End("exited") /\ UNCHANGED crashes

Crash ==
  /\ phase # "down" /\ crashes < MaxCrashes
  /\ crashes' = crashes + 1
  /\ End("killed")

-----------------------------------------------------------------------------
(* A request, as far as the network is concerned *)

Up == phase \notin {"down", "opening"}
Move(r, from, to) == Up /\ at[r] = from /\ at' = [at EXCEPT ![r] = to]

Connect(r, txs, lenient) ==
  /\ phase = "serving"
  /\ at[r] \in {"idle", "answered", "dropped"}
  /\ lenient => txs = 1
  /\ at' = [at EXCEPT ![r] = "header"]
  /\ plan' = [plan EXCEPT ![r] = [txs |-> txs, lenient |-> lenient]]
  /\ committed' = [committed EXCEPT ![r] = 0]
  /\ told' = [told EXCEPT ![r] = "nothing"]
  /\ gone' = gone \ {r}
  /\ UNCHANGED <<process, conn>>

SendHeader(r) == Move(r, "header", "body") /\ UNCHANGED <<process, conn, plan, committed, told, gone>>

(* ReadHeaderTimeout, or a client that hangs up.  Nothing limits the time  *)
(* a body may take.                                                        *)
DropHeader(r) == Move(r, "header", "dropped") /\ UNCHANGED <<process, conn, plan, committed, told, gone>>

SendBody(r) == Move(r, "body", "begin") /\ UNCHANGED <<process, conn, plan, committed, told, gone>>

(* A body that breaks off is an error, except to the close handler, which  *)
(* ignores it and goes on with an extension of zero.                       *)
BreakBody(r) ==
  /\ Move(r, "body", IF plan[r].lenient THEN "begin" ELSE "respond")
  /\ told' = [told EXCEPT ![r] = IF plan[r].lenient THEN @ ELSE "error"]
  /\ UNCHANGED <<process, conn, plan, committed, gone>>

HangUp(r) ==
  /\ at[r] \in {"begin", "tx", "respond"}
  /\ gone' = gone \cup {r}
  /\ UNCHANGED <<process, conn, at, plan, committed, told>>

-----------------------------------------------------------------------------
(* A request, as far as the store is concerned: InTx *)

Fails(r, to) ==
  /\ at' = [at EXCEPT ![r] = to]
  /\ told' = [told EXCEPT ![r] = "error"]
  /\ UNCHANGED <<process, plan, committed, gone>>

(* BeginTx takes the connection, when it is free.                          *)
BeginTx(r) ==
  /\ Move(r, "begin", "tx")
  /\ conn = NoRequest /\ phase # "closed" /\ r \notin gone
  /\ conn' = r
  /\ UNCHANGED <<process, plan, committed, told, gone>>

BeginRefused(r) ==
  /\ at[r] = "begin"
  /\ phase = "closed" \/ r \in gone
  /\ Fails(r, "respond")
  /\ UNCHANGED conn

FnDoneOnStore(r) == at[r] = "tx" /\ conn = NoRequest \* faulty variant: fn reads through the Store

(* fn runs its queries on the transaction it was given, and so needs no    *)
(* other connection to come to its end.                                    *)
FnDone(r) == at[r] = "tx"

(* The next transaction of the handler, if it has one, begins anew.        *)
Commit(r) ==
  /\ FnDone(r) /\ r \notin gone
  /\ conn' = NoRequest
  /\ committed' = [committed EXCEPT ![r] = @ + 1]
  /\ at' = [at EXCEPT ![r] = IF committed[r] + 1 < plan[r].txs THEN "begin" ELSE "respond"]
  /\ told' = [told EXCEPT ![r] = IF committed[r] + 1 < plan[r].txs THEN @ ELSE "ok"]
  /\ UNCHANGED <<process, plan, gone>>

FnErrorCommits(r) == \* faulty variant: what fn wrote before its error is committed
  /\ FnDone(r)
  /\ conn' = NoRequest
  /\ committed' = [committed EXCEPT ![r] = @ + 1]
  /\ at' = [at EXCEPT ![r] = "respond"]
  /\ told' = [told EXCEPT ![r] = "error"]
  /\ UNCHANGED <<process, plan, gone>>

(* fn fails, is cancelled, or COMMIT is refused: rolled back.              *)
FnError(r) ==
  /\ FnDone(r)
  /\ conn' = NoRequest
  /\ Fails(r, "respond")

FnPanicKeeps(r) == \* faulty variant: no rollback when fn panics
  /\ FnDone(r)
  /\ Fails(r, "dropped")
  /\ UNCHANGED conn

(* Rolled back, then recovered by net/http, which hangs up.                *)
FnPanic(r) ==
  /\ FnDone(r)
  /\ conn' = NoRequest
  /\ Fails(r, "dropped")

Respond(r) ==
  /\ Move(r, "respond", IF r \in gone THEN "dropped" ELSE "answered")
  /\ UNCHANGED <<process, conn, plan, committed, told, gone>>

-----------------------------------------------------------------------------
Open == OpenStatement \/ Listen
Client(r) ==
  \/ \E txs \in TxCounts, lenient \in BOOLEAN : Connect(r, txs, lenient)
  \/ SendHeader(r) \/ SendBody(r) \/ BreakBody(r) \/ HangUp(r)
Handler(r) == BeginRefused(r) \/ Commit(r) \/ FnError(r) \/ FnPanic(r) \/ Respond(r)

Next ==
  \/ Start \/ Open \/ ListenFails \/ Signal
  \/ Drained \/ GraceOver \/ CloseStore \/ Exit \/ Crash
  \/ \E r \in Requests : Client(r) \/ DropHeader(r) \/ BeginTx(r) \/ Handler(r)

(* main and handlers keep running and timers fire: weak fairness.  A freed *)
(* connection goes to any of those waiting for it, at random: strong       *)
(* fairness.  Clients, signals, kills and whoever starts the process are   *)
(* under no obligation.                                                    *)
Fairness ==
  /\ WF_vars(Open) /\ WF_vars(Drained) /\ WF_vars(GraceOver)
  /\ WF_vars(CloseStore) /\ WF_vars(Exit)
  /\ \A r \in Requests :
       WF_vars(DropHeader(r)) /\ SF_vars(BeginTx(r)) /\ WF_vars(Handler(r))

Spec == Init /\ [][Next]_vars /\ Fairness

-----------------------------------------------------------------------------
(* Properties *)

(* The one connection is never lost: whoever holds it is running a         *)
(* transaction, never waiting for a client or for the connection itself,   *)
(* whichever way earlier transactions ended (error, panic, cancelled       *)
(* context, end of the process).                                           *)
ConnectionNotLost ==
  /\ conn \in Requests \cup {NoRequest}
  /\ \A r \in Requests : conn = r <=> at[r] = "tx"

(* An answer is the truth about the database file, also after crashes: ok  *)
(* means that every transaction of the request is in it, and a request of  *)
(* one transaction that was answered with an error has left nothing.       *)
AnswersAreTrue ==
  \A r \in Requests : at[r] = "answered" =>
    /\ told[r] = "ok" => committed[r] = plan[r].txs
    /\ told[r] = "error" /\ plan[r].txs = 1 => committed[r] = 0

(* The store is closed under a running request only when its client had    *)
(* five seconds to finish.                                                 *)
ClosedAfterGrace == phase = "closed" => graceOver \/ Active = {}

(* A request that has arrived ends: it is answered, or dropped with its    *)
(* process or its client, whoever competes for the connection.             *)
EveryRequestEnds ==
  \A r \in Requests : at[r] = "begin" ~> at[r] \in {"answered", "dropped"}

(* A signal ends the process, also when clients never finish their bodies. *)
StopsWhenTold == phase = "draining" ~> phase = "down"

(* Whatever an interrupted Open, or a kill at any other time, has left of  *)
(* the file, the next Open comes through unless it is killed as well.      *)
OpensUnlessKilled ==
  phase = "opening" ~> (phase = "serving" \/ ended \in {"killed", "cannot listen"})

=============================================================================
