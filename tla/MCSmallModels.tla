----------------------------- MODULE MCSmallModels -----------------------------
(* AuthClient, AuthSession, Logger and LifecycleRaces for TLC.  They share  *)
(* nothing, so a behaviour is of one of them, chosen at the start.         *)
EXTENDS AuthClient, Integers

CONSTANTS Tokens, Retries, MaxLines, NoThread

ASSUME SmallModelsAssumption == Retries \subseteq Int /\ NoThread \notin Threads

VARIABLES
  subject,
  sessionToken, authenticated, stage, input, asked, naps,
  mutex, at, line, console, file, unopened,
  state, running, callPc, worker, threw, order

Session == INSTANCE AuthSession WITH token <- sessionToken
Log == INSTANCE Logger WITH Threads <- Threads
Races == INSTANCE LifecycleRaces WITH Threads <- Threads, pc <- callPc

sessionVars == <<sessionToken, authenticated, stage, input, asked, naps>>
logVars == <<mutex, at, line, console, file, unopened>>
raceVars == <<state, running, callPc, worker, threw, order>>

MCInit ==
  /\ subject \in {"client", "session", "log", "races"}
  /\ Init /\ Session!Init /\ Log!Init /\ Races!Init

MCNext ==
  /\ UNCHANGED subject
  /\ \/ subject = "client" /\ Next /\ UNCHANGED <<sessionVars, logVars, raceVars>>
     \/ subject = "session" /\ Session!Next /\ UNCHANGED <<vars, logVars, raceVars>>
     \/ subject = "log" /\ Log!Next /\ UNCHANGED <<vars, sessionVars, raceVars>>
     \/ subject = "races" /\ Races!Next /\ UNCHANGED <<vars, sessionVars, logVars>>

MCSpec == MCInit /\ [][MCNext]_<<subject, vars, sessionVars, logVars, raceVars>>

Backoff == {-1, 0, 1, 3}

(* The type invariants of the models that have one.                        *)
TypesOK == TypeOK /\ Races!TypeOK

(* The properties of the instances, by the names they have there.          *)
SessionOutcome == Session!OutcomeIsReference
FileFollowsConsole == Log!FileFollowsConsole
WorkerIsExclusive == Races!WorkerIsExclusive
SettledIsTrue == Races!SettledIsTrue
=============================================================================
