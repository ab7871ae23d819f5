------------------------------ MODULE AuthClient ------------------------------
(***************************************************************************)
(* AuthClient shared by threads without a lock.  access_token_ and         *)
(* expires_at_ are written one after the other, so a step of another       *)
(* thread, or time, may come in between; one action is one access to one   *)
(* of them.  ConnectivityService lets one thread at a time authenticate;   *)
(* any holder may call clearToken() and isTokenValid() meanwhile.  The     *)
(* second writes nothing, so that it is enough to follow one call at a     *)
(* time: by a thread of its own, since any thread may be the one that asks. *)
(***************************************************************************)
EXTENDS Naturals

CONSTANTS
  Refresher,  \* the thread that calls authenticate() and refreshToken()
  Others,     \* the threads that call clearToken()
  Ttls,       \* the values of expires_in
  MaxGrants,  \* bound on the tokens granted
  MaxTime,    \* bound on the clock
  MaxDelay    \* longest time from an answer to the store of its expiry

ASSUME AuthAssumption ==
  /\ Refresher \notin Others /\ Ttls \subseteq Nat
  /\ MaxGrants \in Nat /\ MaxTime \in Nat /\ MaxDelay \in Nat

VARIABLES
  token,     \* access_token_: which grant it is of, 0 when empty
  expires,   \* expires_at_
  now,       \* steady_clock::now()
  pc,        \* where each thread is
  answer,    \* the latest grant: its number, when it came and expires_in
  ends,      \* history: when the token of each grant stops being good
  untouched, \* history: no clear or new request since a grant was stored
  ask,       \* where isTokenValid() is, and the token and the time it has read
  during     \* history: what has overlapped it; "clear", "store" (no clear), or
             \* "nothing" when the grant was untouched all the time

vars == <<token, expires, now, pc, answer, ends, untouched, ask, during>>

Threads == Others \cup {Refresher}
Init ==
  /\ token = 0 /\ expires = 0 /\ now = 0 /\ pc = [t \in Threads |-> "idle"]
  /\ answer = [grant |-> 0, at |-> 0, ttl |-> 0]
  /\ ends = [g \in 1..MaxGrants |-> 0] /\ untouched = FALSE
  /\ ask = [at |-> "out", token |-> 0, clock |-> 0] /\ during = "nothing"

Goto(t, from, to) == pc[t] = from /\ pc' = [pc EXCEPT ![t] = to]

(* authenticate(); refreshToken() is the same.  Without a backend it       *)
(* returns false and touches nothing.                                      *)
Authenticate ==
  /\ Goto(Refresher, "idle", "asking") /\ untouched' = FALSE
  /\ during' = IF during = "nothing" THEN "store" ELSE during
  /\ UNCHANGED <<token, expires, now, answer, ends, ask>>

Granted ==
  /\ Goto(Refresher, "asking", "granted") /\ answer.grant < MaxGrants
  /\ \E ttl \in Ttls :
       /\ answer' = [grant |-> answer.grant + 1, at |-> now, ttl |-> ttl]
       /\ ends' = [ends EXCEPT ![answer'.grant] = now + ttl]
  /\ UNCHANGED <<token, expires, now, untouched, ask, during>>

WriteToken(from, to) ==
  /\ Goto(Refresher, from, to) /\ token' = answer.grant
  /\ UNCHANGED <<expires, now, answer, ends, untouched, ask, during>>

WriteExpiry(from, to) ==
  /\ Goto(Refresher, from, to) /\ expires' = now + answer.ttl
  /\ untouched' = (token = answer.grant /\ \A t \in Others : pc[t] = "idle")
  /\ UNCHANGED <<token, now, answer, ends, ask, during>>

StoreGrant_ExpiryFirst == WriteExpiry("granted", "stamp") \/ WriteToken("stamp", "idle")

StoreGrant_TokenOnly ==
  /\ Goto(Refresher, "granted", "idle") /\ token' = answer.grant
  /\ untouched' = \A t \in Others : pc[t] = "idle"
  /\ UNCHANGED <<expires, now, answer, ends, ask, during>>

(* authenticate() returns true after the second store.                     *)
StoreGrant == WriteToken("granted", "stamp") \/ WriteExpiry("stamp", "idle")

(* A denial and clearToken(): empty the token, then let it expire now.     *)
Clear(t, from) ==
  /\ Goto(t, from, "unstamp") /\ token' = 0
  /\ untouched' = FALSE /\ during' = "clear"
  /\ UNCHANGED <<expires, now, answer, ends, ask>>

Denied == Clear(Refresher, "asking")
clearToken(t) == Clear(t, "idle")

ExpireNow(t) ==
  /\ Goto(t, "unstamp", "idle") /\ expires' = now
  /\ UNCHANGED <<token, now, answer, ends, untouched, ask, during>>

-----------------------------------------------------------------------------
(* isTokenValid(): access_token_.empty(), then steady_clock::now(), then   *)
(* expires_at_, which operator< takes by reference.                        *)
ReadToken ==
  /\ ask.at \in {"out", "true", "false"}
  /\ ask' = [at |-> IF token = 0 THEN "false" ELSE "clock", token |-> token, clock |-> 0]
  /\ during' = IF \E t \in Threads : pc[t] = "unstamp" THEN "clear"
               ELSE IF untouched THEN "nothing" ELSE "store"
  /\ UNCHANGED <<token, expires, now, pc, answer, ends, untouched>>

ReadClock ==
  /\ ask.at = "clock" /\ ask' = [ask EXCEPT !.at = "expiry", !.clock = now]
  /\ UNCHANGED <<token, expires, now, pc, answer, ends, untouched, during>>

ReadExpiry ==
  /\ ask.at = "expiry"
  /\ ask' = [ask EXCEPT !.at = IF ask.clock < expires THEN "true" ELSE "false"]
  /\ UNCHANGED <<token, expires, now, pc, answer, ends, untouched, during>>

isTokenValid == ReadToken \/ ReadClock \/ ReadExpiry

-----------------------------------------------------------------------------
(* Time passes, but the thread that holds an answer is not suspended for   *)
(* longer than MaxDelay.                                                   *)
Tick ==
  /\ now < MaxTime /\ now' = now + 1
  /\ pc[Refresher] \in {"granted", "stamp"} => now < answer.at + MaxDelay
  /\ UNCHANGED <<token, expires, pc, answer, ends, untouched, ask, during>>

Next ==
  \/ Authenticate \/ Granted \/ Denied \/ StoreGrant
  \/ \E t \in Others : clearToken(t)
  \/ \E t \in Threads : ExpireNow(t)
  \/ isTokenValid \/ Tick

Spec == Init /\ [][Next]_vars

-----------------------------------------------------------------------------
(* Properties.                                                             *)

(* The variables keep their types; the token is of a grant that was made,   *)
(* and so is the one that isTokenValid() goes by.                          *)
TypeOK ==
  /\ token \in 0..answer.grant /\ answer.grant \in 0..MaxGrants
  /\ expires \in Nat /\ now \in 0..MaxTime /\ untouched \in BOOLEAN
  /\ pc \in [Threads -> {"idle", "asking", "granted", "stamp", "unstamp"}]
  /\ answer.at \in 0..MaxTime /\ answer.ttl \in Ttls \cup {0}
  /\ ends \in [1..MaxGrants -> Nat] /\ during \in {"clear", "store", "nothing"}
  /\ ask \in [at : {"out", "clock", "expiry", "true", "false"},
              token : 0..answer.grant, clock : 0..now]

(* isTokenValid() = true, with no clear in the call or halfway at its start: *)
(* the token it saw, or one stored since, was within its own grant when the *)
(* clock was read, up to the delay in storing it; between the two stores of *)
(* a refresh too.  With a clear in the call it may be of no token at all.   *)
ValidWithinGrant ==
  ask.at = "true" /\ during # "clear" =>
    \E g \in ask.token..token : g # 0 /\ ask.clock <= ends[g] + MaxDelay

(* After authenticate() = true every isTokenValid() answers true for as long *)
(* as the token was granted, unless someone clears it or asks for another.  *)
GrantSticks == ask.at = "false" /\ during = "nothing" => ask.clock >= ends[ask.token]
=============================================================================
