--------------------------- MODULE SmallModelsProofs ---------------------------
(***************************************************************************)
(* The safety properties of AuthClient, AuthSession and Logger hold for    *)
(* every set of threads, of lifetimes and of retry limits; those that      *)
(* LifecycleRacesProofs has of LifecycleRaces are at the end.              *)
(***************************************************************************)
EXTENDS MCSmallModels, Sequences, TLAPS

USE AuthAssumption DEF AuthAssumption

-----------------------------------------------------------------------------
(* AuthClient.  Between the two stores of a grant access_token_ is new and *)
(* expires_at_ is old; what bounds isTokenValid() there is that the grant  *)
(* was answered no longer than MaxDelay ago (Held).  At any other time the *)
(* expiry that is stored is the token's own, or has passed (Paired).       *)

(* A grant is good from its answer on, for its expires_in.                 *)
GrantKnown ==
  answer.at <= now /\ (answer.grant # 0 => ends[answer.grant] = answer.at + answer.ttl)

Held ==
  pc[Refresher] \in {"granted", "stamp"} =>
    answer.grant # 0 /\ now <= answer.at + MaxDelay

(* Whose token is stored: none, or that of the latest grant stored.        *)
Latest ==
  /\ pc[Refresher] = "granted" => token \in {0, answer.grant - 1}
  /\ pc[Refresher] # "granted" => token \in {0, answer.grant}
  /\ pc[Refresher] = "unstamp" => token = 0

Paired ==
  pc[Refresher] # "stamp" /\ token # 0 =>
    expires <= ends[token] + MaxDelay \/ expires <= now

Sticks ==
  untouched =>
    /\ token # 0 /\ token = answer.grant /\ expires >= ends[token]
    /\ \A t \in Threads : pc[t] = "idle"

ClientTypes ==
  /\ token \in 0..MaxGrants /\ expires \in Nat /\ now \in 0..MaxTime /\ untouched \in BOOLEAN
  /\ pc \in [Threads -> {"idle", "asking", "granted", "stamp", "unstamp"}]
  /\ answer \in [grant : 0..MaxGrants, at : 0..MaxTime, ttl : Ttls \cup {0}]
  /\ ends \in [1..MaxGrants -> Nat]

ClientIInv == ClientTypes /\ GrantKnown /\ Held /\ Latest /\ Paired /\ Sticks

(* The client starts in the invariant.                                     *)
LEMMA ClientInit == Init => ClientIInv
<1> SUFFICES ASSUME Init PROVE ClientIInv
  OBVIOUS
<1>1. untouched \in BOOLEAN
  BY DEF Init
<1>2. ClientTypes
  BY <1>1 DEF Init, ClientTypes, Threads
<1>3. GrantKnown /\ Held /\ Latest /\ Paired /\ Sticks
  BY DEF Init, GrantKnown, Held, Latest, Paired, Sticks, Threads
<1>. QED BY <1>2, <1>3 DEF ClientIInv

(* What the types say of the numbers that the proofs compare.              *)
LEMMA Numbers ==
  ASSUME ClientTypes
  PROVE  /\ token \in Nat /\ now \in Nat /\ expires \in Nat
         /\ answer.grant \in Nat /\ answer.at \in Nat /\ answer.ttl \in Nat
         /\ answer.grant # 0 => ends[answer.grant] \in Nat
         /\ token # 0 => ends[token] \in Nat
<1>1. answer.ttl \in Ttls \cup {0}
  BY DEF ClientTypes
<1>2. \A n \in Ttls \cup {0} : n \in Nat
  OBVIOUS
<1>3. answer.ttl \in Nat
  BY <1>1, <1>2
<1>. QED BY <1>3 DEF ClientTypes

(* authenticate() asks, and stores what it is granted.                     *)
LEMMA RefresherPreserves ==
  ASSUME ClientIInv, Authenticate \/ Granted \/ StoreGrant \/ Denied PROVE ClientIInv'
<1> USE DEF ClientIInv, ClientTypes, GrantKnown, Held, Latest, Paired, Sticks, Threads, Goto
<1>1. CASE Authenticate
  <2>1. ClientTypes'
    BY <1>1 DEF Authenticate
  <2>. QED BY <1>1, <2>1 DEF Authenticate
<1>2. CASE Granted
  <2>1. ClientTypes'
    BY <1>2 DEF Granted
  <2>. QED BY <1>2, <2>1 DEF Granted
<1>3. CASE WriteToken("granted", "stamp")
  BY <1>3 DEF WriteToken
<1>4. CASE WriteExpiry("stamp", "idle")
  <2>1. ClientTypes'
    <3>1. untouched' \in BOOLEAN
      BY <1>4 DEF WriteExpiry
    <3>2. expires' \in Nat
      BY <1>4, Numbers DEF WriteExpiry
    <3>. QED BY <1>4, <3>1, <3>2 DEF WriteExpiry
  <2>2. answer.grant # 0 /\ expires' >= ends[answer.grant]
        /\ expires' <= ends[answer.grant] + MaxDelay
    BY <1>4, Numbers DEF WriteExpiry
  <2>3. token \in {0, answer.grant} /\ pc'[Refresher] = "idle"
    BY <1>4 DEF WriteExpiry
  <2>4. GrantKnown' /\ Held' /\ Latest' /\ Paired'
    BY <1>4, <2>2, <2>3 DEF WriteExpiry
  <2>5. Sticks'
    BY <1>4, <2>2, <2>3 DEF WriteExpiry
  <2>. QED BY <2>1, <2>4, <2>5
<1>5. CASE Denied
  <2>1. ClientTypes'
    <3>1. untouched' \in BOOLEAN
      BY <1>5 DEF Denied, Clear
    <3>. QED BY <1>5, <3>1 DEF Denied, Clear
  <2>2. GrantKnown' /\ Held' /\ Latest' /\ Paired' /\ Sticks'
    BY <1>5 DEF Denied, Clear
  <2>. QED BY <2>1, <2>2
<1>. QED BY <1>1, <1>2, <1>3, <1>4, <1>5 DEF StoreGrant

(* Another thread clears the token, and time passes.                       *)
LEMMA OthersPreserve ==
  ASSUME ClientIInv,
         (\E t \in Others : clearToken(t)) \/ (\E t \in Threads : ExpireNow(t)) \/ Tick
  PROVE  ClientIInv'
<1> USE DEF ClientIInv, ClientTypes, GrantKnown, Held, Latest, Paired, Sticks, Threads, Goto
<1>1. ASSUME NEW t \in Others, clearToken(t) PROVE ClientIInv'
  <2>1. ClientTypes'
    <3>1. untouched' \in BOOLEAN
      BY <1>1 DEF clearToken, Clear
    <3>. QED BY <1>1, <3>1 DEF clearToken, Clear
  <2>2. GrantKnown' /\ Held' /\ Latest' /\ Paired' /\ Sticks'
    BY <1>1 DEF clearToken, Clear
  <2>. QED BY <2>1, <2>2
<1>2. ASSUME NEW t \in Threads, ExpireNow(t) PROVE ClientIInv'
  BY <1>2 DEF ExpireNow
<1>3. CASE Tick
  BY <1>3 DEF Tick
<1>. QED BY <1>1, <1>2, <1>3

(* ClientIInv is an invariant of AuthClient: isTokenValid() reads only.    *)
THEOREM ClientInvariantHolds == Spec => []ClientIInv
<1>1. ClientIInv /\ (UNCHANGED vars \/ isTokenValid) => ClientIInv'
  <2>1. UNCHANGED vars \/ isTokenValid
          => UNCHANGED <<token, expires, now, pc, answer, ends, untouched>>
    BY DEF vars, isTokenValid, ReadToken, ReadClock, ReadExpiry
  <2>. QED BY <2>1 DEF ClientIInv, ClientTypes, GrantKnown, Held, Latest, Paired, Sticks
<1>2. ClientIInv /\ [Next]_vars => ClientIInv'
  BY <1>1, RefresherPreserves, OthersPreserve DEF Next
<1>. QED BY ClientInit, <1>2, PTL DEF Spec

(* isTokenValid() reads the token, the clock and the expiry one by one.    *)
(* While nobody clears, the token can only be replaced by a later one, and *)
(* an expiry that is of neither had passed when the clock was read.        *)
AskTypes ==
  /\ ask \in [at : {"out", "clock", "expiry", "true", "false"},
              token : 0..MaxGrants, clock : 0..MaxTime]
  /\ ask.token <= answer.grant /\ ask.clock <= now /\ during \in {"clear", "store", "nothing"}

NotCleared ==
  during # "clear" /\ ask.at \in {"clock", "expiry", "true"} =>
    ask.token # 0 /\ ask.token <= token /\ \A t \in Threads : pc[t] # "unstamp"

Dated ==
  during # "clear" /\ ask.at \in {"clock", "expiry"} /\ pc[Refresher] # "stamp" =>
    \/ expires <= ends[token] + MaxDelay
    \/ expires <= IF ask.at = "clock" THEN now ELSE ask.clock

Steady == ask.at # "out" /\ during = "nothing" => untouched /\ token = ask.token

AskIInv == AskTypes /\ NotCleared /\ Dated /\ Steady /\ ValidWithinGrant /\ GrantSticks

(* The client starts with no call under way.                               *)
LEMMA AskInit == Init => AskIInv
<1> SUFFICES ASSUME Init PROVE AskIInv
  OBVIOUS
<1>1. ask = [at |-> "out", token |-> 0, clock |-> 0] /\ during = "nothing"
      /\ answer.grant = 0 /\ now = 0
  BY DEF Init
<1>. QED BY <1>1 DEF AskIInv, AskTypes, NotCleared, Dated, Steady, ValidWithinGrant, GrantSticks

(* The call itself: what it has read bounds what it answers.               *)
LEMMA ReaderPreserves == ASSUME ClientIInv, AskIInv, isTokenValid PROVE AskIInv'
<1> USE Numbers DEF ClientIInv, AskIInv, AskTypes
<1>1. CASE ReadToken
  <2>1. AskTypes' /\ NotCleared' /\ Steady'
    BY <1>1 DEF ReadToken, NotCleared, Steady, ClientTypes, Latest, Sticks
  <2>2. Dated'
    BY <1>1 DEF ReadToken, Dated, Paired
  <2>3. ValidWithinGrant' /\ GrantSticks'
    BY <1>1 DEF ReadToken, ValidWithinGrant, GrantSticks, Sticks
  <2>. QED BY <2>1, <2>2, <2>3
<1>2. CASE ReadClock
  <2>1. /\ ask'.at = "expiry" /\ ask'.token = ask.token /\ ask'.clock = now /\ ask.at = "clock"
        /\ UNCHANGED <<token, expires, now, pc, answer, ends, untouched, during>>
    BY <1>2 DEF ReadClock
  <2>2. AskTypes'
    <3>1. now \in 0..MaxTime
      BY DEF ClientTypes
    <3>2. ask' \in [at : {"out", "clock", "expiry", "true", "false"},
                    token : 0..MaxGrants, clock : 0..MaxTime]
      BY ONLY <1>2, <3>1, AskTypes DEF ReadClock, AskTypes
    <3>3. now <= now
      BY <3>1
    <3>. QED BY <2>1, <3>2, <3>3
  <2>3. NotCleared' /\ Dated' /\ Steady' /\ ValidWithinGrant' /\ GrantSticks'
    BY <2>1 DEF NotCleared, Dated, Steady, ValidWithinGrant, GrantSticks
  <2>. QED BY <2>2, <2>3
<1>3. CASE ReadExpiry
  <2>1. /\ ask'.at = IF ask.clock < expires THEN "true" ELSE "false"
        /\ ask'.token = ask.token /\ ask'.clock = ask.clock /\ ask.at = "expiry"
        /\ UNCHANGED <<token, expires, now, pc, answer, ends, untouched, during>>
    BY <1>3 DEF ReadExpiry
  <2>2. AskTypes'
    BY <1>3, <2>1 DEF ReadExpiry
  <2>3. NotCleared' /\ Dated' /\ Steady'
    BY <2>1 DEF NotCleared, Dated, Steady
  <2>4. ValidWithinGrant'
    <3> SUFFICES ASSUME ask.clock < expires, during # "clear"
                 PROVE  token # 0 /\ ask.token <= token /\ ask.clock <= ends[token] + MaxDelay
      BY <2>1 DEF ValidWithinGrant
    <3>1. token # 0 /\ ask.token <= token
      BY <2>1 DEF NotCleared
    <3>2. CASE pc[Refresher] = "stamp"
      BY <3>1, <3>2 DEF Held, Latest, GrantKnown
    <3>3. CASE pc[Refresher] # "stamp"
      BY <2>1, <3>1, <3>3 DEF Dated
    <3>. QED BY <3>1, <3>2, <3>3
  <2>5. GrantSticks'
    BY <2>1 DEF GrantSticks, Steady, Sticks
  <2>. QED BY <2>2, <2>3, <2>4, <2>5
<1>. QED BY <1>1, <1>2, <1>3 DEF isTokenValid

(* What others do meanwhile, and time.                                     *)
LEMMA ReaderSurvives ==
  ASSUME ClientIInv, AskIInv, ClientIInv',
         \/ Authenticate \/ Granted \/ StoreGrant \/ Denied \/ Tick
         \/ (\E t \in Others : clearToken(t)) \/ (\E t \in Threads : ExpireNow(t))
  PROVE  AskIInv'
<1> USE Numbers DEF ClientIInv, AskIInv, AskTypes, NotCleared, Dated, Steady,
                    ValidWithinGrant, GrantSticks, Threads, Goto
<1>1. CASE Authenticate
  BY <1>1 DEF Authenticate, ClientTypes
<1>2. CASE Granted
  <2>1. /\ pc[Refresher] = "asking" /\ ~untouched /\ token <= answer.grant
        /\ answer'.grant = answer.grant + 1 /\ answer'.grant \in 1..MaxGrants
        /\ UNCHANGED <<token, expires, now, untouched, ask, during>>
    BY <1>2 DEF Granted, ClientTypes, Latest, Sticks
  <2>2. \A g \in 0..answer.grant : g # 0 => ends'[g] = ends[g]
    BY <1>2, <2>1 DEF Granted, ClientTypes
  <2>3. pc'[Refresher] = "granted" /\ \A t \in Others : pc'[t] = pc[t]
    BY <1>2 DEF Granted, ClientTypes
  <2>4. AskTypes' /\ NotCleared' /\ Steady'
    BY <2>1, <2>3
  <2>5. Dated'
    BY <2>1, <2>2, <2>3, <2>4
  <2>6. ValidWithinGrant'
    BY <2>1, <2>2, <2>4
  <2>7. GrantSticks'
    BY <2>1
  <2>. QED BY <2>4, <2>5, <2>6, <2>7
<1>3. CASE WriteToken("granted", "stamp")
  BY <1>3 DEF WriteToken, ClientTypes, Latest, Sticks
<1>4. CASE WriteExpiry("stamp", "idle")
  <2>1. expires' = now + answer.ttl /\ ends[answer.grant] = answer.at + answer.ttl
        /\ now <= answer.at + MaxDelay /\ token \in {0, answer.grant} /\ ~untouched
        /\ UNCHANGED <<token, now, answer, ends, ask, during>>
    BY <1>4 DEF WriteExpiry, Latest, Held, GrantKnown, Sticks
  <2>2. AskTypes' /\ NotCleared' /\ ValidWithinGrant' /\ GrantSticks'
    BY <1>4, <2>1 DEF WriteExpiry, ClientTypes
  <2>3. Dated'
    BY <1>4, <2>1 DEF WriteExpiry
  <2>4. Steady'
    BY <2>1
  <2>. QED BY <2>2, <2>3, <2>4
<1>5. ASSUME NEW t \in Threads, NEW from, Clear(t, from) PROVE AskIInv'
  BY <1>5 DEF Clear
<1>6. ASSUME NEW t \in Threads, ExpireNow(t) PROVE AskIInv'
  BY <1>6 DEF ExpireNow, Sticks
<1>7. CASE Tick
  BY <1>7 DEF Tick
<1>. QED BY <1>1, <1>2, <1>3, <1>4, <1>5, <1>6, <1>7 DEF StoreGrant, Denied, clearToken

(* AskIInv is an invariant of AuthClient.                                  *)
THEOREM AskInvariantHolds == Spec => []AskIInv
<1>1. AskIInv /\ UNCHANGED vars => AskIInv'
  BY DEF AskIInv, AskTypes, NotCleared, Dated, Steady, ValidWithinGrant, GrantSticks, vars
<1>2. ClientIInv /\ AskIInv /\ ClientIInv' /\ [Next]_vars => AskIInv'
  BY <1>1, ReaderPreserves, ReaderSurvives DEF Next
<1>. QED BY AskInit, <1>2, ClientInvariantHolds, PTL DEF Spec

(* The variables of the client keep their types, and the token is one that *)
(* was granted.                                                            *)
THEOREM ClientTypeCorrect == Spec => []TypeOK
<1>1. ClientIInv /\ AskIInv => TypeOK
  BY Numbers DEF ClientIInv, ClientTypes, Latest, AskIInv, AskTypes, TypeOK
<1>. QED BY <1>1, ClientInvariantHolds, AskInvariantHolds, PTL

(* isTokenValid(), whatever is stored between its reads, never vouches for *)
(* a token past its own grant by more than the delay in storing it, unless *)
(* somebody clears the token meanwhile.                                    *)
THEOREM ValidOnlyWithinGrant == Spec => []ValidWithinGrant
<1>1. AskIInv => ValidWithinGrant
  BY DEF AskIInv
<1>. QED BY <1>1, AskInvariantHolds, PTL

(* After authenticate() = true the token is valid for all of its grant,    *)
(* unless someone cleared it.                                              *)
THEOREM GrantAlwaysSticks == Spec => []GrantSticks
<1>1. AskIInv => GrantSticks
  BY DEF AskIInv
<1>. QED BY <1>1, AskInvariantHolds, PTL

-----------------------------------------------------------------------------
(* AuthSession.  During a call the provider has refused all but the last   *)
(* time, and the session paused after every refusal but one that ends it.  *)

Limit ==
  IF input.token # Session!Empty \/ ~input.provider \/ input.retries < 0 THEN 0
  ELSE input.retries

LastAnswer == IF asked = <<>> THEN input.token ELSE asked[Len(asked)]

(* What has been asked so far, in and after a call.                        *)
Asked ==
  /\ Len(asked) <= Limit /\ \A i \in 1..Len(asked) - 1 : asked[i] = Session!Empty
  /\ sessionToken = LastAnswer

Naps ==
  naps = IF asked = <<>> THEN 0
         ELSE IF stage \in {"loop", "thrown"} /\ Session!Again THEN Len(asked) ELSE Len(asked) - 1

Stages ==
  /\ stage = "pause" => Session!Again /\ asked # <<>>
  /\ stage = "thrown" => Session!Again
  /\ stage = "idle" => ~Session!Again /\ authenticated = (sessionToken # Session!Empty)

SessionTypes ==
  /\ stage \in {"idle", "loop", "pause", "thrown"} /\ naps \in Nat
  /\ asked \in Seq(Tokens \cup {Session!Empty})
  /\ input.retries \in Int /\ input.provider \in BOOLEAN

SessionIInv == SessionTypes /\ Asked /\ Naps /\ Stages

(* The session starts in the invariant.                                    *)
LEMMA SessionInit == Session!Init => SessionIInv
<1> SUFFICES ASSUME Session!Init PROVE SessionIInv
  OBVIOUS
<1> USE DEF Session!Init
<1>1. SessionTypes
  <2>1. input.retries = 0 /\ input.provider = FALSE
    OBVIOUS
  <2>2. input.provider \in BOOLEAN
    BY <2>1
  <2>3. asked \in Seq(Tokens \cup {Session!Empty})
    OBVIOUS
  <2>4. stage = "idle" /\ naps = 0
    OBVIOUS
  <2>. QED BY <2>1, <2>2, <2>3, <2>4 DEF SessionTypes
<1>2. Asked
  <2>1. Len(asked) = 0 /\ Limit = 0
    BY DEF Limit
  <2>2. 1..Len(asked) - 1 = {}
    BY <2>1
  <2>3. sessionToken = LastAnswer
    BY DEF LastAnswer
  <2>. QED BY <2>1, <2>2, <2>3 DEF Asked
<1>3. Naps
  BY DEF Naps
<1>4. Stages
  BY DEF Stages, Session!Again
<1>. QED BY <1>1, <1>2, <1>3, <1>4 DEF SessionIInv

(* A call sets out, with no token or the one it was given.                 *)
LEMMA CallPreserves == ASSUME SessionIInv, Session!Call PROVE SessionIInv'
<1> USE DEF Session!Call
<1>1. SessionTypes'
  <2>1. input'.retries \in Retries /\ \A r \in Retries : r \in Int
    BY SmallModelsAssumption DEF SmallModelsAssumption
  <2>2. input'.provider \in BOOLEAN
    OBVIOUS
  <2>. QED BY <2>1, <2>2 DEF SessionTypes
<1>2. Asked'
  BY <1>1 DEF SessionTypes, Asked, Limit, LastAnswer
<1>3. Naps' /\ Stages'
  BY DEF Naps, Stages
<1>. QED BY <1>1, <1>2, <1>3 DEF SessionIInv

(* The provider is asked once more, and either ends the call or is given a *)
(* pause.                                                                  *)
LEMMA AskPreserves == ASSUME SessionIInv, Session!Ask PROVE SessionIInv'
<1> USE DEF Session!Ask, Session!Attempts
<1>1. SessionTypes'
  BY DEF SessionIInv, SessionTypes
<1>2. /\ Len(asked') = Len(asked) + 1 /\ asked' # <<>> /\ asked'[Len(asked')] = sessionToken'
      /\ \A i \in 1..Len(asked) : asked'[i] = asked[i]
  BY DEF SessionIInv, SessionTypes
<1>3. /\ sessionToken = Session!Empty /\ input.provider /\ Len(asked) < input.retries
      /\ Len(asked) \in Nat /\ input.retries \in Int
  BY DEF SessionIInv, SessionTypes, Session!Again
<1>4. \A i \in 1..Len(asked) : asked[i] = Session!Empty
  BY <1>3 DEF SessionIInv, SessionTypes, Asked, LastAnswer
<1>5. input.token = Session!Empty
  BY <1>3 DEF SessionIInv, SessionTypes, Asked, LastAnswer, Limit
<1>6. Asked'
  BY <1>2, <1>3, <1>4, <1>5 DEF Asked, Limit, LastAnswer
<1>7. naps = Len(asked)
  BY <1>3 DEF SessionIInv, SessionTypes, Naps
<1>8. Naps' /\ Stages'
  BY <1>2, <1>3, <1>7 DEF Naps, Stages, Session!Again
<1>. QED BY <1>1, <1>6, <1>8 DEF SessionIInv

(* The pause ends, or the call does, with an exception or without.         *)
LEMMA ReturnPreserves ==
  ASSUME SessionIInv, Session!Pause \/ Session!Return \/ Session!AskThrows PROVE SessionIInv'
<1> USE DEF SessionIInv, SessionTypes, Asked, Limit, LastAnswer, Naps, Stages,
            Session!Again, Session!Attempts
<1>1. CASE Session!Pause
  BY <1>1 DEF Session!Pause
<1>2. CASE Session!Return
  BY <1>2 DEF Session!Return
<1>3. CASE Session!AskThrows
  BY <1>3 DEF Session!AskThrows
<1>. QED BY <1>1, <1>2, <1>3

(* SessionIInv is an invariant of AuthSession.                             *)
THEOREM SessionInvariantHolds == Session!Spec => []SessionIInv
<1>1. SessionIInv /\ UNCHANGED sessionVars => SessionIInv'
  BY DEF SessionIInv, SessionTypes, Asked, Limit, LastAnswer, Naps, Stages,
         Session!Again, Session!Attempts, sessionVars
<1>2. SessionIInv /\ [Session!Next]_Session!vars => SessionIInv'
  BY <1>1, CallPreserves, AskPreserves, ReturnPreserves
     DEF Session!Next, Session!vars, sessionVars
<1>. QED BY SessionInit, <1>2, PTL DEF Session!Spec

(* Whatever the limit, zero and negative ones too: the provider is asked   *)
(* no more often than allowed and never after an answer, with one pause    *)
(* between two attempts, and the session is as its last answer says; a     *)
(* provider that throws leaves no token behind.                            *)
THEOREM SessionFollowsReference == Session!Spec => []SessionOutcome
<1>1. SessionIInv => SessionOutcome
  <2> SUFFICES ASSUME SessionIInv PROVE SessionOutcome
    OBVIOUS
  <2>1. Len(asked) \in Nat /\ input.retries \in Int
    BY DEF SessionIInv, SessionTypes
  <2>2. CASE stage = "idle"
    <3>1. LastAnswer = Session!Empty => Len(asked) = Limit
      BY <2>1, <2>2 DEF SessionIInv, SessionTypes, Asked, Limit, LastAnswer, Stages,
              Session!Again, Session!Attempts
    <3>2. /\ naps = IF asked = <<>> THEN 0 ELSE Len(asked) - 1
          /\ authenticated = (LastAnswer # Session!Empty)
      BY <2>2 DEF SessionIInv, Asked, Naps, Stages
    <3>. QED BY <2>2, <3>1, <3>2
          DEF SessionIInv, Asked, Limit, LastAnswer, SessionOutcome, Session!OutcomeIsReference
  <2>3. CASE stage = "thrown"
    <3>1. sessionToken = Session!Empty /\ Len(asked) < Limit
      BY <2>1, <2>3 DEF SessionIInv, Asked, Limit, LastAnswer, Stages,
              Session!Again, Session!Attempts
    <3>2. naps = Len(asked)
      BY <2>1, <2>3 DEF SessionIInv, SessionTypes, Naps, Stages
    <3>. QED BY <2>3, <3>1, <3>2 DEF Limit, SessionOutcome, Session!OutcomeIsReference
  <2>. QED BY <2>2, <2>3 DEF SessionOutcome, Session!OutcomeIsReference
<1>. QED BY <1>1, SessionInvariantHolds, PTL

-----------------------------------------------------------------------------
(* Logger.  mutex_ makes the holder's line the last one on the console     *)
(* until it is in the file or has failed to be (Current), so that lines    *)
(* reach the file in the order in which they reached the console (Ordered).*)

LinePcs == {"line", "end", "open", "file", "unlock"}
Unwritten(t) == at[t] \in {"lock", "line"}     \* its line is not on the console yet
Owed(t) == at[t] \in {"end", "open", "file"}   \* it is, and the file is still to come

LogTypes ==
  /\ mutex \in Threads \cup {NoThread}
  /\ at \in [Threads -> {"out", "lock"} \cup LinePcs]
  /\ line \in [Threads -> Threads \X Nat] /\ \A t \in Threads : line[t][1] = t
  /\ console \in Seq((Threads \X Nat) \cup {Log!LineEnd})
  /\ file \in Seq(Threads \X Nat) /\ unopened \subseteq Threads \X Nat

Exclusive == \A t \in Threads : at[t] \in LinePcs <=> mutex = t

Alternates ==
  /\ \A i \in DOMAIN console : (console[i] = Log!LineEnd) = (i % 2 = 0)
  /\ Len(console) % 2 = IF \E t \in Threads : at[t] = "end" THEN 1 ELSE 0

Current ==
  \A t \in Threads :
    /\ at[t] = "end" => console # <<>> /\ console[Len(console)] = line[t]
    /\ at[t] \in {"open", "file"} => Len(console) > 1 /\ console[Len(console) - 1] = line[t]

(* Every line is numbered by its thread, and is on the console once.       *)
Numbered ==
  /\ \A k \in DOMAIN console, t \in Threads :
       console[k] # Log!LineEnd /\ console[k][1] = t =>
         IF Unwritten(t) THEN console[k][2] < line[t][2] ELSE console[k][2] <= line[t][2]
  /\ \A k, l \in DOMAIN console : console[k] = console[l] /\ console[k] # Log!LineEnd => k = l

(* What is in the file is of the console, and the other way round.         *)
Mirrors ==
  /\ \A i \in DOMAIN file : \E k \in DOMAIN console : console[k] = file[i]
  /\ \A i \in DOMAIN file : file[i] \notin unopened
  /\ \A u \in unopened : \E k \in DOMAIN console : console[k] = u
  /\ \A k \in DOMAIN console :
       console[k] # Log!LineEnd /\ console[k] \notin unopened =>
         (\E i \in DOMAIN file : file[i] = console[k])
         \/ \E t \in Threads : Owed(t) /\ console[k] = line[t]
  /\ \A t \in Threads :
       Owed(t) => line[t] \notin unopened /\ \A i \in DOMAIN file : file[i] # line[t]

Ordered ==
  \A i, j \in DOMAIN file, k, l \in DOMAIN console :
    file[i] = console[k] /\ file[j] = console[l] => (i < j <=> k < l)

LogIInv == LogTypes /\ Exclusive /\ Alternates /\ Current /\ Numbered /\ Mirrors /\ Ordered

(* A line is not a line end, and is known by its thread and its number.    *)
LEMMA Lines ==
  /\ \A x \in Threads \X Nat : x # Log!LineEnd
  /\ \A x, y \in Threads \X Nat : x[1] = y[1] /\ x[2] = y[2] => x = y
  BY SmallModelsAssumption DEF SmallModelsAssumption, Log!LineEnd

(* The log starts in the invariant.                                        *)
LEMMA LogInit == Log!Init => LogIInv
<1> SUFFICES ASSUME Log!Init PROVE LogIInv
  OBVIOUS
<1>1. DOMAIN console = {} /\ DOMAIN file = {} /\ Len(console) = 0 /\ unopened = {}
  BY DEF Log!Init
<1>2. \A t \in Threads : at[t] = "out"
  BY DEF Log!Init
<1>3. LogTypes
  BY DEF LogTypes, Log!Init
<1>4. Exclusive
  BY <1>2, SmallModelsAssumption DEF SmallModelsAssumption, Exclusive, LinePcs, Log!Init
<1>5. Alternates /\ Current /\ Numbered /\ Mirrors /\ Ordered
  BY <1>1, <1>2 DEF Alternates, Current, Numbered, Mirrors, Ordered, Owed
<1>. QED BY <1>3, <1>4, <1>5 DEF LogIInv

(* A thread makes its next line, whose number is new.                      *)
LEMMA MakeLinePreserves == ASSUME LogIInv, NEW t \in Threads, Log!MakeLine(t) PROVE LogIInv'
<1> USE DEF LogIInv, Log!MakeLine, Log!Goto
<1>1. LogTypes'
  <2>1. at' \in [Threads -> {"out", "lock"} \cup LinePcs]
    <3>1. at \in [Threads -> {"out", "lock"} \cup LinePcs] /\ at' = [at EXCEPT ![t] = "lock"]
      BY DEF LogTypes
    <3>. QED BY ONLY <3>1
  <2>2. line' \in [Threads -> Threads \X Nat] /\ \A u \in Threads : line'[u][1] = u
    BY DEF LogTypes
  <2>. QED BY <2>1, <2>2 DEF LogTypes
<1>2. /\ at' = [at EXCEPT ![t] = "lock"] /\ at[t] = "out"
      /\ line'[t][2] = line[t][2] + 1 /\ \A u \in Threads : u # t => line'[u] = line[u]
  BY DEF LogTypes
<1>3. Exclusive' /\ Alternates' /\ Current'
  BY <1>2 DEF LogTypes, Exclusive, Alternates, Current, LinePcs
<1>4. Numbered'
  BY <1>2 DEF LogTypes, Numbered, Unwritten
<1>5. Mirrors'
  <2>1. \A u \in Threads : Owed(u)' <=> Owed(u)
    BY <1>2 DEF LogTypes, Owed
  <2>2. \A u \in Threads : Owed(u) => line'[u] = line[u]
    BY <1>2 DEF Owed
  <2>. QED BY <2>1, <2>2 DEF Mirrors
<1>6. Ordered'
  BY DEF Ordered
<1>. QED BY <1>1, <1>3, <1>4, <1>5, <1>6

(* mutex_ is taken and let go.                                             *)
LEMMA LockPreserves ==
  ASSUME LogIInv, NEW t \in Threads, Log!Lock(t) \/ Log!Unlock(t) PROVE LogIInv'
<1> USE DEF LogIInv, Log!Lock, Log!Unlock, Log!Goto
<1>1. LogTypes'
  <2>1. at' \in [Threads -> {"out", "lock"} \cup LinePcs]
    <3>1. PICK to \in {"out", "line"} : at' = [at EXCEPT ![t] = to]
      OBVIOUS
    <3>. QED BY <3>1 DEF LogTypes, LinePcs
  <2>2. mutex' \in Threads \cup {NoThread}
    OBVIOUS
  <2>. QED BY <2>1, <2>2 DEF LogTypes
<1>2. /\ \A u \in Threads : Unwritten(u)' <=> Unwritten(u)
      /\ \A u \in Threads : Owed(u)' <=> Owed(u)
      /\ \A u \in Threads : \A pc_ \in {"end", "open", "file"} : at'[u] = pc_ <=> at[u] = pc_
  BY DEF LogTypes, Unwritten, Owed
<1>3. Exclusive'
  BY SmallModelsAssumption DEF SmallModelsAssumption, LogTypes, Exclusive, LinePcs
<1>4. Alternates' /\ Current' /\ Numbered' /\ Mirrors' /\ Ordered'
  BY <1>2 DEF Alternates, Current, Numbered, Mirrors, Ordered
<1>. QED BY <1>1, <1>3, <1>4

(* The line goes to the console.                                           *)
LEMMA LinePreserves ==
  ASSUME LogIInv, NEW t \in Threads, Log!ToConsole(t, "line", line[t], "end") PROVE LogIInv'
<1> USE DEF Log!ToConsole, Log!Goto
<1>1. LogTypes'
  BY DEF LogIInv, LogTypes, LinePcs
<1>2. /\ at' = [at EXCEPT ![t] = "end"] /\ at[t] = "line" /\ at'[t] = "end"
      /\ line[t] \in Threads \X Nat /\ line[t][1] = t /\ line[t] # Log!LineEnd
      /\ \A u \in Threads : u # t => at'[u] = at[u] /\ at[u] \notin LinePcs
  BY Lines DEF LogIInv, LogTypes, Exclusive, LinePcs
<1>3. /\ Len(console') = Len(console) + 1 /\ Len(console) \in Nat
      /\ DOMAIN console = 1..Len(console) /\ DOMAIN console' = 1..Len(console')
      /\ \A k \in DOMAIN console : console'[k] = console[k]
      /\ console'[Len(console')] = line[t]
  BY DEF LogIInv, LogTypes
<1>4. Exclusive'
  BY <1>2 DEF LogIInv, Exclusive, LinePcs
<1>5. Alternates'
  <2>1. Len(console) % 2 = 0
    BY <1>2 DEF LogIInv, Alternates, LinePcs
  <2>2. Len(console') % 2 = 1
    BY <1>3, <2>1
  <2>3. \A i \in DOMAIN console' : (console'[i] = Log!LineEnd) = (i % 2 = 0)
    <3> SUFFICES ASSUME NEW i \in DOMAIN console'
                 PROVE  (console'[i] = Log!LineEnd) = (i % 2 = 0)
      OBVIOUS
    <3>1. CASE i = Len(console')
      BY <1>2, <1>3, <2>2, <3>1
    <3>2. CASE i # Len(console')
      BY <1>3, <3>2 DEF LogIInv, Alternates
    <3>. QED BY <3>1, <3>2
  <2>. QED BY <1>2, <2>2, <2>3 DEF Alternates
<1>6. Current'
  <2>1. console' # <<>>
    BY <1>3
  <2>. QED BY <1>2, <1>3, <2>1 DEF Current, LinePcs
<1>7. \A k \in DOMAIN console : console[k] # line[t]
  <2>1. Unwritten(t) /\ line[t][2] \in Nat
    BY <1>2 DEF Unwritten
  <2>. QED BY <1>2, <2>1 DEF LogIInv, Numbered
<1>8. Numbered'
  BY <1>2, <1>3, <1>7 DEF LogIInv, LogTypes, Numbered, Unwritten, LinePcs
<1>9. Mirrors'
  BY <1>2, <1>3, <1>7 DEF LogIInv, Mirrors, Owed, LinePcs
<1>10. Ordered'
  <2>1. \A i \in DOMAIN file : file[i] # line[t]
    BY <1>7 DEF LogIInv, Mirrors
  <2>2. \A i \in DOMAIN file, k \in DOMAIN console' :
          file[i] = console'[k] => k \in DOMAIN console /\ console'[k] = console[k]
    BY <1>3, <2>1
  <2>. QED BY <2>2 DEF LogIInv, Ordered
<1>. QED BY <1>1, <1>4, <1>5, <1>6, <1>8, <1>9, <1>10 DEF LogIInv

(* The line is ended.                                                      *)
LEMMA EndPreserves ==
  ASSUME LogIInv, NEW t \in Threads, Log!ToConsole(t, "end", Log!LineEnd, "open") PROVE LogIInv'
<1> USE DEF Log!ToConsole, Log!Goto
<1>1. LogTypes'
  BY DEF LogIInv, LogTypes, LinePcs
<1>2. /\ at' = [at EXCEPT ![t] = "open"] /\ at[t] = "end" /\ at'[t] = "open"
      /\ \A u \in Threads : u # t => at'[u] = at[u] /\ at[u] \notin LinePcs
  BY DEF LogIInv, LogTypes, Exclusive, LinePcs
<1>3. /\ Len(console') = Len(console) + 1 /\ Len(console) \in Nat
      /\ DOMAIN console = 1..Len(console) /\ DOMAIN console' = 1..Len(console')
      /\ \A k \in DOMAIN console : console'[k] = console[k]
      /\ console'[Len(console')] = Log!LineEnd
  BY DEF LogIInv, LogTypes
<1>4. Exclusive'
  BY <1>2 DEF LogIInv, Exclusive, LinePcs
<1>5. Alternates'
  <2>1. Len(console) % 2 = 1
    BY <1>2 DEF LogIInv, Alternates
  <2>. QED BY <1>2, <1>3, <2>1 DEF LogIInv, Alternates, LinePcs
<1>6. Current'
  <2>1. Len(console) >= 1 /\ console[Len(console)] = line[t]
    BY <1>2, <1>3 DEF LogIInv, LogTypes, Current
  <2>2. Len(console') > 1 /\ console'[Len(console') - 1] = line[t]
    BY <1>3, <2>1
  <2>. QED BY <1>2, <2>2 DEF Current, LinePcs
<1>7. Numbered'
  BY <1>2, <1>3 DEF LogIInv, Numbered, Unwritten
<1>8. Mirrors'
  <2>1. \A i \in DOMAIN file : file[i] # Log!LineEnd
    BY Lines DEF LogIInv, LogTypes
  <2>. QED BY <1>2, <1>3, <2>1 DEF LogIInv, Mirrors, Owed
<1>9. Ordered'
  <2>1. \A i \in DOMAIN file : file[i] # Log!LineEnd
    BY Lines DEF LogIInv, LogTypes
  <2>. QED BY <1>3, <2>1 DEF LogIInv, Ordered
<1>. QED BY <1>1, <1>4, <1>5, <1>6, <1>7, <1>8, <1>9 DEF LogIInv

(* The file is opened for the line, or cannot be.                          *)
LEMMA OpenPreserves == ASSUME LogIInv, NEW t \in Threads, Log!OpenFile(t) PROVE LogIInv'
<1> USE DEF Log!OpenFile, Log!Goto
<1>1. LogTypes'
  BY DEF LogIInv, LogTypes, LinePcs
<1>2. /\ at[t] = "open" /\ at'[t] \in {"file", "unlock"}
      /\ unopened' = IF at'[t] = "file" THEN unopened ELSE unopened \cup {line[t]}
      /\ \A u \in Threads : u # t => at'[u] = at[u] /\ at[u] \notin LinePcs
  BY DEF LogIInv, LogTypes, Exclusive, LinePcs
<1>3. Exclusive' /\ Current' /\ Ordered'
  BY <1>2 DEF LogIInv, Exclusive, Current, Ordered, LinePcs
<1>4. Alternates'
  BY <1>2 DEF LogIInv, Alternates, LinePcs
<1>5. Numbered'
  BY <1>2 DEF LogIInv, Numbered, Unwritten
<1>6. Mirrors'
  <2>1. Len(console) - 1 \in DOMAIN console /\ console[Len(console) - 1] = line[t]
    BY <1>2 DEF LogIInv, LogTypes, Current
  <2>2. Owed(t)
    BY <1>2 DEF Owed
  <2>. QED BY <1>2, <2>1, <2>2 DEF LogIInv, Mirrors, Owed, LinePcs
<1>. QED BY <1>1, <1>3, <1>4, <1>5, <1>6 DEF LogIInv

(* The line goes to the end of the file, as it is the last on the console. *)
LEMMA WritePreserves == ASSUME LogIInv, NEW t \in Threads, Log!WriteFile(t) PROVE LogIInv'
<1> USE DEF Log!WriteFile, Log!Goto
<1>1. LogTypes'
  BY DEF LogIInv, LogTypes, LinePcs
<1>2. /\ at[t] = "file" /\ at'[t] = "unlock" /\ line[t] # Log!LineEnd
      /\ \A u \in Threads : u # t => at'[u] = at[u] /\ at[u] \notin LinePcs
  BY Lines DEF LogIInv, LogTypes, Exclusive, LinePcs
<1>3. /\ Len(file') = Len(file) + 1 /\ Len(file) \in Nat
      /\ DOMAIN file = 1..Len(file) /\ DOMAIN file' = 1..Len(file')
      /\ \A i \in DOMAIN file : file'[i] = file[i]
      /\ file'[Len(file')] = line[t]
  BY DEF LogIInv, LogTypes
<1>4. Exclusive' /\ Current'
  BY <1>2 DEF LogIInv, Exclusive, Current, LinePcs
<1>5. Alternates'
  BY <1>2 DEF LogIInv, Alternates, LinePcs
<1>6. Numbered'
  BY <1>2 DEF LogIInv, Numbered, Unwritten
<1> DEFINE n == Len(console) - 1
<1>7. /\ Len(console) \in Nat /\ DOMAIN console = 1..Len(console)
      /\ n \in DOMAIN console /\ console[n] = line[t]
  BY <1>2 DEF LogIInv, LogTypes, Current
<1>8. Mirrors'
  <2>1. Owed(t) /\ \A u \in Threads : ~Owed(u)'
    BY <1>2 DEF Owed, LinePcs
  <2>2. \A i \in DOMAIN file' : file'[i] = line[t] \/ (i \in DOMAIN file /\ file'[i] = file[i])
    BY <1>3
  <2>3. \A i \in DOMAIN file' :
          (\E k \in DOMAIN console : console[k] = file'[i]) /\ file'[i] \notin unopened
    BY <1>7, <2>1, <2>2 DEF LogIInv, Mirrors
  <2>4. ASSUME NEW k \in DOMAIN console, console[k] # Log!LineEnd, console[k] \notin unopened
        PROVE  \E i \in DOMAIN file' : file'[i] = console[k]
    <3>1. CASE \E i \in DOMAIN file : file[i] = console[k]
      BY <1>3, <3>1
    <3>2. CASE \E u \in Threads : Owed(u) /\ console[k] = line[u]
      <4>1. console[k] = line[t]
        BY <1>2, <3>2 DEF Owed, LinePcs
      <4>. QED BY <1>3, <4>1
    <3>. QED BY <2>4, <3>1, <3>2 DEF LogIInv, Mirrors
  <2>. QED BY <2>1, <2>3, <2>4 DEF LogIInv, Mirrors
<1>9. \A k \in DOMAIN console : console[k] = line[t] <=> k = n
  BY <1>2, <1>7 DEF LogIInv, Numbered
<1>10. \A i \in DOMAIN file, k \in DOMAIN console : file[i] = console[k] => k < n
  <2> SUFFICES ASSUME NEW i \in DOMAIN file, NEW k \in DOMAIN console, file[i] = console[k],
                      ~(k < n)
               PROVE  FALSE
    OBVIOUS
  <2>1. k # n
    BY <1>2, <1>7 DEF LogIInv, Mirrors, Owed
  <2>2. k = Len(console)
    BY <1>7, <2>1
  <2>3. Len(console) % 2 = 0
    BY <1>2 DEF LogIInv, Alternates, LinePcs
  <2>4. console[k] = Log!LineEnd
    BY <2>2, <2>3 DEF LogIInv, Alternates
  <2>. QED BY <2>4, Lines DEF LogIInv, LogTypes
<1>11. Ordered'
  BY <1>3, <1>7, <1>9, <1>10 DEF LogIInv, Ordered
<1>. QED BY <1>1, <1>4, <1>5, <1>6, <1>8, <1>11 DEF LogIInv

(* LogIInv is an invariant of Logger.                                      *)
THEOREM LogInvariantHolds == Log!Spec => []LogIInv
<1>1. LogIInv /\ UNCHANGED logVars => LogIInv'
  BY DEF LogIInv, LogTypes, Exclusive, Alternates, Current, Numbered, Mirrors, Ordered,
         Unwritten, Owed, logVars
<1>2. LogIInv /\ [Log!Next]_Log!vars => LogIInv'
  BY <1>1, MakeLinePreserves, LockPreserves, LinePreserves, EndPreserves, OpenPreserves,
     WritePreserves DEF Log!Next, Log!WriteConsole, Log!vars, logVars
<1>. QED BY LogInit, <1>2, PTL DEF Log!Spec

(* Every line on the console is ended before the next begins, and the file *)
(* follows the console, for any number of threads and of lines.            *)
THEOREM FileAlwaysFollows == Log!Spec => []FileFollowsConsole
<1>1. LogIInv => FileFollowsConsole
  <2> SUFFICES ASSUME LogIInv PROVE FileFollowsConsole
    OBVIOUS
  <2>1. CASE mutex # NoThread
    BY <2>1 DEF LogIInv, Alternates, FileFollowsConsole, Log!FileFollowsConsole
  <2>2. CASE mutex = NoThread
    <3> DEFINE written ==
          {k \in DOMAIN console : console[k] # Log!LineEnd /\ console[k] \notin unopened}
    <3>1. \A t \in Threads : ~Owed(t)
      BY <2>2, SmallModelsAssumption DEF SmallModelsAssumption, LogIInv, Exclusive, Owed, LinePcs
    <3>2. \A i \in DOMAIN file : file[i] # Log!LineEnd
      BY Lines DEF LogIInv, LogTypes
    <3>3. \A i \in DOMAIN file : \E k \in written : file[i] = console[k]
      BY <3>2 DEF LogIInv, Mirrors
    <3>4. \A k \in written : \E i \in DOMAIN file : console[k] = file[i]
      BY <3>1 DEF LogIInv, Mirrors
    <3>5. {file[i] : i \in DOMAIN file} = {console[k] : k \in written}
      BY <3>3, <3>4
    <3>6. \A i, j \in DOMAIN file, k, l \in written :
            file[i] = console[k] /\ file[j] = console[l] => (i < j <=> k < l)
      BY DEF LogIInv, Ordered
    <3>. QED BY <3>5, <3>6 DEF LogIInv, Alternates, FileFollowsConsole, Log!FileFollowsConsole
  <2>. QED BY <2>1, <2>2
<1>. QED BY <1>1, LogInvariantHolds, PTL

-----------------------------------------------------------------------------
(* LifecycleRaces has proofs of its own, about the model that MCSmallModels *)
(* has under the name Races.                                               *)
RaceProofs == INSTANCE LifecycleRacesProofs WITH Threads <- Threads, pc <- callPc

(* The types are the same.                                                 *)
LEMMA SameTypes == RaceProofs!TypeOK <=> Races!TypeOK
  BY DEF RaceProofs!TypeOK, RaceProofs!NobodyIn, RaceProofs!LoopStates,
         RaceProofs!StartPcs, RaceProofs!StopPcs,
         Races!TypeOK, Races!NobodyIn, Races!LoopStates, Races!StartPcs, Races!StopPcs

(* The initial states are the same.                                        *)
LEMMA SameInit == Races!Init => RaceProofs!Init
  BY DEF RaceProofs!Init, Races!Init

(* The steps are the same.                                                 *)
LEMMA SameNext == [Races!Next]_Races!vars => [RaceProofs!Next]_RaceProofs!vars
  BY DEF RaceProofs!vars, RaceProofs!LoopStates, RaceProofs!StartPcs, RaceProofs!StopPcs,
         RaceProofs!Goto, RaceProofs!NobodyIn, RaceProofs!Quiescent, RaceProofs!Racing,
         RaceProofs!LoopRuns, RaceProofs!workerFrame, RaceProofs!Store, RaceProofs!Enter,
         RaceProofs!Mend, RaceProofs!StartCall, RaceProofs!Ask, RaceProofs!StartBody,
         RaceProofs!ClearRunning, RaceProofs!Spawn, RaceProofs!Assign, RaceProofs!Replace,
         RaceProofs!ReturnStarted, RaceProofs!Throws, RaceProofs!StopCall,
         RaceProofs!RequestStop, RaceProofs!Join, RaceProofs!JoinThrows,
         RaceProofs!StoreStopped, RaceProofs!LoopStores, RaceProofs!LoopReturns,
         RaceProofs!Next,
         Races!vars, Races!LoopStates, Races!StartPcs, Races!StopPcs,
         Races!Goto, Races!NobodyIn, Races!Quiescent, Races!Racing, Races!LoopRuns,
         Races!workerFrame, Races!Store, Races!Enter, Races!Mend, Races!StartCall, Races!Ask,
         Races!StartBody, Races!ClearRunning, Races!Spawn, Races!Assign, Races!Replace,
         Races!ReturnStarted, Races!Throws, Races!StopCall, Races!RequestStop, Races!Join,
         Races!JoinThrows, Races!StoreStopped, Races!LoopStores, Races!LoopReturns, Races!Next

(* The variables of both models keep their types.                          *)
THEOREM TypesCorrect == Spec /\ Races!Spec => []TypesOK
  BY RaceProofs!TypeCorrect, ClientTypeCorrect, SameTypes, SameInit, SameNext, PTL
     DEF Races!Spec, RaceProofs!Spec, TypesOK

(* The two safety properties say the same of both.                         *)
LEMMA SameProperties ==
  /\ RaceProofs!WorkerIsExclusive => WorkerIsExclusive
  /\ RaceProofs!SettledIsTrue => SettledIsTrue
  BY DEF RaceProofs!WorkerIsExclusive, RaceProofs!SettledIsTrue, RaceProofs!NobodyIn,
         RaceProofs!Quiescent, RaceProofs!StartPcs, RaceProofs!StopPcs,
         WorkerIsExclusive, SettledIsTrue, Races!WorkerIsExclusive, Races!SettledIsTrue,
         Races!NobodyIn, Races!Quiescent, Races!StartPcs, Races!StopPcs

(* Whatever calls of start(), or of stop(), overlap: worker_ has one user  *)
(* at a time and one loop runs, until a stop() overlaps a start(); and so  *)
(* again once a call that is alone has repaired what that may leave.       *)
THEOREM RacesAlwaysExclusive == Races!Spec => []WorkerIsExclusive
  BY RaceProofs!WorkerAlwaysExclusive, SameProperties, SameInit, SameNext, PTL
     DEF Races!Spec, RaceProofs!Spec

(* Between calls worker_ holds the one loop that may run, whatever calls   *)
(* overlapped; running() and state() agree with it, after an exception     *)
(* too, under the same condition on the order of the calls.                *)
THEOREM RacesAlwaysSettle == Races!Spec => []SettledIsTrue
  BY RaceProofs!AlwaysSettles, SameProperties, SameInit, SameNext, PTL
     DEF Races!Spec, RaceProofs!Spec

===============================================================================
