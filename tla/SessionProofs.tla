--------------------------- MODULE SessionProofs ---------------------------
(***************************************************************************)
(* A session from its connection to its end, for any number of threads,    *)
(* connections, sessions, accounts and maps: how it is put together        *)
(* (SessionPairing), and the account it plays (Accounts).                  *)
(***************************************************************************)
EXTENDS SessionPairing, Accounts, SequenceTheorems, FiniteSetTheorems, TLAPS

-----------------------------------------------------------------------------
(* The acceptor.                                                           *)

\* Who is where holds the mutex, and Start is past its look at m_Closed only
\* until Close has got it.
MutexIsHeld ==
    /\ start \in {"check", "threads", "unlock", "arm"} => mutex = "acceptor"
    /\ close \in {"threads", "wait"} => mutex = "main"
    /\ close # "serving" => closed
    /\ start = "threads" => close \in {"serving", "stop", "lock"}

AcceptorInv == MutexIsHeld /\ net \in [Threads -> {"none", "running", "ended"}] /\ NoThreadOutlivesClose

LEMMA StartAcceptorInv == ASSUME AcceptorInv, Start PROVE AcceptorInv'
<1> USE DEF AcceptorInv, MutexIsHeld, NoThreadOutlivesClose, mainVars, StartStep
<1>1. CASE StartLock BY <1>1, AcceptorAssumption DEF StartLock, Lock
<1>2. CASE StartClosed \/ StartFails BY <1>2 DEF StartClosed, StartFails
<1>3. CASE StartListens BY <1>3 DEF StartListens
<1>4. ASSUME NEW t \in Threads, StartNetworkThread(t) PROVE AcceptorInv' BY <1>4 DEF StartNetworkThread
<1>5. CASE StartAccepts BY <1>5 DEF StartAccepts
<1>6. CASE StartUnlock BY <1>6 DEF StartUnlock, Unlock
<1>7. CASE RunReturns BY <1>7 DEF RunReturns
<1> QED BY <1>1, <1>2, <1>3, <1>4, <1>5, <1>6, <1>7 DEF Start

LEMMA AcceptAcceptorInv ==
    ASSUME AcceptorInv, AcceptFails \/ AcceptSucceeds \/ HandleAccept
    PROVE  AcceptorInv'
<1> USE DEF AcceptorInv, MutexIsHeld, NoThreadOutlivesClose, mainVars, StartStep
<1>1. CASE AcceptFails \/ AcceptSucceeds BY <1>1 DEF AcceptFails, AcceptSucceeds
<1>2. CASE AcceptHooks \/ AcceptConnection \/ AcceptNotifies
  BY <1>2 DEF AcceptHooks, AcceptConnection, AcceptNotifies
<1>3. CASE AcceptNext BY <1>3 DEF AcceptNext
<1>4. CASE AcceptLock BY <1>4, AcceptorAssumption DEF AcceptLock, Lock
<1>5. CASE AcceptArms BY <1>5 DEF AcceptArms, Unlock
<1> QED BY <1>1, <1>2, <1>3, <1>4, <1>5 DEF HandleAccept, Reaccept

LEMMA CloseAcceptorInv == ASSUME AcceptorInv, CloseMark \/ Close PROVE AcceptorInv'
<1> USE DEF AcceptorInv, MutexIsHeld, NoThreadOutlivesClose, mainVars, CloseStep
<1>1. CASE CloseMark BY <1>1 DEF CloseMark
<1>2. CASE CloseStopsService BY <1>2 DEF CloseStopsService
<1>3. CASE CloseLock BY <1>3, AcceptorAssumption DEF CloseLock, Lock
<1>4. CASE CloseStopsThreads BY <1>4 DEF CloseStopsThreads
<1>5. ASSUME NEW t \in Threads, CloseWaits(t) PROVE AcceptorInv' BY <1>5 DEF CloseWaits
<1>6. CASE CloseUnlock BY <1>6 DEF CloseUnlock, Unlock
<1>7. CASE MainJoins BY <1>7 DEF MainJoins
<1> QED BY <1>1, <1>2, <1>3, <1>4, <1>5, <1>6, <1>7 DEF Close

LEMMA AcceptorStep == ASSUME AcceptorInv, [Next]_vars PROVE AcceptorInv'
<1>1. ASSUME NEW t \in Threads, NetworkThreadEnds(t) PROVE AcceptorInv'
  BY <1>1 DEF NetworkThreadEnds, AcceptorInv, MutexIsHeld, NoThreadOutlivesClose, mainVars
<1>2. CASE UNCHANGED vars
  BY <1>2 DEF vars, AcceptorInv, MutexIsHeld, NoThreadOutlivesClose
<1> QED BY <1>1, <1>2, StartAcceptorInv, AcceptAcceptorInv, CloseAcceptorInv DEF Next

\* Every step of the pairing is a step of the acceptor, or none of it.
LEMMA PairingRefinesAcceptor == [PairingNext]_allVars => [Next]_vars
<1>1. CreateSessionHook \/ NotifyConnection => Next
  BY DEF CreateSessionHook, NotifyConnection, Next, HandleAccept
<1>2. MainGoesOn \/ UNCHANGED allVars => UNCHANGED vars BY DEF MainGoesOn, allVars
<1>3. Accepting \/ Ending \/ PairingClose => Next
  BY <1>1 DEF Accepting, Ending, PairingClose, Next, HandleAccept
<1>4. (\E t \in Threads : ThreadEnds(t)) => Next BY DEF ThreadEnds, Next
<1>5. AcceptFails \/ AcceptSucceeds => Next BY DEF Next
<1> QED BY <1>2, <1>3, <1>4, <1>5 DEF PairingNext

\* The builder and main only watch: what the acceptor does with them it does
\* without them.
THEOREM PairingImplementsAcceptor == PairingSpec => Spec
<1>1. PairingInit => Init BY DEF PairingInit
<1> QED BY <1>1, PairingRefinesAcceptor, PTL DEF PairingSpec, Spec

\* However Close meets Start, with any number of network threads, none of them
\* runs when Close has returned, or later.
THEOREM NoThreadIsLeft == PairingSpec => []NoThreadOutlivesClose
<1>1. PairingInit => AcceptorInv
  BY DEF PairingInit, Init, AcceptorInv, MutexIsHeld, NoThreadOutlivesClose
<1>2. AcceptorInv /\ [PairingNext]_allVars => AcceptorInv' BY AcceptorStep, PairingRefinesAcceptor
<1>3. AcceptorInv => NoThreadOutlivesClose BY DEF AcceptorInv
<1> QED BY <1>1, <1>2, <1>3, PTL DEF PairingSpec

-----------------------------------------------------------------------------
(* The pairing.                                                            *)

\* The builder is not told of connections any more.
Unsubscribed == main \in {"no acceptor", "builder deleted"}

NumbersGrow ==
    /\ accepted \in Nat
    /\ \A s \in sessions : s.connection \in Nat /\ s.connection =< accepted
    /\ start = "notify" => \A s \in sessions : s.connection # accepted
    /\ \A n \in early : n \in Nat /\ n =< accepted + 1
    /\ start # "connect" => accepted + 1 \notin early

\* The builder holds the extension of the connection that is hooked and of which
\* it has not been told yet, or of none.
HoldsThePending ==
    /\ start = "connect" => extension = IF accepted + 1 \in early THEN None ELSE accepted + 1
    /\ start = "notify" => extension = IF accepted \in early THEN None ELSE accepted
    /\ start \notin {"connect", "notify"} => extension = None

\* What it holds when it is unsubscribed is never given away.
PairingInv ==
    /\ NumbersGrow
    /\ main = "started" => extension = None
    /\ Unsubscribed \/ HoldsThePending
    /\ SessionsArePaired

LEMMA HookPairingInv == ASSUME PairingInv, CreateSessionHook PROVE PairingInv'
<1>1. /\ start = "hook" /\ start' = "connect"
      /\ UNCHANGED <<accepted, main, sessions>>
  BY DEF CreateSessionHook, AcceptHooks, StartStep
<1>2. accepted \in Nat /\ accepted + 1 \notin early BY <1>1 DEF PairingInv, NumbersGrow
<1>3. \A s \in sessions : s.connection # accepted + 1 BY DEF PairingInv, NumbersGrow
<1>4. CASE BuilderHearsExtensions
  <2>1. extension' = accepted + 1 /\ early' = early BY <1>4 DEF CreateSessionHook
  <2>2. main # "started" BY <1>4 DEF BuilderHearsExtensions
  <2>3. NumbersGrow' BY <1>1, <2>1 DEF PairingInv, NumbersGrow
  <2>4. HoldsThePending' BY <1>1, <1>2, <2>1 DEF HoldsThePending
  <2>5. SessionsArePaired' BY <1>1, <2>1 DEF PairingInv, SessionsArePaired
  <2> QED BY <1>1, <2>2, <2>3, <2>4, <2>5 DEF PairingInv
<1>5. CASE ~BuilderHearsExtensions
  <2>1. extension' = extension /\ early' = early \cup {accepted + 1} BY <1>5 DEF CreateSessionHook
  <2>2. NumbersGrow' BY <1>1, <2>1 DEF PairingInv, NumbersGrow
  <2>3. Unsubscribed' \/ HoldsThePending'
    BY <1>1, <2>1 DEF PairingInv, HoldsThePending, Unsubscribed
  <2>4. SessionsArePaired' BY <1>1, <1>3, <2>1 DEF PairingInv, SessionsArePaired
  <2> QED BY <1>1, <2>1, <2>2, <2>3, <2>4 DEF PairingInv
<1> QED BY <1>4, <1>5

LEMMA NotifyPairingInv == ASSUME PairingInv, NotifyConnection PROVE PairingInv'
<1>1. /\ start = "notify" /\ start' = "accept"
      /\ UNCHANGED <<accepted, main, early>>
  BY DEF NotifyConnection, AcceptNotifies, StartStep
<1>2. accepted \in Nat BY DEF PairingInv, NumbersGrow
<1>3. CASE BuilderHearsConnections
  <2> DEFINE built == [connection |-> accepted, extension |-> extension, given |-> GameHearsSessions]
  <2>1. sessions' = sessions \cup {built} /\ extension' = None
    BY <1>3 DEF NotifyConnection
  <2>2. built.connection = accepted /\ built.extension = extension OBVIOUS
  <2> HIDE DEF built
  <2>3. extension = IF accepted \in early THEN None ELSE accepted
    BY <1>1, <1>3 DEF PairingInv, HoldsThePending, Unsubscribed, BuilderHearsConnections
  <2>4. NumbersGrow' BY <1>1, <2>1, <2>2 DEF PairingInv, NumbersGrow
  <2>5. HoldsThePending' BY <1>1, <2>1 DEF HoldsThePending
  <2>6. SessionsArePaired' BY <1>1, <2>1, <2>2, <2>3 DEF PairingInv, SessionsArePaired
  <2> QED BY <2>1, <2>4, <2>5, <2>6 DEF PairingInv
<1>4. CASE ~BuilderHearsConnections
  <2>1. UNCHANGED <<sessions, extension>> BY <1>4 DEF NotifyConnection
  <2>2. main = "started" \/ Unsubscribed BY <1>4 DEF BuilderHearsConnections, Unsubscribed
  <2>3. NumbersGrow' BY <1>1, <2>1 DEF PairingInv, NumbersGrow
  <2>4. Unsubscribed' \/ HoldsThePending'
    BY <1>1, <2>1, <2>2 DEF PairingInv, HoldsThePending, Unsubscribed
  <2>5. SessionsArePaired' BY <1>1, <2>1 DEF PairingInv, SessionsArePaired
  <2> QED BY <1>1, <2>1, <2>3, <2>4, <2>5 DEF PairingInv
<1> QED BY <1>3, <1>4

\* AddConnection makes the number of the connection the last.
LEMMA ConnectPairingInv ==
    ASSUME PairingInv, AcceptConnection, UNCHANGED <<main, pairingVars>>
    PROVE  PairingInv'
<1>1. /\ start = "connect" /\ start' = "notify" /\ accepted' = accepted + 1
      /\ UNCHANGED <<main, extension, sessions, early>>
  BY DEF AcceptConnection, StartStep, pairingVars
<1>2. NumbersGrow'
  <2>1. accepted \in Nat BY DEF PairingInv, NumbersGrow
  <2>2. \A s \in sessions : s.connection \in Nat /\ s.connection =< accepted
    BY DEF PairingInv, NumbersGrow
  <2>3. \A s \in sessions : s.connection =< accepted + 1 /\ s.connection # accepted + 1 BY <2>1, <2>2
  <2>4. \A n \in early : n \in Nat /\ n =< accepted + 1 BY DEF PairingInv, NumbersGrow
  <2>5. accepted + 1 + 1 \notin early BY <2>1, <2>4
  <2>6. \A n \in early : n =< accepted + 1 + 1 BY <2>1, <2>4
  <2> QED BY <1>1, <2>1, <2>2, <2>3, <2>4, <2>5, <2>6 DEF NumbersGrow
<1>3. Unsubscribed' \/ HoldsThePending'
  BY <1>1 DEF PairingInv, HoldsThePending, Unsubscribed
<1>4. SessionsArePaired' BY <1>1 DEF PairingInv, SessionsArePaired
<1> QED BY <1>1, <1>2, <1>3, <1>4 DEF PairingInv

\* Where the builder and the connections are not concerned.
LEMMA OtherPairingInv ==
    ASSUME PairingInv, UNCHANGED <<main, pairingVars, accepted>>,
           \/ start' = start
           \/ start \notin {"connect", "notify"} /\ start' \notin {"connect", "notify"}
    PROVE  PairingInv'
<1>1. UNCHANGED <<accepted, main, extension, sessions, early>> BY DEF pairingVars
<1>2. NumbersGrow' BY <1>1 DEF PairingInv, NumbersGrow
<1>3. Unsubscribed' \/ HoldsThePending' BY <1>1 DEF PairingInv, HoldsThePending, Unsubscribed
<1>4. SessionsArePaired' BY <1>1 DEF PairingInv, SessionsArePaired
<1> QED BY <1>1, <1>2, <1>3, <1>4 DEF PairingInv

\* Once unsubscribed the builder stays so, and main starts but once.
LEMMA MainPairingInv == ASSUME PairingInv, MainGoesOn PROVE PairingInv'
<1>1. UNCHANGED <<start, accepted, extension, sessions, early>>
  BY DEF MainGoesOn, vars, pairingVars
<1>2. PICK step \in Steps : main = step[1] /\ main' = step[2] BY DEF MainGoesOn
<1>3. main' # "started" /\ (Unsubscribed => Unsubscribed')
  <2>1. CASE step = <<"started", "acceptor">> BY <1>2, <2>1 DEF Unsubscribed
  <2>2. CASE step = <<"acceptor", "subject">> BY <1>2, <2>2 DEF Unsubscribed
  <2>3. CASE step = <<"subject", "world">> BY <1>2, <2>3 DEF Unsubscribed
  <2>4. CASE step = <<"world", "no world">> BY <1>2, <2>4 DEF Unsubscribed
  <2>5. CASE step = <<"no world", "world deleted">> BY <1>2, <2>5 DEF Unsubscribed
  <2>6. CASE step = <<"world deleted", "no subject">> BY <1>2, <2>6 DEF Unsubscribed
  <2>7. CASE step = <<"no subject", "no acceptor">> BY <1>2, <2>7 DEF Unsubscribed
  <2>8. CASE step = <<"no acceptor", "builder deleted">> BY <1>2, <2>8 DEF Unsubscribed
  <2> QED BY <2>1, <2>2, <2>3, <2>4, <2>5, <2>6, <2>7, <2>8 DEF Steps
<1>4. NumbersGrow' BY <1>1 DEF PairingInv, NumbersGrow
<1>5. HoldsThePending => HoldsThePending' BY <1>1 DEF HoldsThePending
<1>6. SessionsArePaired' BY <1>1 DEF PairingInv, SessionsArePaired
<1> QED BY <1>3, <1>4, <1>5, <1>6 DEF PairingInv

LEMMA PairingStep == ASSUME PairingInv, [PairingNext]_allVars PROVE PairingInv'
<1>1. ASSUME UNCHANGED <<main, pairingVars>>,
             Start \/ Reaccept \/ AcceptFails \/ AcceptSucceeds \/ PairingClose \/ Close
      PROVE  PairingInv'
  <2>1. CASE Start \/ AcceptFails \/ AcceptSucceeds
    <3>1. /\ UNCHANGED accepted
          /\ \/ start' = start
             \/ start \notin {"connect", "notify"} /\ start' \notin {"connect", "notify"}
      BY <2>1 DEF Start, StartStep, StartLock, StartClosed, StartFails, StartListens, StartNetworkThread,
                  StartAccepts, StartUnlock, RunReturns, AcceptFails, AcceptSucceeds
    <3> QED BY <1>1, <3>1, OtherPairingInv
  <2>2. CASE AcceptNext \/ AcceptLock \/ AcceptArms
    <3>1. /\ UNCHANGED accepted
          /\ start \notin {"connect", "notify"} /\ start' \notin {"connect", "notify"}
      BY <2>2 DEF StartStep, AcceptNext, AcceptLock, AcceptArms
    <3> QED BY <1>1, <3>1, OtherPairingInv
  <2>3. CASE PairingClose \/ Close
    <3>1. UNCHANGED <<start, accepted>>
      BY <2>3 DEF PairingClose, Close, CloseMark, CloseStopsService, CloseLock, CloseStopsThreads,
                  CloseWaits, CloseUnlock, MainJoins
    <3> QED BY <1>1, <3>1, OtherPairingInv
  <2>4. CASE AcceptConnection BY <1>1, <2>4, ConnectPairingInv
  <2> QED BY <1>1, <2>1, <2>2, <2>3, <2>4 DEF Reaccept
<1>2. ASSUME NEW t \in Threads, ThreadEnds(t) PROVE PairingInv'
  BY <1>2, OtherPairingInv DEF ThreadEnds, NetworkThreadEnds
<1>3. CASE UNCHANGED allVars BY <1>3, OtherPairingInv DEF allVars, vars
<1> QED
  BY <1>1, <1>2, <1>3, HookPairingInv, NotifyPairingInv, MainPairingInv DEF PairingNext, Accepting, Ending

\* However main's subscriptions and their end meet the accepts, no session gets
\* the extension of another connection, and none lacks its own unless that was
\* made while the builder did not listen.
THEOREM SessionsGetTheirs == PairingSpec => []SessionsArePaired
<1>1. PairingInit => PairingInv
  BY DEF PairingInit, Init, PairingInv, NumbersGrow, HoldsThePending, SessionsArePaired
<1>2. PairingInv /\ [PairingNext]_allVars => PairingInv' BY PairingStep
<1>3. PairingInv => SessionsArePaired BY DEF PairingInv
<1> QED BY <1>1, <1>2, <1>3, PTL DEF PairingSpec

-----------------------------------------------------------------------------
(* Statements and answers of the Accounts.                                 *)

\* Append puts one element behind the others.
LEMMA AppendElements ==
    ASSUME NEW S, NEW s \in Seq(S), NEW x \in S
    PROVE  /\ Append(s, x) \in Seq(S)
           /\ Len(Append(s, x)) = Len(s) + 1
           /\ \A i \in 1 .. Len(s) : Append(s, x)[i] = s[i]
           /\ Append(s, x)[Len(s) + 1] = x
OBVIOUS

LEMMA AtMostOneElement ==
    ASSUME NEW S, \A x, y \in S : x = y
    PROVE  Cardinality(S) = IF S = {} THEN 0 ELSE 1
<1>1. CASE S = {}
  BY <1>1, FS_EmptySet
<1>2. CASE S # {}
  <2>1. PICK x \in S : S = {x}
    BY <1>2
  <2> QED BY <1>2, <2>1, FS_Singleton
<1> QED BY <1>1, <1>2

LEMMA StatementFields ==
    ASSUME NEW st \in Statements
    PROVE  /\ st.account \in AccountIDs
           /\ \/ st.kind = "select" /\ st.session \in Sessions /\ st = Select(st.session, st.account)
              \/ st.kind = "update" /\ st.player \in Players
<1>1. CASE st \in {Select(s, a) : s \in Sessions, a \in AccountIDs}
  BY <1>1 DEF Select
<1>2. CASE st \in {Update(a, player) : a \in AccountIDs, player \in Players}
  BY <1>2 DEF Update
<1> QED BY <1>1, <1>2 DEF Statements

LEMMA PlayerFields ==
    ASSUME NEW player \in Players
    PROVE  player.map \in Maps /\ player.progress \in 0 .. MaxProgress
BY DEF Players

\* A SELECT is answered with a row or an error, an UPDATE without a row.
AnswersFit ==
    \A x \in answered :
        /\ x[1].kind = "select" => x[2] = Error \/ \E player \in Players : x[2] = Row(player)
        /\ x[1].kind = "update" => x[2] \in {Done, Error}

\* The statements that load a player, executed or not.
LoadStatements == {st \in Range(pending) \cup AnsweredStatements : st.kind = "select"}
IsPending(st) == \E i \in 1 .. Len(pending) : pending[i] = st
IsAnswered(st) == \E x \in answered : x[1] = st

LEMMA LoadsAre ==
    pending \in Seq(Statements) =>
        \A st : st \in LoadStatements <=> st.kind = "select" /\ (IsPending(st) \/ IsAnswered(st))
BY LenProperties DEF LoadStatements, Range, AnsweredStatements, IsPending, IsAnswered

LEMMA LoadsAreNext ==
    pending' \in Seq(Statements) =>
        \A st : st \in LoadStatements' <=> st.kind = "select" /\ (IsPending(st)' \/ IsAnswered(st)')
BY LenProperties DEF LoadStatements, Range, AnsweredStatements, IsPending, IsAnswered

LEMMA LoadingIs ==
    /\ \A s : s \in Loading <=> \E st \in LoadStatements : st.session = s
    /\ \A a : LoadsOf(a) = {st \in LoadStatements : st.account = a}
BY DEF Loading, SessionsOf, LoadStatements, LoadsOf

LEMMA SameElements == \A S, T : (\A x : x \in S <=> x \in T) => S = T
OBVIOUS

LEMMA IssueElements ==
    ASSUME pending \in Seq(Statements), NEW st \in Statements, Database!Issue(st)
    PROVE  /\ pending' \in Seq(Statements) /\ answered' = answered
           /\ Len(pending) \in Nat /\ Len(pending') = Len(pending) + 1
           /\ \A i \in 1 .. Len(pending) : pending'[i] = pending[i]
           /\ pending'[Len(pending) + 1] = st
BY AppendElements, LenProperties DEF Database!Issue

LEMMA ExecuteElements ==
    ASSUME pending \in Seq(Statements), NEW outcome, Database!Execute(outcome)
    PROVE  /\ pending' \in Seq(Statements) /\ Len(pending) \in Nat \ {0} /\ Len(pending') = Len(pending) - 1
           /\ \A i \in 1 .. Len(pending') : pending'[i] = pending[i + 1]
           /\ Head(pending) = pending[1] /\ pending[1] \in Statements
           /\ answered' = answered \cup {<<pending[1], outcome>>}
<1>1. pending # <<>> /\ pending' = Tail(pending) /\ answered' = answered \cup {<<Head(pending), outcome>>}
  BY DEF Database!Execute
<1>2. Head(pending) = pending[1] /\ Head(pending) \in Statements /\ Len(pending) \in Nat \ {0}
  BY <1>1, HeadTailProperties, EmptySeq
<1> QED BY <1>1, <1>2, HeadTailProperties

LEMMA IssueLoads ==
    ASSUME pending \in Seq(Statements), NEW st \in Statements, Database!Issue(st)
    PROVE  LoadStatements' = LoadStatements \cup (IF st.kind = "select" THEN {st} ELSE {})
<1>1. /\ pending' \in Seq(Statements) /\ answered' = answered
      /\ Len(pending) \in Nat /\ Len(pending') = Len(pending) + 1
      /\ \A i \in 1 .. Len(pending) : pending'[i] = pending[i]
      /\ pending'[Len(pending) + 1] = st
  BY IssueElements
<1>2. ASSUME NEW x PROVE IsPending(x)' <=> IsPending(x) \/ x = st
  <2>1. ASSUME IsPending(x)' PROVE IsPending(x) \/ x = st
    <3>1. PICK i \in 1 .. Len(pending') : pending'[i] = x
      BY <2>1 DEF IsPending
    <3>2. i \in 1 .. Len(pending) \/ i = Len(pending) + 1
      BY <1>1
    <3> QED BY <1>1, <3>1, <3>2 DEF IsPending
  <2>2. ASSUME IsPending(x) PROVE IsPending(x)'
    <3>1. PICK i \in 1 .. Len(pending) : pending[i] = x
      BY <2>2 DEF IsPending
    <3>2. i \in 1 .. Len(pending')
      BY <1>1
    <3> QED BY <1>1, <3>1, <3>2 DEF IsPending
  <2>3. ASSUME x = st PROVE IsPending(x)'
    <3>1. Len(pending) + 1 \in 1 .. Len(pending')
      BY <1>1
    <3> QED BY <1>1, <2>3, <3>1 DEF IsPending
  <2> QED BY <2>1, <2>2, <2>3
<1>3. ASSUME NEW x PROVE IsAnswered(x)' <=> IsAnswered(x)
  BY <1>1 DEF IsAnswered
<1>4. \A x : x \in LoadStatements' <=> x \in LoadStatements \cup (IF st.kind = "select" THEN {st} ELSE {})
  BY <1>1, <1>2, <1>3, LoadsAre, LoadsAreNext
<1> QED BY <1>4, SameElements

LEMMA ExecuteLoads ==
    ASSUME pending \in Seq(Statements), NEW outcome, Database!Execute(outcome)
    PROVE  LoadStatements' = LoadStatements
<1>1. /\ pending' \in Seq(Statements) /\ Len(pending) \in Nat \ {0} /\ Len(pending') = Len(pending) - 1
      /\ \A i \in 1 .. Len(pending') : pending'[i] = pending[i + 1]
      /\ answered' = answered \cup {<<pending[1], outcome>>}
  BY ExecuteElements
<1>2. ASSUME NEW x PROVE IsPending(x)' \/ IsAnswered(x)' <=> IsPending(x) \/ IsAnswered(x)
  <2>1. ASSUME IsPending(x)' PROVE IsPending(x)
    <3>1. PICK i \in 1 .. Len(pending') : pending'[i] = x
      BY <2>1 DEF IsPending
    <3>2. i + 1 \in 1 .. Len(pending) /\ pending[i + 1] = x
      BY <1>1, <3>1
    <3> QED BY <3>2 DEF IsPending
  <2>2. IsAnswered(x)' <=> IsAnswered(x) \/ x = pending[1]
    <3> DEFINE new == <<pending[1], outcome>>
    <3>1. new[1] = pending[1] /\ answered' = answered \cup {new}
      BY <1>1
    <3> HIDE DEF new
    <3> QED BY <3>1 DEF IsAnswered
  <2>3. ASSUME IsPending(x) PROVE IsPending(x)' \/ x = pending[1]
    <3>1. PICK i \in 1 .. Len(pending) : pending[i] = x
      BY <2>3 DEF IsPending
    <3>2. CASE i = 1
      BY <3>1, <3>2
    <3>3. CASE i # 1
      <4>1. i - 1 \in 1 .. Len(pending') /\ (i - 1) + 1 = i
        BY <1>1, <3>3
      <4>2. pending'[i - 1] = x
        BY <1>1, <3>1, <4>1
      <4> QED BY <4>1, <4>2 DEF IsPending
    <3> QED BY <3>2, <3>3
  <2>4. IsPending(pending[1])
    BY <1>1 DEF IsPending
  <2> QED BY <2>1, <2>2, <2>3, <2>4
<1>3. \A x : x \in LoadStatements' <=> x \in LoadStatements
  BY <1>1, <1>2, LoadsAre, LoadsAreNext
<1> QED BY <1>3, SameElements

\* A statement that loads a player is somewhere once.
LoadedOnce ==
    /\ \A i, j \in 1 .. Len(pending) : pending[i].kind = "select" /\ pending[i] = pending[j] => i = j
    /\ \A i \in 1 .. Len(pending), x \in answered : pending[i].kind = "select" => pending[i] # x[1]
    /\ \A x, y \in answered : x[1].kind = "select" /\ x[1] = y[1] => x = y

LEMMA CollectSavesLoads ==
    ASSUME pending \in Seq(Statements), NEW answers, \A x \in answers : x[1].kind = "update",
           Database!Collect(answers)
    PROVE  LoadStatements' = LoadStatements
<1>1. pending' = pending /\ answered' = answered \ answers
  BY DEF Database!Collect
<1>2. ASSUME NEW x, x.kind = "select" PROVE IsPending(x)' \/ IsAnswered(x)' <=> IsPending(x) \/ IsAnswered(x)
  BY <1>1, <1>2 DEF IsPending, IsAnswered
<1>3. \A x : x \in LoadStatements' <=> x \in LoadStatements
  BY <1>1, <1>2, LoadsAre, LoadsAreNext
<1> QED BY <1>3, SameElements

LEMMA CollectLoadLoads ==
    ASSUME pending \in Seq(Statements), LoadedOnce, NEW answer \in answered, answer[1].kind = "select",
           Database!Collect({answer})
    PROVE  LoadStatements' = LoadStatements \ {answer[1]}
<1>1. pending' = pending /\ answered' = answered \ {answer}
  BY DEF Database!Collect
<1>2. ASSUME NEW x, x.kind = "select"
      PROVE  IsPending(x)' \/ IsAnswered(x)' <=> (IsPending(x) \/ IsAnswered(x)) /\ x # answer[1]
  BY <1>1, <1>2 DEF IsPending, IsAnswered, LoadedOnce
<1>3. \A x : x \in LoadStatements' <=> x \in LoadStatements \ {answer[1]}
  BY <1>1, <1>2, LoadsAre, LoadsAreNext
<1> QED BY <1>3, SameElements

LEMMA IssueOnce ==
    ASSUME pending \in Seq(Statements), LoadedOnce, NEW st \in Statements, Database!Issue(st),
           st.kind = "select" => st \notin LoadStatements
    PROVE  LoadedOnce'
<1>1. /\ pending' \in Seq(Statements) /\ answered' = answered
      /\ Len(pending) \in Nat /\ Len(pending') = Len(pending) + 1
      /\ \A i \in 1 .. Len(pending) : pending'[i] = pending[i]
      /\ pending'[Len(pending) + 1] = st
  BY IssueElements
<1>2. st.kind = "select" => (\A i \in 1 .. Len(pending) : pending[i] # st) /\ \A x \in answered : x[1] # st
  BY LoadsAre DEF IsPending, IsAnswered
<1>3. \A i \in 1 .. Len(pending') : i \in 1 .. Len(pending) \/ i = Len(pending) + 1
  BY <1>1
<1>4. \A i, j \in 1 .. Len(pending') : pending'[i].kind = "select" /\ pending'[i] = pending'[j] => i = j
  <2> TAKE i, j \in 1 .. Len(pending')
  <2> HAVE pending'[i].kind = "select" /\ pending'[i] = pending'[j]
  <2>1. CASE i \in 1 .. Len(pending) /\ j \in 1 .. Len(pending)
    BY <1>1, <2>1 DEF LoadedOnce
  <2>2. CASE i = Len(pending) + 1 /\ j \in 1 .. Len(pending)
    BY <1>1, <1>2, <2>2
  <2>3. CASE j = Len(pending) + 1 /\ i \in 1 .. Len(pending)
    BY <1>1, <1>2, <2>3
  <2> QED BY <1>3, <2>1, <2>2, <2>3
<1>5. \A i \in 1 .. Len(pending'), x \in answered' : pending'[i].kind = "select" => pending'[i] # x[1]
  BY <1>1, <1>2, <1>3 DEF LoadedOnce
<1> QED BY <1>1, <1>4, <1>5 DEF LoadedOnce

LEMMA ExecuteOnce ==
    ASSUME pending \in Seq(Statements), LoadedOnce, NEW outcome, Database!Execute(outcome)
    PROVE  LoadedOnce'
<1>1. /\ pending' \in Seq(Statements) /\ Len(pending) \in Nat \ {0} /\ Len(pending') = Len(pending) - 1
      /\ \A i \in 1 .. Len(pending') : pending'[i] = pending[i + 1]
      /\ answered' = answered \cup {<<pending[1], outcome>>}
  BY ExecuteElements
<1>2. \A i \in 1 .. Len(pending') : i + 1 \in 1 .. Len(pending) /\ i + 1 # 1 /\ i \in Nat
  BY <1>1
<1>3. \A i, j \in 1 .. Len(pending') : pending'[i].kind = "select" /\ pending'[i] = pending'[j] => i = j
  <2> TAKE i, j \in 1 .. Len(pending')
  <2> HAVE pending'[i].kind = "select" /\ pending'[i] = pending'[j]
  <2>1. i + 1 = j + 1
    BY <1>1, <1>2 DEF LoadedOnce
  <2> QED BY <1>2, <2>1
<1>4. \A i \in 1 .. Len(pending'), x \in answered' : pending'[i].kind = "select" => pending'[i] # x[1]
  <2> TAKE i \in 1 .. Len(pending'), x \in answered'
  <2> HAVE pending'[i].kind = "select"
  <2>1. 1 \in 1 .. Len(pending)
    BY <1>1
  <2>2. pending[i + 1] # pending[1]
    BY <1>1, <1>2, <2>1 DEF LoadedOnce
  <2>3. CASE x \in answered
    BY <1>1, <1>2, <2>3 DEF LoadedOnce
  <2>4. CASE x = <<pending[1], outcome>>
    BY <1>1, <2>2, <2>4
  <2> QED BY <1>1, <2>3, <2>4
<1>5. \A x, y \in answered' : x[1].kind = "select" /\ x[1] = y[1] => x = y
  <2>1. 1 \in 1 .. Len(pending)
    BY <1>1
  <2>2. \A x \in answered : x[1].kind = "select" => x[1] # pending[1]
    BY <2>1 DEF LoadedOnce
  <2>3. \A x, y \in answered : x[1].kind = "select" /\ x[1] = y[1] => x = y
    BY DEF LoadedOnce
  <2> QED BY <1>1, <2>2, <2>3
<1> QED BY <1>3, <1>4, <1>5 DEF LoadedOnce

LEMMA CollectOnce ==
    ASSUME LoadedOnce, NEW answers, Database!Collect(answers)
    PROVE  LoadedOnce'
BY DEF LoadedOnce, Database!Collect

-----------------------------------------------------------------------------
(* Types.                                                                  *)

Phases == {"new", "sessions", "transfers", "jumps", "leave", "loads",
           "drain", "destroy", "deleted", "closed"}

AccountsTypes == GameTypeOK /\ AnswersFit

\* The parts of GameTypeOK.
ConnectionTypes == newSessions \subseteq Sessions /\ gameSessions \subseteq Sessions /\ idle \subseteq Sessions
MatchTypes ==
    /\ account \in [Sessions -> AccountIDs \cup {NoAccount}]
    /\ inMatch \in [Maps -> SUBSET Sessions]
    /\ transfers \in [Maps -> SUBSET Sessions]
    /\ jumping \subseteq Sessions
    /\ leaving \subseteq Sessions
    /\ progress \in [Sessions -> 0 .. MaxProgress]
TableTypes == signedIn \subseteq AccountIDs /\ row \in [AccountIDs -> Players]
StatementTypes == pending \in Seq(Statements) /\ answered \subseteq Statements \X Outcomes /\ AnswersFit
ControlTypes == phase \in Phases /\ map \in Maps /\ todo \subseteq Sessions
HistoryTypes == left \in [AccountIDs -> Players] /\ failed \subseteq AccountIDs /\ stranded \subseteq AccountIDs

LEMMA TypeParts ==
    AccountsTypes <=> /\ ConnectionTypes /\ MatchTypes /\ TableTypes
                      /\ StatementTypes /\ ControlTypes /\ HistoryTypes
BY DEF AccountsTypes, GameTypeOK, ConnectionTypes, MatchTypes, TableTypes, StatementTypes, ControlTypes,
       HistoryTypes, Phases

LEMMA TypePartsNext ==
    AccountsTypes' <=> /\ ConnectionTypes' /\ MatchTypes' /\ TableTypes'
                       /\ StatementTypes' /\ ControlTypes' /\ HistoryTypes'
BY DEF AccountsTypes, GameTypeOK, ConnectionTypes, MatchTypes, TableTypes, StatementTypes, ControlTypes,
       HistoryTypes, Phases

LEMMA PartsKept ==
    /\ ConnectionTypes /\ UNCHANGED connectionVars => ConnectionTypes'
    /\ MatchTypes /\ UNCHANGED matchVars => MatchTypes'
    /\ TableTypes /\ UNCHANGED <<signedIn, row>> => TableTypes'
    /\ StatementTypes /\ UNCHANGED databaseVars => StatementTypes'
    /\ HistoryTypes /\ UNCHANGED historyVars => HistoryTypes'
BY DEF ConnectionTypes, MatchTypes, TableTypes, StatementTypes, HistoryTypes, AnswersFit,
       connectionVars, matchVars, databaseVars, historyVars

LEMMA EnterTypes ==
    ASSUME NEW next \in Phases, NEW m \in Maps, NEW visits \in SUBSET Sessions, Enter(next, m, visits)
    PROVE  ControlTypes'
BY DEF Enter, ControlTypes

LEMMA FirstMap == 1 \in Maps
BY AccountsAssumption DEF Maps

LEMMA IssueTypes ==
    ASSUME StatementTypes, NEW st \in Statements, Database!Issue(st)
    PROVE  StatementTypes'
BY IssueElements DEF StatementTypes, AnswersFit

LEMMA CollectTypes ==
    ASSUME StatementTypes, NEW answers, Database!Collect(answers)
    PROVE  StatementTypes'
BY DEF StatementTypes, AnswersFit, Database!Collect

LEMMA ExecuteTypes ==
    ASSUME StatementTypes, NEW outcome \in Outcomes, Database!Execute(outcome),
           Head(pending).kind = "select" => outcome = Error \/ \E player \in Players : outcome = Row(player),
           Head(pending).kind = "update" => outcome \in {Done, Error}
    PROVE  StatementTypes'
<1>1. /\ pending' \in Seq(Statements) /\ Head(pending) = pending[1] /\ pending[1] \in Statements
      /\ answered' = answered \cup {<<pending[1], outcome>>}
  BY ExecuteElements DEF StatementTypes
<1>2. AnswersFit'
  <2> SUFFICES ASSUME NEW x \in answered'
               PROVE  /\ x[1].kind = "select" => x[2] = Error \/ \E player \in Players : x[2] = Row(player)
                      /\ x[1].kind = "update" => x[2] \in {Done, Error}
    BY DEF AnswersFit
  <2>1. CASE x \in answered
    BY <2>1 DEF StatementTypes, AnswersFit
  <2>2. CASE x = <<pending[1], outcome>>
    <3>1. x[1] = pending[1] /\ x[2] = outcome
      BY <2>2
    <3> QED BY <1>1, <3>1
  <2> QED BY <1>1, <2>1, <2>2
<1> QED BY <1>1, <1>2 DEF StatementTypes

LEMMA SelectIsStatement ==
    ASSUME NEW s \in Sessions, NEW a \in AccountIDs
    PROVE  Select(s, a) \in Statements /\ Select(s, a).kind = "select"
           /\ Select(s, a).session = s /\ Select(s, a).account = a
BY DEF Select, Statements

LEMMA UpdateIsStatement ==
    ASSUME NEW a \in AccountIDs, NEW player \in Players
    PROVE  Update(a, player) \in Statements /\ Update(a, player).kind = "update"
           /\ Update(a, player).account = a /\ Update(a, player).player = player
BY DEF Update, Statements

\* What the worker may answer, and what it does to the row.
LEMMA ExecuteCases ==
    ASSUME StatementTypes, TableTypes, Execute
    PROVE  \E outcome \in Outcomes :
              LET st == pending[1] IN
              /\ Database!Execute(outcome) /\ Head(pending) = st /\ st \in Statements
              /\ \/ /\ st.kind = "select" /\ outcome = Row(row[st.account]) /\ row[st.account] \in Players
                    /\ UNCHANGED <<row, failed>>
                 \/ /\ st.kind = "update" /\ outcome = Done
                    /\ row' = [row EXCEPT ![st.account] = st.player]
                    /\ failed' = failed \ {st.account}
                 \/ /\ outcome = Error
                    /\ failed' = IF st.kind = "update" THEN failed \cup {st.account} ELSE failed
                    /\ UNCHANGED row
<1> DEFINE st == Head(pending)
<1>0. pending \in Seq(Statements) /\ pending # <<>>
  BY DEF Execute, StatementTypes
<1>1. st = pending[1] /\ st \in Statements
  BY <1>0, HeadTailProperties
<1>2. st.account \in AccountIDs
  BY <1>1, StatementFields
<1>3. row[st.account] \in Players
  BY <1>2 DEF TableTypes
<1>4. Row(row[st.account]) \in Outcomes /\ Done \in Outcomes /\ Error \in Outcomes
  BY <1>3 DEF Outcomes
<1>5. \/ /\ st.kind = "select" /\ Database!Execute(Row(row[st.account]))
         /\ UNCHANGED <<row, failed>>
      \/ /\ st.kind = "update" /\ Database!Execute(Done)
         /\ row' = [row EXCEPT ![st.account] = st.player]
         /\ failed' = failed \ {st.account}
      \/ /\ Database!Execute(Error)
         /\ failed' = IF st.kind = "update" THEN failed \cup {st.account} ELSE failed
         /\ UNCHANGED row
  BY Zenon DEF Execute
<1> HIDE DEF st
<1> QED BY <1>1, <1>3, <1>4, <1>5, Zenon DEF st

LEMMA AccountsTypesInitially == GameInit => AccountsTypes
<1> SUFFICES ASSUME GameInit PROVE AccountsTypes
  OBVIOUS
<1> USE DEF GameInit
<1>1. ConnectionTypes
  BY DEF ConnectionTypes
<1>2. MatchTypes
  <2>1. account \in [Sessions -> AccountIDs \cup {NoAccount}]
    OBVIOUS
  <2>2. inMatch \in [Maps -> SUBSET Sessions] /\ transfers \in [Maps -> SUBSET Sessions]
    OBVIOUS
  <2>3. progress \in [Sessions -> 0 .. MaxProgress]
    BY AccountsAssumption
  <2> QED BY <2>1, <2>2, <2>3 DEF MatchTypes
<1>3. TableTypes /\ HistoryTypes
  BY DEF TableTypes, HistoryTypes
<1>4. StatementTypes
  BY EmptySeq DEF StatementTypes, AnswersFit, Database!Init
<1>5. ControlTypes
  BY FirstMap DEF ControlTypes, Phases
<1> QED BY <1>1, <1>2, <1>3, <1>4, <1>5, TypeParts

\* Where the account of a session is one: the matches and the transfers.
AccountsKnown == \A m \in Maps : \A s \in inMatch[m] \cup transfers[m] : account[s] \in AccountIDs

\* The sessions the loops of the main thread have still to visit are where
\* the loop runs.
TodoInv ==
    /\ phase = "sessions" => todo \subseteq gameSessions
    /\ phase \in {"jumps", "leave"} => todo \subseteq inMatch[map]

LEMMA AccountsTypesStep ==
    ASSUME AccountsTypes, AccountsKnown, TodoInv, [GameNext]_gameVars
    PROVE  AccountsTypes'
<1>0. /\ ConnectionTypes /\ MatchTypes /\ TableTypes
      /\ StatementTypes /\ ControlTypes /\ HistoryTypes
  BY TypeParts
<1> USE DEF Phases
<1>1. CASE UNCHANGED gameVars
  BY <1>0, <1>1, PartsKept, TypePartsNext DEF gameVars, ControlTypes
<1>2. ASSUME NEW s \in Sessions, NotifySession(s) \/ TimeOut(s) PROVE AccountsTypes'
  <2>1. ConnectionTypes'
    BY <1>0, <1>2 DEF NotifySession, TimeOut, ConnectionTypes
  <2>2. UNCHANGED <<matchVars, signedIn, row, databaseVars, historyVars, phase, map, todo>>
    BY <1>2 DEF NotifySession, TimeOut
  <2> QED BY <1>0, <2>1, <2>2, PartsKept, TypePartsNext DEF ControlTypes
<1>3. CASE Execute
  <2>0. UNCHANGED <<connectionVars, matchVars, signedIn, phase, map, todo, left, stranded>>
    BY <1>3 DEF Execute
  <2>1. PICK outcome \in Outcomes :
            LET st == pending[1] IN
            /\ Database!Execute(outcome) /\ Head(pending) = st /\ st \in Statements
            /\ \/ /\ st.kind = "select" /\ outcome = Row(row[st.account]) /\ row[st.account] \in Players
                  /\ UNCHANGED <<row, failed>>
               \/ /\ st.kind = "update" /\ outcome = Done
                  /\ row' = [row EXCEPT ![st.account] = st.player]
                  /\ failed' = failed \ {st.account}
               \/ /\ outcome = Error
                  /\ failed' = IF st.kind = "update" THEN failed \cup {st.account} ELSE failed
                  /\ UNCHANGED row
    BY <1>0, <1>3, ExecuteCases
  <2>2. /\ pending[1].account \in AccountIDs
        /\ pending[1].kind = "update" => pending[1].player \in Players
    BY <2>1, StatementFields
  <2>3. StatementTypes'
    <3>1. Head(pending).kind = "select" => outcome = Error \/ \E player \in Players : outcome = Row(player)
      BY <2>1
    <3>2. Head(pending).kind = "update" => outcome \in {Done, Error}
      BY <2>1
    <3> QED BY <1>0, <2>1, <3>1, <3>2, ExecuteTypes
  <2>4. row' \in [AccountIDs -> Players] /\ failed' \subseteq AccountIDs
    BY <1>0, <2>1, <2>2 DEF TableTypes, HistoryTypes
  <2>5. TableTypes' /\ HistoryTypes' /\ ControlTypes'
    BY <1>0, <2>0, <2>4 DEF TableTypes, HistoryTypes, ControlTypes
  <2> QED BY <1>0, <2>0, <2>3, <2>5, PartsKept, TypePartsNext
<1>4. CASE AddNewSessions
  <2>1. ConnectionTypes' /\ gameSessions' \in SUBSET Sessions
    BY <1>0, <1>4 DEF AddNewSessions, ConnectionTypes
  <2>2. ControlTypes'
    BY <1>4, <2>1, FirstMap, EnterTypes DEF AddNewSessions
  <2>3. UNCHANGED <<matchVars, signedIn, row, databaseVars, historyVars>>
    BY <1>4 DEF AddNewSessions
  <2> QED BY <1>0, <2>1, <2>2, <2>3, PartsKept, TypePartsNext
<1>5. ASSUME NEW s \in Sessions, UpdateGameSession(s) PROVE AccountsTypes'
  <2>1. ConnectionTypes'
    BY <1>0, <1>5 DEF UpdateGameSession, ConnectionTypes
  <2>2. ControlTypes'
    BY <1>0, <1>5 DEF UpdateGameSession, Enter, ControlTypes
  <2>3. UNCHANGED <<matchVars, signedIn, row, databaseVars, historyVars>>
    BY <1>5 DEF UpdateGameSession
  <2> QED BY <1>0, <2>1, <2>2, <2>3, PartsKept, TypePartsNext
<1>6. ASSUME NEW s \in Sessions, NEW a \in AccountIDs, StartLoadPlayer(s, a) PROVE AccountsTypes'
  <2>1. ConnectionTypes'
    BY <1>0, <1>6 DEF StartLoadPlayer, ConnectionTypes
  <2>2. ControlTypes'
    BY <1>0, <1>6 DEF StartLoadPlayer, Enter, ControlTypes
  <2>3. UNCHANGED <<matchVars, row, historyVars>>
    BY <1>6 DEF StartLoadPlayer
  <2>4. TableTypes'
    BY <1>0, <1>6 DEF StartLoadPlayer, TableTypes
  <2>5. StatementTypes'
    BY <1>0, <1>6, IssueTypes, SelectIsStatement, PartsKept DEF StartLoadPlayer
  <2> QED BY <1>0, <2>1, <2>2, <2>3, <2>4, <2>5, PartsKept, TypePartsNext
<1>7. CASE EndSessions \/ EndUpdate \/ Stop
  <2>1. ControlTypes'
    BY <1>0, <1>7, FirstMap DEF EndSessions, EndUpdate, Stop, Enter, ControlTypes
  <2>2. UNCHANGED <<connectionVars, matchVars, signedIn, row, databaseVars, historyVars>>
    BY <1>7 DEF EndSessions, EndUpdate, Stop
  <2> QED BY <1>0, <2>1, <2>2, PartsKept, TypePartsNext
<1>8. CASE UpdateTransfers
  <2>1. inMatch' \in [Maps -> SUBSET Sessions] /\ transfers' \in [Maps -> SUBSET Sessions]
    BY <1>0, <1>8 DEF UpdateTransfers, MatchTypes
  <2>2. MatchTypes'
    BY <1>0, <1>8, <2>1 DEF UpdateTransfers, MatchTypes
  <2>3. ControlTypes'
    <3>1. jumping \cap inMatch'[map] \in SUBSET Sessions
      BY <1>0 DEF MatchTypes
    <3> QED BY <1>0, <1>8, <3>1 DEF UpdateTransfers, Enter, ControlTypes
  <2>4. UNCHANGED <<connectionVars, signedIn, row, databaseVars, historyVars>>
    BY <1>8 DEF UpdateTransfers
  <2> QED BY <1>0, <2>2, <2>3, <2>4, PartsKept, TypePartsNext
<1>9. ASSUME NEW s \in Sessions, UpdateJump(s) PROVE AccountsTypes'
  <2>1. inMatch' \in [Maps -> SUBSET Sessions] /\ transfers' \in [Maps -> SUBSET Sessions]
    BY <1>0, <1>9 DEF UpdateJump, MatchTypes
  <2>2. MatchTypes'
    BY <1>0, <1>9, <2>1 DEF UpdateJump, MatchTypes
  <2>3. ControlTypes'
    BY <1>0, <1>9 DEF UpdateJump, Enter, ControlTypes
  <2>4. UNCHANGED <<connectionVars, signedIn, row, databaseVars, historyVars>>
    BY <1>9 DEF UpdateJump
  <2> QED BY <1>0, <2>2, <2>3, <2>4, PartsKept, TypePartsNext
<1>10. CASE UpdateAttacks
  <2>1. PICK killed \in SUBSET inMatch[map], hit \in SUBSET inMatch[map] :
            /\ hit \cap killed = {}
            /\ \A s \in hit : progress[s] < MaxProgress
            /\ progress' = [s \in Sessions |->
                   CASE s \in hit -> progress[s] + 1 [] s \in killed -> 0 [] OTHER -> progress[s]]
            /\ inMatch' = [inMatch EXCEPT ![map] = @ \ killed]
            /\ stranded' = stranded \cup {account[s] : s \in killed}
            /\ account' = [s \in Sessions |-> IF s \in killed THEN NoAccount ELSE account[s]]
            /\ jumping' = jumping \ killed
            /\ leaving' = leaving \ killed
            /\ Enter("leave", map, inMatch'[map])
    BY <1>10 DEF UpdateAttacks
  <2>2. inMatch' \in [Maps -> SUBSET Sessions] /\ inMatch'[map] \in SUBSET Sessions
    BY <1>0, <2>1 DEF MatchTypes, ControlTypes
  <2>3. progress' \in [Sessions -> 0 .. MaxProgress]
    <3>1. \A s \in Sessions : progress[s] \in 0 .. MaxProgress
      BY <1>0 DEF MatchTypes
    <3>2. \A s \in Sessions : (CASE s \in hit -> progress[s] + 1 [] s \in killed -> 0 [] OTHER -> progress[s])
                              \in 0 .. MaxProgress
      BY <2>1, <3>1, AccountsAssumption
    <3> QED BY <2>1, <3>2
  <2>4. account' \in [Sessions -> AccountIDs \cup {NoAccount}]
    BY <1>0, <2>1 DEF MatchTypes
  <2>5. stranded' \subseteq AccountIDs
    BY <1>0, <2>1 DEF HistoryTypes, AccountsKnown, ControlTypes
  <2>6. UNCHANGED <<connectionVars, transfers, signedIn, row, databaseVars, left, failed>>
    BY <1>10 DEF UpdateAttacks
  <2>7. MatchTypes'
    BY <1>0, <2>1, <2>2, <2>3, <2>4, <2>6 DEF MatchTypes
  <2>8. ControlTypes'
    BY <1>0, <2>1, <2>2 DEF Enter, ControlTypes
  <2>9. HistoryTypes'
    BY <1>0, <2>5, <2>6 DEF HistoryTypes
  <2> QED BY <1>0, <2>6, <2>7, <2>8, <2>9, PartsKept, TypePartsNext
<1>11. ASSUME NEW s \in Sessions, StayInMatch(s) PROVE AccountsTypes'
  <2>1. jumping' \subseteq Sessions /\ leaving' \subseteq Sessions
    BY <1>0, <1>11 DEF StayInMatch, HandleMessages, MatchTypes
  <2>2. UNCHANGED <<connectionVars, account, inMatch, transfers, progress, signedIn, row, databaseVars, historyVars>>
    BY <1>11 DEF StayInMatch
  <2>3. MatchTypes'
    BY <1>0, <2>1, <2>2 DEF MatchTypes
  <2>4. ControlTypes'
    BY <1>0, <1>11 DEF StayInMatch, Enter, ControlTypes
  <2> QED BY <1>0, <2>2, <2>3, <2>4, PartsKept, TypePartsNext
<1>12. ASSUME NEW s \in Sessions, LeaveMatch(s) PROVE AccountsTypes'
  <2> DEFINE player == [map |-> map, progress |-> progress[s]]
  <2>1. account[s] \in AccountIDs
    BY <1>0, <1>12 DEF LeaveMatch, TodoInv, AccountsKnown, ControlTypes
  <2>2. player \in Players
    BY <1>0 DEF Players, ControlTypes, MatchTypes
  <2>3. Database!Issue(Update(account[s], player)) /\ left' = [left EXCEPT ![account[s]] = player]
    BY <1>12 DEF LeaveMatch
  <2> HIDE DEF player
  <2>4. StatementTypes'
    BY <1>0, <2>1, <2>2, <2>3, IssueTypes, UpdateIsStatement
  <2>5. left' \in [AccountIDs -> Players]
    BY <1>0, <2>2, <2>3 DEF HistoryTypes
  <2>6. UNCHANGED <<connectionVars, transfers, row, failed, stranded>>
    BY <1>12 DEF LeaveMatch
  <2>7. /\ inMatch' = [inMatch EXCEPT ![map] = @ \ {s}]
        /\ signedIn' = signedIn \ {account[s]}
        /\ account' = [account EXCEPT ![s] = NoAccount]
        /\ progress' = [progress EXCEPT ![s] = 0]
        /\ jumping' = jumping \ {s}
        /\ leaving' = leaving \ {s}
        /\ Enter(phase, map, todo \ {s})
    BY <1>12 DEF LeaveMatch
  <2>8. MatchTypes'
    <3>1. inMatch' \in [Maps -> SUBSET Sessions]
      BY <1>0, <2>7 DEF MatchTypes
    <3>2. account' \in [Sessions -> AccountIDs \cup {NoAccount}]
      BY <1>0, <2>7 DEF MatchTypes
    <3>3. progress' \in [Sessions -> 0 .. MaxProgress]
      BY <1>0, <2>7, AccountsAssumption DEF MatchTypes
    <3> QED BY <1>0, <2>6, <2>7, <3>1, <3>2, <3>3 DEF MatchTypes
  <2>9. ControlTypes' /\ TableTypes' /\ HistoryTypes'
    BY <1>0, <2>5, <2>6, <2>7 DEF Enter, ControlTypes, TableTypes, HistoryTypes
  <2> QED BY <1>0, <2>4, <2>6, <2>8, <2>9, PartsKept, TypePartsNext
<1>13. CASE EndMatch
  <2>1. StatementTypes'
    BY <1>0, <1>13, CollectTypes DEF EndMatch
  <2>2. ControlTypes'
    <3>1. CASE map < MapCount
      BY <1>0, <1>13, <3>1, AccountsAssumption DEF EndMatch, Enter, ControlTypes, Maps
    <3>2. CASE ~(map < MapCount)
      <4>1. SessionsOf({answer[1] : answer \in answered'}) \subseteq Sessions
        BY <2>1, StatementFields DEF SessionsOf, StatementTypes
      <4> QED BY <1>13, <3>2, <4>1, FirstMap DEF EndMatch, Enter, ControlTypes
    <3> QED BY <3>1, <3>2
  <2>3. UNCHANGED <<connectionVars, matchVars, signedIn, row, historyVars>>
    BY <1>13 DEF EndMatch
  <2> QED BY <1>0, <2>1, <2>2, <2>3, PartsKept, TypePartsNext
<1>14. ASSUME NEW answer \in answered, EndLoadPlayer(answer) PROVE AccountsTypes'
  <2> DEFINE s == answer[1].session
             a == answer[1].account
             outcome == answer[2]
  <2>1. s \in Sessions /\ a \in AccountIDs /\ answer[1].kind = "select"
    <3>1. answer[1] \in Statements /\ answer[1].kind = "select"
      BY <1>0, <1>14 DEF StatementTypes, EndLoadPlayer
    <3> QED BY <3>1, StatementFields
  <2>2. outcome = Error \/ \E player \in Players : outcome = Row(player)
    BY <1>0, <2>1 DEF StatementTypes, AnswersFit
  <2>3. /\ IF outcome.is = "error"
           THEN stranded' = stranded \cup {a} /\ UNCHANGED <<account, inMatch, progress>>
           ELSE /\ inMatch' = [inMatch EXCEPT ![outcome.player.map] = @ \cup {s}]
                /\ progress' = [progress EXCEPT ![s] = outcome.player.progress]
                /\ account' = [account EXCEPT ![s] = a]
                /\ UNCHANGED stranded
        /\ Enter(phase, map, todo \ {s})
        /\ Database!Collect({answer})
        /\ UNCHANGED <<connectionVars, transfers, jumping, leaving, signedIn, row, left, failed>>
    BY <1>14 DEF EndLoadPlayer
  <2> HIDE DEF s, a, outcome
  <2>4. StatementTypes'
    BY <1>0, <2>3, CollectTypes
  <2>5. ControlTypes'
    BY <1>0, <2>3 DEF Enter, ControlTypes
  <2>6. CASE outcome.is = "error"
    <3>1. MatchTypes' /\ HistoryTypes' /\ TableTypes'
      BY <1>0, <2>1, <2>3, <2>6 DEF MatchTypes, HistoryTypes, TableTypes
    <3> QED BY <1>0, <2>3, <2>4, <2>5, <3>1, PartsKept, TypePartsNext
  <2>7. CASE outcome.is # "error"
    <3>1. PICK player \in Players : outcome = Row(player)
      BY <2>2, <2>7 DEF Error
    <3>2. outcome.player \in Players
      BY <3>1 DEF Row
    <3>3. outcome.player.map \in Maps /\ outcome.player.progress \in 0 .. MaxProgress
      BY <3>2, PlayerFields
    <3>4. inMatch' \in [Maps -> SUBSET Sessions]
      BY <1>0, <2>1, <2>3, <2>7, <3>3 DEF MatchTypes
    <3>5. progress' \in [Sessions -> 0 .. MaxProgress]
      BY <1>0, <2>1, <2>3, <2>7, <3>3 DEF MatchTypes
    <3>6. account' \in [Sessions -> AccountIDs \cup {NoAccount}]
      BY <1>0, <2>1, <2>3, <2>7 DEF MatchTypes
    <3>7. MatchTypes' /\ HistoryTypes' /\ TableTypes'
      BY <1>0, <2>3, <2>7, <3>4, <3>5, <3>6 DEF MatchTypes, HistoryTypes, TableTypes
    <3> QED BY <1>0, <2>3, <2>4, <2>5, <3>7, PartsKept, TypePartsNext
  <2> QED BY <2>6, <2>7
<1>15. CASE DeleteGame
  <2>1. ConnectionTypes' /\ ControlTypes'
    BY <1>0, <1>15, FirstMap DEF DeleteGame, ConnectionTypes, Enter, ControlTypes
  <2>2. UNCHANGED <<matchVars, signedIn, row, databaseVars, historyVars>>
    BY <1>15 DEF DeleteGame
  <2> QED BY <1>0, <2>1, <2>2, PartsKept, TypePartsNext
<1>16. CASE DeleteMatch
  <2>1. StatementTypes'
    BY <1>0, <1>16, CollectTypes DEF DeleteMatch
  <2>2. UNCHANGED <<gameSessions, idle, account, jumping, leaving, progress, signedIn, row, historyVars>>
    BY <1>16 DEF DeleteMatch
  <2>3. inMatch' \in [Maps -> SUBSET Sessions] /\ transfers' \in [Maps -> SUBSET Sessions]
    BY <1>0, <1>16 DEF DeleteMatch, MatchTypes
  <2>4. MatchTypes'
    BY <1>0, <2>2, <2>3 DEF MatchTypes
  <2>5. ConnectionTypes'
    BY <1>0, <1>16, <2>2 DEF DeleteMatch, ConnectionTypes
  <2>6. ControlTypes'
    BY <1>0, <1>16, FirstMap, AccountsAssumption DEF DeleteMatch, Enter, ControlTypes, Maps
  <2> QED BY <1>0, <2>1, <2>2, <2>4, <2>5, <2>6, PartsKept, TypePartsNext
<1>17. CASE CloseDatabase
  <2>1. StatementTypes'
    <3>1. PICK taken \in {0, 1} : taken <= Len(pending) /\ pending' = SubSeq(pending, 1, taken)
      BY <1>17 DEF CloseDatabase, Database!Drop
    <3>2. \A i \in 1 .. taken : pending[i] \in Statements
      BY <1>0, <3>1, ElementOfSeq, LenProperties DEF StatementTypes
    <3>3. pending' \in Seq(Statements)
      BY <3>1, <3>2, SubSeqProperties
    <3>4. answered' = answered
      BY <1>17 DEF CloseDatabase, Database!Drop
    <3> QED BY <1>0, <3>3, <3>4 DEF StatementTypes, AnswersFit
  <2>2. ControlTypes'
    BY <1>17, FirstMap DEF CloseDatabase, Enter, ControlTypes
  <2>3. UNCHANGED <<connectionVars, matchVars, signedIn, row, historyVars>>
    BY <1>17 DEF CloseDatabase
  <2> QED BY <1>0, <2>1, <2>2, <2>3, PartsKept, TypePartsNext
<1>18. CASE GameUpdate
  BY <1>4, <1>5, <1>6, <1>7, <1>8, <1>9, <1>10, <1>11, <1>12, <1>13, <1>14, <1>18 DEF GameUpdate
<1> QED BY <1>1, <1>2, <1>3, <1>7, <1>15, <1>16, <1>17, <1>18 DEF GameNext, Shutdown

-----------------------------------------------------------------------------
(* Where the sessions are, and which accounts they play.                   *)

Ended == {"destroy", "deleted", "closed"}

\* The end of the game: what is left of the statements.
ShutdownInv ==
    /\ phase \in Ended => LoadStatements = {}
    /\ phase = "destroy" => \A i \in 1 .. Len(pending) : pending[i].player.map >= map
    /\ phase \in {"deleted", "closed"} => pending = <<>>

\* A session is in one place.
PlacesApart ==
    /\ newSessions \cap gameSessions = {}
    /\ \A st \in LoadStatements : st.session \notin newSessions \cup gameSessions \cup Playing
    /\ \A st1, st2 \in LoadStatements : st1.session = st2.session => st1 = st2
    /\ Playing \cap (newSessions \cup gameSessions) = {}
    /\ \A m, n \in Maps : inMatch[m] \cap transfers[n] = {}
    /\ \A m, n \in Maps : m # n => inMatch[m] \cap inMatch[n] = {} /\ transfers[m] \cap transfers[n] = {}

\* An account is loaded or played once, or stranded, while it is signed in.
AccountsApart ==
    /\ \A s \in Playing : account[s] \in signedIn \ stranded
    /\ \A s1, s2 \in Playing : account[s1] = account[s2] => s1 = s2
    /\ \A st \in LoadStatements :
        /\ st.account \in signedIn \ stranded
        /\ \A s \in Playing : account[s] # st.account
    /\ \A st1, st2 \in LoadStatements : st1.account = st2.account => st1 = st2
    /\ stranded \subseteq signedIn

\* It is signed in for no other reason.
SignedInIsUsed ==
    phase \notin Ended =>
        \A a \in signedIn :
            \/ a \in stranded
            \/ \E s \in Playing : account[s] = a
            \/ \E st \in LoadStatements : st.account = a

PlaceInv ==
    /\ AccountsTypes /\ LoadedOnce /\ TodoInv /\ ShutdownInv
    /\ PlacesApart /\ AccountsApart /\ SignedInIsUsed

LEMMA PlayingIs ==
    /\ \A s : s \in Playing <=> \E m \in Maps : s \in inMatch[m] \/ s \in transfers[m]
    /\ \A s : s \in Playing' <=> \E m \in Maps : s \in inMatch'[m] \/ s \in transfers'[m]
BY DEF Playing

LEMMA AccountsAreKnown ==
    ASSUME AccountsTypes, AccountsApart
    PROVE  AccountsKnown
BY PlayingIs DEF AccountsTypes, GameTypeOK, AccountsApart, AccountsKnown

LEMMA LoadFields ==
    ASSUME AccountsTypes
    PROVE  \A st \in LoadStatements :
              /\ st \in Statements /\ st.kind = "select" /\ st.session \in Sessions /\ st.account \in AccountIDs
              /\ st = Select(st.session, st.account)
<1>1. pending \in Seq(Statements) /\ answered \subseteq Statements \X Outcomes
  BY DEF AccountsTypes, GameTypeOK
<1>2. \A st \in LoadStatements : st \in Statements /\ st.kind = "select"
  BY <1>1, LoadsAre, ElementOfSeq DEF IsPending, IsAnswered
<1> QED BY <1>2, StatementFields

\* What every step does to the statements that load a player.
LEMMA LoadsStep ==
    ASSUME PlaceInv, [GameNext]_gameVars
    PROVE  \/ LoadStatements' = LoadStatements /\ LoadedOnce'
           \/ \E s \in Sessions, a \in AccountIDs :
                /\ StartLoadPlayer(s, a) /\ a \notin signedIn
                /\ LoadStatements' = LoadStatements \cup {Select(s, a)} /\ LoadedOnce'
           \/ \E answer \in answered :
                /\ EndLoadPlayer(answer) /\ answer[1] \in LoadStatements
                /\ LoadStatements' = LoadStatements \ {answer[1]} /\ LoadedOnce'
<1>0. pending \in Seq(Statements) /\ answered \subseteq Statements \X Outcomes /\ LoadedOnce
  BY DEF PlaceInv, AccountsTypes, GameTypeOK
<1> DEFINE Same == LoadStatements' = LoadStatements /\ LoadedOnce'
<1>1. ASSUME UNCHANGED databaseVars PROVE Same
  BY <1>0, <1>1 DEF databaseVars, LoadStatements, LoadedOnce, AnsweredStatements, Range
<1>2. CASE Execute
  <2>1. \E outcome : Database!Execute(outcome)
    BY <1>2 DEF Execute
  <2> QED BY <1>0, <2>1, ExecuteLoads, ExecuteOnce
<1>3. ASSUME NEW s \in Sessions, NEW a \in AccountIDs, StartLoadPlayer(s, a)
      PROVE  \/ Same
             \/ /\ a \notin signedIn
                /\ LoadStatements' = LoadStatements \cup {Select(s, a)} /\ LoadedOnce'
  <2>1. CASE a \in signedIn
    BY <1>1, <1>3, <2>1 DEF StartLoadPlayer
  <2>2. CASE a \notin signedIn
    <3>1. Database!Issue(Select(s, a)) /\ s \in gameSessions
      BY <1>3, <2>2 DEF StartLoadPlayer, PlaceInv, TodoInv
    <3>2. Select(s, a) \in Statements /\ Select(s, a).kind = "select" /\ Select(s, a).session = s
      BY SelectIsStatement
    <3>3. Select(s, a) \notin LoadStatements
      BY <3>1, <3>2 DEF PlaceInv, PlacesApart
    <3> QED BY <1>0, <2>2, <3>1, <3>2, <3>3, IssueLoads, IssueOnce
  <2> QED BY <2>1, <2>2
<1>4. ASSUME NEW s \in Sessions, LeaveMatch(s) PROVE Same
  <2> DEFINE player == [map |-> map, progress |-> progress[s]]
  <2>1. account[s] \in AccountIDs /\ player \in Players
    BY <1>4, AccountsAreKnown
       DEF LeaveMatch, PlaceInv, TodoInv, AccountsKnown, AccountsTypes, GameTypeOK, Players
  <2>2. Database!Issue(Update(account[s], player))
    BY <1>4 DEF LeaveMatch
  <2> HIDE DEF player
  <2>3. Update(account[s], player) \in Statements /\ Update(account[s], player).kind = "update"
    BY <2>1, UpdateIsStatement
  <2> QED BY <1>0, <2>2, <2>3, IssueLoads, IssueOnce
<1>5. ASSUME EndMatch \/ DeleteMatch PROVE Same
  <2>1. Database!Collect(SavesAnswered(map)) /\ \A x \in SavesAnswered(map) : x[1].kind = "update"
    BY <1>5 DEF EndMatch, DeleteMatch, SavesAnswered
  <2> QED BY <1>0, <2>1, CollectSavesLoads, CollectOnce
<1>6. ASSUME NEW answer \in answered, EndLoadPlayer(answer)
      PROVE  /\ answer[1] \in LoadStatements
             /\ LoadStatements' = LoadStatements \ {answer[1]} /\ LoadedOnce'
  <2>1. answer[1].kind = "select" /\ Database!Collect({answer})
    BY <1>6 DEF EndLoadPlayer
  <2>2. answer[1] \in LoadStatements
    BY <1>0, <2>1, LoadsAre DEF IsAnswered
  <2> QED BY <1>0, <2>1, <2>2, CollectLoadLoads, CollectOnce
<1>7. ASSUME CloseDatabase PROVE Same
  <2>1. pending = <<>> /\ answered' = answered
    BY <1>7 DEF CloseDatabase, PlaceInv, ShutdownInv, Database!Drop
  <2>2. PICK taken \in {0, 1} : taken <= Len(pending) /\ pending' = SubSeq(pending, 1, taken)
    BY <1>7 DEF CloseDatabase, Database!Drop
  <2>3. taken = 0
    BY <2>1, <2>2
  <2>4. pending' = <<>>
    BY <2>2, <2>3, SubSeqEmpty
  <2> QED BY <1>1, <2>1, <2>4 DEF databaseVars
<1>8. ASSUME \/ UNCHANGED gameVars \/ AddNewSessions \/ EndSessions \/ UpdateTransfers \/ UpdateAttacks
             \/ EndUpdate \/ Stop \/ DeleteGame
             \/ \E s \in Sessions : NotifySession(s) \/ TimeOut(s) \/ UpdateGameSession(s) \/ UpdateJump(s)
                                    \/ StayInMatch(s)
      PROVE  Same
  <2>1. UNCHANGED databaseVars
    BY <1>8 DEF gameVars, AddNewSessions, EndSessions, UpdateTransfers, UpdateAttacks, EndUpdate, Stop,
                DeleteGame, NotifySession, TimeOut, UpdateGameSession, UpdateJump, StayInMatch
  <2> QED BY <1>1, <2>1
<1> QED BY <1>2, <1>3, <1>4, <1>5, <1>6, <1>7, <1>8 DEF GameNext, GameUpdate, Shutdown

\* Sessions that enter a match or jump go on playing.
LEMMA MovesKeepPlaying ==
    ASSUME PlaceInv, UpdateTransfers \/ \E s \in Sessions : UpdateJump(s)
    PROVE  Playing' = Playing
<1>0. /\ inMatch \in [Maps -> SUBSET Sessions] /\ transfers \in [Maps -> SUBSET Sessions]
      /\ map \in Maps
  BY DEF PlaceInv, AccountsTypes, GameTypeOK
<1>1. CASE UpdateTransfers
  <2>1. /\ inMatch' = [inMatch EXCEPT ![map] = @ \cup transfers[map]]
        /\ transfers' = [transfers EXCEPT ![map] = {}]
    BY <1>1 DEF UpdateTransfers
  <2>2. \A m \in Maps : /\ inMatch'[m] = IF m = map THEN inMatch[map] \cup transfers[map] ELSE inMatch[m]
                        /\ transfers'[m] = IF m = map THEN {} ELSE transfers[m]
    BY <1>0, <2>1
  <2>3. \A s : s \in Playing' <=> s \in Playing
    BY <1>0, <2>2, PlayingIs
  <2> QED BY <2>3, SameElements
<1>2. ASSUME NEW s \in Sessions, UpdateJump(s) PROVE Playing' = Playing
  <2>1. CASE UNCHANGED <<inMatch, transfers>>
    BY <2>1 DEF Playing
  <2>2. CASE ~UNCHANGED <<inMatch, transfers>>
    <3>1. s \in inMatch[map] /\ inMatch' = [inMatch EXCEPT ![map] = @ \ {s}]
      BY <1>2, <2>2 DEF UpdateJump, PlaceInv, TodoInv
    <3>2. PICK destination \in Maps : transfers' = [transfers EXCEPT ![destination] = @ \cup {s}]
      BY <1>2, <2>2 DEF UpdateJump
    <3>3. \A m \in Maps : /\ inMatch'[m] = inMatch[m] \ (IF m = map THEN {s} ELSE {})
                          /\ transfers'[m] = transfers[m] \cup (IF m = destination THEN {s} ELSE {})
      BY <1>0, <3>1, <3>2
    <3>4. s \in Playing /\ s \in Playing'
      BY <1>0, <3>1, <3>3, PlayingIs
    <3>5. \A x : x # s => (x \in Playing' <=> x \in Playing)
      BY <3>3, PlayingIs
    <3> QED BY <3>4, <3>5, SameElements
  <2> QED BY <2>1, <2>2
<1> QED BY <1>1, <1>2

\* Sessions that only leave places stay apart.
LEMMA PlacesShrink ==
    ASSUME PlacesApart, newSessions' \subseteq newSessions, gameSessions' \subseteq gameSessions,
           \A m \in Maps : inMatch'[m] \subseteq inMatch[m] /\ transfers'[m] \subseteq transfers[m],
           LoadStatements' \subseteq LoadStatements
    PROVE  PlacesApart'
<1>1. Playing' \subseteq Playing
  BY PlayingIs
<1> QED BY <1>1 DEF PlacesApart

\* Sessions that change their place among the matches.
LEMMA PlacesStep ==
    ASSUME PlaceInv, [GameNext]_gameVars
    PROVE  PlacesApart'
<1> USE DEF PlaceInv
<1>0. /\ inMatch \in [Maps -> SUBSET Sessions] /\ transfers \in [Maps -> SUBSET Sessions]
      /\ map \in Maps
  BY DEF AccountsTypes, GameTypeOK
<1>1. CASE LoadStatements' = LoadStatements
  <2>1. CASE UNCHANGED gameVars \/ EndSessions \/ EndUpdate \/ Stop \/ EndMatch \/ Execute \/ CloseDatabase
             \/ DeleteGame \/ \E s \in Sessions : TimeOut(s) \/ UpdateGameSession(s) \/ StayInMatch(s)
    <3>1. /\ newSessions' = newSessions /\ gameSessions' \subseteq gameSessions
          /\ UNCHANGED <<inMatch, transfers>>
      BY <2>1 DEF gameVars, EndSessions, EndUpdate, Stop, EndMatch, Execute, CloseDatabase, DeleteGame,
                  TimeOut, UpdateGameSession, StayInMatch, connectionVars, matchVars
    <3> QED BY <1>1, <3>1, PlacesShrink
  <2>2. ASSUME NEW s \in Sessions, NotifySession(s) PROVE PlacesApart'
    <3>1. s \notin newSessions \cup gameSessions \cup Loading \cup Playing
      BY <2>2 DEF NotifySession, Connected
    <3>2. \A st \in LoadStatements : st.session # s
      BY <3>1, LoadingIs
    <3>3. /\ newSessions' = newSessions \cup {s} /\ gameSessions' = gameSessions
          /\ UNCHANGED <<inMatch, transfers>> /\ Playing' = Playing
      BY <2>2 DEF NotifySession, matchVars, Playing
    <3> QED BY <1>1, <3>1, <3>2, <3>3 DEF PlacesApart
  <2>3. CASE AddNewSessions
    <3>1. /\ newSessions' = {} /\ gameSessions' = gameSessions \cup newSessions
          /\ UNCHANGED <<inMatch, transfers>> /\ Playing' = Playing
      BY <2>3 DEF AddNewSessions, matchVars, Playing
    <3> QED BY <1>1, <3>1 DEF PlacesApart
  <2>4. ASSUME NEW s \in Sessions, NEW a \in AccountIDs, StartLoadPlayer(s, a) PROVE PlacesApart'
    <3>1. /\ newSessions' = newSessions /\ gameSessions' \subseteq gameSessions
          /\ UNCHANGED <<inMatch, transfers>>
      BY <2>4 DEF StartLoadPlayer, matchVars
    <3> QED BY <1>1, <3>1, PlacesShrink
  <2>5. CASE UpdateTransfers
    <3>1. /\ inMatch' = [inMatch EXCEPT ![map] = @ \cup transfers[map]]
          /\ transfers' = [transfers EXCEPT ![map] = {}]
          /\ UNCHANGED <<newSessions, gameSessions>>
      BY <2>5 DEF UpdateTransfers, connectionVars
    <3>2. \A m \in Maps : /\ inMatch'[m] = IF m = map THEN inMatch[map] \cup transfers[map] ELSE inMatch[m]
                          /\ transfers'[m] = IF m = map THEN {} ELSE transfers[m]
      BY <1>0, <3>1
    <3>3. Playing' = Playing
      BY <2>5, MovesKeepPlaying
    <3>4. \A m, n \in Maps : inMatch'[m] \cap transfers'[n] = {}
      BY <3>2 DEF PlacesApart
    <3>5. \A m, n \in Maps : m # n => inMatch'[m] \cap inMatch'[n] = {} /\ transfers'[m] \cap transfers'[n] = {}
      BY <3>2 DEF PlacesApart
    <3> QED BY <1>1, <3>1, <3>3, <3>4, <3>5 DEF PlacesApart
  <2>6. ASSUME NEW s \in Sessions, UpdateJump(s) PROVE PlacesApart'
    <3>1. UNCHANGED <<newSessions, gameSessions>> /\ s \in inMatch[map]
      BY <2>6 DEF UpdateJump, connectionVars, TodoInv
    <3>2. CASE UNCHANGED <<inMatch, transfers>>
      BY <1>1, <3>1, <3>2, PlacesShrink
    <3>3. CASE ~UNCHANGED <<inMatch, transfers>>
      <4>1. inMatch' = [inMatch EXCEPT ![map] = @ \ {s}]
        BY <2>6, <3>3 DEF UpdateJump
      <4>2. PICK destination \in Maps : transfers' = [transfers EXCEPT ![destination] = @ \cup {s}]
        BY <2>6, <3>3 DEF UpdateJump
      <4>3. \A m \in Maps : /\ inMatch'[m] = inMatch[m] \ (IF m = map THEN {s} ELSE {})
                            /\ transfers'[m] = transfers[m] \cup (IF m = destination THEN {s} ELSE {})
        BY <1>0, <4>1, <4>2
      <4>4. \A m \in Maps : s \in inMatch[m] => m = map
        BY <1>0, <3>1 DEF PlacesApart
      <4>5. \A m \in Maps : s \notin transfers[m]
        BY <1>0, <3>1 DEF PlacesApart
      <4>6. Playing' = Playing
        BY <2>6, MovesKeepPlaying
      <4>7. \A m, n \in Maps : inMatch'[m] \cap transfers'[n] = {}
        BY <4>3, <4>4 DEF PlacesApart
      <4>8. \A m, n \in Maps : m # n => inMatch'[m] \cap inMatch'[n] = {}
        BY <4>3 DEF PlacesApart
      <4>9. \A m, n \in Maps : m # n => transfers'[m] \cap transfers'[n] = {}
        BY <4>3, <4>5 DEF PlacesApart
      <4> QED BY <1>1, <3>1, <4>6, <4>7, <4>8, <4>9 DEF PlacesApart
    <3> QED BY <3>2, <3>3
  <2>7. CASE UpdateAttacks
    <3>1. /\ UNCHANGED <<newSessions, gameSessions, transfers>>
          /\ \E killed : inMatch' = [inMatch EXCEPT ![map] = @ \ killed]
      BY <2>7 DEF UpdateAttacks, connectionVars
    <3>2. \A m \in Maps : inMatch'[m] \subseteq inMatch[m]
      BY <1>0, <3>1
    <3> QED BY <1>1, <3>1, <3>2, PlacesShrink
  <2>8. ASSUME NEW s \in Sessions, LeaveMatch(s) PROVE PlacesApart'
    <3>1. /\ UNCHANGED <<newSessions, gameSessions, transfers>>
          /\ inMatch' = [inMatch EXCEPT ![map] = @ \ {s}]
      BY <2>8 DEF LeaveMatch, connectionVars
    <3>2. \A m \in Maps : inMatch'[m] \subseteq inMatch[m]
      BY <1>0, <3>1
    <3> QED BY <1>1, <3>1, <3>2, PlacesShrink
  <2>9. CASE DeleteMatch
    <3>1. /\ gameSessions' = gameSessions /\ newSessions' \subseteq newSessions
          /\ inMatch' = [inMatch EXCEPT ![map] = {}]
          /\ transfers' = [transfers EXCEPT ![map] = {}]
      BY <2>9 DEF DeleteMatch
    <3>2. \A m \in Maps : inMatch'[m] \subseteq inMatch[m] /\ transfers'[m] \subseteq transfers[m]
      BY <1>0, <3>1
    <3> QED BY <1>1, <3>1, <3>2, PlacesShrink
  <2>10. ASSUME NEW answer \in answered, EndLoadPlayer(answer) PROVE PlacesApart'
    <3>1. answer[1] \in LoadStatements /\ LoadStatements' = LoadStatements \ {answer[1]}
      <4>1. pending \in Seq(Statements) /\ answer[1].kind = "select" /\ Database!Collect({answer})
        BY <2>10 DEF EndLoadPlayer, AccountsTypes, GameTypeOK
      <4> QED BY <2>10, <4>1, LoadsAre, CollectLoadLoads DEF IsAnswered
    <3> QED BY <1>1, <3>1
  <2> QED BY <2>1, <2>2, <2>3, <2>4, <2>5, <2>6, <2>7, <2>8, <2>9, <2>10 DEF GameNext, GameUpdate, Shutdown
<1>2. ASSUME NEW s \in Sessions, NEW a \in AccountIDs, StartLoadPlayer(s, a),
             LoadStatements' = LoadStatements \cup {Select(s, a)}
      PROVE  PlacesApart'
  <2>1. /\ newSessions' = newSessions /\ gameSessions' = gameSessions \ {s} /\ s \in gameSessions
        /\ UNCHANGED <<inMatch, transfers>> /\ Playing' = Playing
    BY <1>2 DEF StartLoadPlayer, matchVars, Playing, TodoInv
  <2>2. Select(s, a).session = s
    BY SelectIsStatement
  <2> QED BY <1>2, <2>1, <2>2 DEF PlacesApart
<1>3. ASSUME NEW answer \in answered, EndLoadPlayer(answer), answer[1] \in LoadStatements,
             LoadStatements' = LoadStatements \ {answer[1]}
      PROVE  PlacesApart'
  <2> DEFINE s == answer[1].session
  <2>1. UNCHANGED <<newSessions, gameSessions, transfers>>
    BY <1>3 DEF EndLoadPlayer, connectionVars
  <2>2. s \notin newSessions \cup gameSessions \cup Playing
    BY <1>3 DEF PlacesApart
  <2>3. \A st \in LoadStatements' : st.session # s /\ st \in LoadStatements
    BY <1>3 DEF PlacesApart
  <2>4. CASE inMatch' = inMatch
    BY <1>3, <2>1, <2>4, PlacesShrink
  <2>5. CASE inMatch' # inMatch
    <3>1. inMatch' = [inMatch EXCEPT ![answer[2].player.map] = @ \cup {s}]
      BY <1>3, <2>5 DEF EndLoadPlayer
    <3> DEFINE to == answer[2].player.map
    <3> HIDE DEF s, to
    <3>2. \A m \in Maps : inMatch'[m] = inMatch[m] \cup (IF m = to THEN {s} ELSE {})
      BY <1>0, <3>1 DEF to
    <3>3. \A m \in Maps : s \notin inMatch[m] /\ s \notin transfers[m]
      BY <2>2, PlayingIs
    <3>4. Playing' \subseteq Playing \cup {s}
      BY <2>1, <3>2, PlayingIs
    <3>5. \A m, n \in Maps : inMatch'[m] \cap transfers'[n] = {}
      BY <2>1, <3>2, <3>3 DEF PlacesApart
    <3>6. \A m, n \in Maps : m # n => inMatch'[m] \cap inMatch'[n] = {} /\ transfers'[m] \cap transfers'[n] = {}
      BY <2>1, <3>2, <3>3 DEF PlacesApart
    <3> QED BY <2>1, <2>2, <2>3, <3>4, <3>5, <3>6 DEF PlacesApart
  <2> QED BY <2>4, <2>5
<1> QED BY <1>1, <1>2, <1>3, LoadsStep

\* Nothing happens to the accounts of those who play.
LEMMA AccountsKept ==
    ASSUME PlaceInv, Playing' = Playing, \A s \in Playing : account'[s] = account[s],
           LoadStatements' = LoadStatements, UNCHANGED <<signedIn, stranded>>, phase \in Ended => phase' \in Ended
    PROVE  AccountsApart' /\ SignedInIsUsed'
BY DEF PlaceInv, AccountsApart, SignedInIsUsed

\* The end of the game deletes those who play.
LEMMA AccountsEnd ==
    ASSUME PlaceInv, Playing' \subseteq Playing, UNCHANGED <<account, signedIn, stranded>>,
           LoadStatements' = LoadStatements, phase' \in Ended
    PROVE  AccountsApart' /\ SignedInIsUsed'
BY DEF PlaceInv, AccountsApart, SignedInIsUsed

\* Two sessions that play are in one match, or their accounts differ.
LEMMA AccountsStep ==
    ASSUME PlaceInv, [GameNext]_gameVars
    PROVE  AccountsApart' /\ SignedInIsUsed'
<1> DEFINE Goal == AccountsApart' /\ SignedInIsUsed'
<1>0. /\ inMatch \in [Maps -> SUBSET Sessions] /\ transfers \in [Maps -> SUBSET Sessions]
      /\ map \in Maps /\ account \in [Sessions -> AccountIDs \cup {NoAccount}]
      /\ AccountsApart /\ SignedInIsUsed
  BY DEF PlaceInv, AccountsTypes, GameTypeOK
<1>1. ASSUME LoadStatements' = LoadStatements PROVE Goal
  <2>1. CASE UNCHANGED gameVars \/ EndSessions \/ EndUpdate \/ Stop \/ EndMatch \/ Execute
             \/ DeleteGame \/ AddNewSessions \/ CloseDatabase
             \/ \E s \in Sessions : NotifySession(s) \/ TimeOut(s) \/ UpdateGameSession(s) \/ StayInMatch(s)
    <3>1. /\ UNCHANGED <<inMatch, transfers, account, signedIn, stranded>>
          /\ phase \in Ended => phase' \in Ended
      BY <2>1 DEF gameVars, EndSessions, EndUpdate, Stop, EndMatch, Execute, CloseDatabase, DeleteGame,
                  TimeOut, UpdateGameSession, StayInMatch, NotifySession, AddNewSessions, Enter, Ended,
                  connectionVars, matchVars, historyVars
    <3> QED BY <1>1, <3>1, AccountsKept DEF Playing
  <2>2. CASE UpdateTransfers \/ \E s \in Sessions : UpdateJump(s)
    <3>1. UNCHANGED <<account, signedIn, stranded>> /\ (phase \in Ended => phase' \in Ended)
      BY <2>2 DEF UpdateTransfers, UpdateJump, Ended, historyVars
    <3> QED BY <1>1, <2>2, <3>1, MovesKeepPlaying, AccountsKept
  <2>3. ASSUME NEW s \in Sessions, NEW a \in AccountIDs, StartLoadPlayer(s, a), a \in signedIn PROVE Goal
    <3>1. /\ UNCHANGED <<inMatch, transfers, account, signedIn, stranded>>
          /\ phase \in Ended => phase' \in Ended
      BY <2>3 DEF StartLoadPlayer, Ended, matchVars, historyVars
    <3> QED BY <1>1, <3>1, AccountsKept DEF Playing
  <2>4. CASE UpdateAttacks
    <3>1. PICK killed \in SUBSET inMatch[map] :
              /\ inMatch' = [inMatch EXCEPT ![map] = @ \ killed]
              /\ stranded' = stranded \cup {account[s] : s \in killed}
              /\ account' = [s \in Sessions |-> IF s \in killed THEN NoAccount ELSE account[s]]
              /\ phase' = "leave"
      BY <2>4 DEF UpdateAttacks, Enter
    <3>2. UNCHANGED <<transfers, signedIn>> /\ phase \notin Ended
      BY <2>4 DEF UpdateAttacks, Ended
    <3>3. \A m \in Maps : inMatch'[m] = IF m = map THEN inMatch[m] \ killed ELSE inMatch[m]
      BY <1>0, <3>1
    <3>4. \A m \in Maps, s \in killed : s \notin transfers[m] /\ (m # map => s \notin inMatch[m])
      BY <1>0 DEF PlaceInv, PlacesApart
    <3>5. Playing' = Playing \ killed /\ killed \subseteq Playing
      <4>1. \A s : s \in Playing' <=> s \in Playing /\ s \notin killed
        BY <3>2, <3>3, <3>4, PlayingIs
      <4> QED BY <1>0, <4>1, PlayingIs, SameElements
    <3>6. Playing \subseteq Sessions
      BY <1>0, PlayingIs
    <3>7. \A s \in Playing' : s \notin killed /\ s \in Playing /\ account'[s] = account[s]
      BY <3>1, <3>5, <3>6
    <3>8. \A s \in Playing' : account[s] \notin {account[x] : x \in killed}
      BY <1>0, <3>5 DEF AccountsApart
    <3>9. \A st \in LoadStatements : st.account \notin {account[x] : x \in killed}
      BY <1>0, <3>5 DEF AccountsApart
    <3>10. AccountsApart'
      <4>1. stranded' \subseteq signedIn'
        BY <1>0, <3>1, <3>2, <3>5 DEF AccountsApart
      <4>2. \A s \in Playing' : account'[s] \in signedIn' \ stranded'
        BY <1>0, <3>1, <3>2, <3>7, <3>8 DEF AccountsApart
      <4>3. \A st \in LoadStatements' : st.account \in signedIn' \ stranded'
        BY <1>0, <1>1, <3>1, <3>2, <3>9 DEF AccountsApart
      <4> QED BY <1>0, <1>1, <3>7, <4>1, <4>2, <4>3 DEF AccountsApart
    <3>11. SignedInIsUsed'
      <4>1. ASSUME NEW a \in signedIn
            PROVE  a \in stranded' \/ (\E s \in Playing' : account'[s] = a) \/ \E st \in LoadStatements' : st.account = a
        <5>1. CASE \E s \in Playing : account[s] = a
          BY <3>1, <3>5, <3>7, <5>1
        <5> QED BY <1>0, <1>1, <3>1, <3>2, <5>1 DEF SignedInIsUsed
      <4> QED BY <3>2, <4>1 DEF SignedInIsUsed
    <3> QED BY <3>10, <3>11
  <2>5. ASSUME NEW s \in Sessions, LeaveMatch(s) PROVE Goal
    <3>1. /\ inMatch' = [inMatch EXCEPT ![map] = @ \ {s}] /\ s \in inMatch[map]
          /\ signedIn' = signedIn \ {account[s]}
          /\ account' = [account EXCEPT ![s] = NoAccount]
          /\ UNCHANGED <<transfers, stranded>> /\ phase \notin Ended
      BY <2>5 DEF LeaveMatch, PlaceInv, TodoInv, Ended
    <3>2. \A m \in Maps : inMatch'[m] = IF m = map THEN inMatch[m] \ {s} ELSE inMatch[m]
      BY <1>0, <3>1
    <3>3. \A m \in Maps : s \notin transfers[m] /\ (m # map => s \notin inMatch[m])
      BY <1>0, <3>1 DEF PlaceInv, PlacesApart
    <3>4. Playing' = Playing \ {s} /\ s \in Playing
      <4>1. \A x : x \in Playing' <=> x \in Playing /\ x # s
        BY <1>0, <3>1, <3>2, <3>3, PlayingIs
      <4> QED BY <1>0, <3>1, <4>1, PlayingIs, SameElements
    <3>5. Playing \subseteq Sessions
      BY <1>0, PlayingIs
    <3>6. \A x \in Playing' : x # s /\ x \in Playing /\ account'[x] = account[x]
      BY <1>0, <3>1, <3>4, <3>5
    <3> QED BY <1>0, <1>1, <3>1, <3>4, <3>6 DEF AccountsApart, SignedInIsUsed
  <2>6. CASE DeleteMatch
    <3>1. /\ inMatch' = [inMatch EXCEPT ![map] = {}]
          /\ transfers' = [transfers EXCEPT ![map] = {}]
          /\ UNCHANGED <<account, signedIn, stranded>> /\ phase' \in Ended
      BY <2>6 DEF DeleteMatch, historyVars, Enter, Ended
    <3>2. \A m \in Maps : inMatch'[m] \subseteq inMatch[m] /\ transfers'[m] \subseteq transfers[m]
      BY <1>0, <3>1
    <3>3. Playing' \subseteq Playing
      BY <3>2, PlayingIs
    <3> QED BY <1>1, <3>1, <3>3, AccountsEnd
  <2>7. ASSUME NEW answer \in answered, EndLoadPlayer(answer) PROVE Goal
    <3>1. answer[1] \in LoadStatements /\ LoadStatements' = LoadStatements \ {answer[1]}
      <4>1. /\ pending \in Seq(Statements) /\ LoadedOnce
            /\ answer[1].kind = "select" /\ Database!Collect({answer})
        BY <2>7 DEF EndLoadPlayer, PlaceInv, AccountsTypes, GameTypeOK
      <4> QED BY <2>7, <4>1, LoadsAre, CollectLoadLoads DEF IsAnswered
    <3> QED BY <1>1, <3>1
  <2>8. ASSUME NEW s \in Sessions, NEW a \in AccountIDs, StartLoadPlayer(s, a), a \notin signedIn PROVE Goal
    <3>1. Database!Issue(Select(s, a)) /\ pending \in Seq(Statements)
      BY <2>8 DEF StartLoadPlayer, PlaceInv, AccountsTypes, GameTypeOK
    <3>2. Select(s, a) \in LoadStatements /\ Select(s, a).account = a
      BY <1>1, <3>1, SelectIsStatement, IssueLoads
    <3> QED BY <1>0, <2>8, <3>2 DEF AccountsApart
  <2> QED BY <2>1, <2>2, <2>3, <2>4, <2>5, <2>6, <2>7, <2>8 DEF GameNext, GameUpdate, Shutdown
<1>2. ASSUME NEW s \in Sessions, NEW a \in AccountIDs, StartLoadPlayer(s, a), a \notin signedIn,
             LoadStatements' = LoadStatements \cup {Select(s, a)}
      PROVE  Goal
  <2>1. /\ UNCHANGED <<inMatch, transfers, account, stranded>> /\ Playing' = Playing
        /\ signedIn' = signedIn \cup {a} /\ phase \notin Ended
    BY <1>2 DEF StartLoadPlayer, matchVars, historyVars, Playing, Ended
  <2>2. Select(s, a).account = a
    BY SelectIsStatement
  <2> QED BY <1>0, <1>2, <2>1, <2>2 DEF AccountsApart, SignedInIsUsed
<1>3. ASSUME NEW answer \in answered, EndLoadPlayer(answer), answer[1] \in LoadStatements,
             LoadStatements' = LoadStatements \ {answer[1]}
      PROVE  Goal
  <2> DEFINE st == answer[1]
             outcome == answer[2]
  <2>1. st \in LoadStatements /\ LoadStatements' = LoadStatements \ {st}
    BY <1>3
  <2>2. /\ IF outcome.is = "error"
           THEN stranded' = stranded \cup {st.account} /\ UNCHANGED <<account, inMatch>>
           ELSE /\ inMatch' = [inMatch EXCEPT ![outcome.player.map] = @ \cup {st.session}]
                /\ account' = [account EXCEPT ![st.session] = st.account]
                /\ UNCHANGED stranded
        /\ UNCHANGED <<transfers, signedIn>> /\ phase \notin Ended
    BY <1>3 DEF EndLoadPlayer, Ended
  <2>3. st.session \in Sessions /\ st.session \notin Playing
    BY <2>1, LoadFields DEF PlaceInv, PlacesApart
  <2>4. ASSUME outcome.is # "error" PROVE outcome.player.map \in Maps
    <3>1. \E player \in Players : outcome = Row(player)
      BY <1>3, <2>4 DEF PlaceInv, AccountsTypes, AnswersFit, Error, EndLoadPlayer
    <3>2. outcome.player \in Players
      BY <3>1 DEF Row
    <3> QED BY <3>2, PlayerFields
  <2> HIDE DEF st, outcome
  <2>5. CASE outcome.is = "error"
    <3>1. stranded' = stranded \cup {st.account} /\ UNCHANGED <<account, signedIn>> /\ Playing' = Playing
      BY <2>2, <2>5 DEF Playing
    <3> QED BY <1>0, <2>1, <2>2, <3>1 DEF AccountsApart, SignedInIsUsed
  <2>6. CASE outcome.is # "error"
    <3>1. \A m \in Maps : inMatch'[m] = inMatch[m] \cup (IF m = outcome.player.map THEN {st.session} ELSE {})
      BY <1>0, <2>2, <2>4, <2>6
    <3>2. Playing' = Playing \cup {st.session}
      <4>1. \A x : x \in Playing' <=> x \in Playing \/ x = st.session
        BY <2>2, <2>4, <2>6, <3>1, PlayingIs
      <4> QED BY <4>1, SameElements
    <3>3. Playing \subseteq Sessions
      BY <1>0, PlayingIs
    <3>4. account'[st.session] = st.account /\ \A x \in Playing : account'[x] = account[x]
      BY <1>0, <2>2, <2>3, <2>6, <3>3
    <3>5. UNCHANGED <<signedIn, stranded>>
      BY <2>2, <2>6
    <3> QED BY <1>0, <2>1, <2>2, <2>3, <3>2, <3>4, <3>5 DEF AccountsApart, SignedInIsUsed
  <2> QED BY <2>5, <2>6
<1> QED BY <1>1, <1>2, <1>3, LoadsStep

LEMMA TodoStep ==
    ASSUME PlaceInv, [GameNext]_gameVars
    PROVE  TodoInv'
<1>0. inMatch \in [Maps -> SUBSET Sessions] /\ map \in Maps /\ TodoInv
  BY DEF PlaceInv, AccountsTypes, GameTypeOK
<1>1. CASE UNCHANGED gameVars \/ Execute \/ \E s \in Sessions : NotifySession(s) \/ TimeOut(s)
  BY <1>0, <1>1 DEF gameVars, connectionVars, matchVars, Execute, NotifySession, TimeOut, TodoInv
<1>2. CASE AddNewSessions
  BY <1>2 DEF AddNewSessions, Enter, TodoInv
<1>3. ASSUME NEW s \in Sessions, UpdateGameSession(s) \/ \E a \in AccountIDs : StartLoadPlayer(s, a)
      PROVE  TodoInv'
  BY <1>0, <1>3 DEF UpdateGameSession, StartLoadPlayer, Enter, TodoInv
<1>4. CASE EndSessions \/ EndMatch \/ EndUpdate \/ Stop \/ DeleteGame \/ DeleteMatch \/ CloseDatabase
  <2>1. phase' \notin {"sessions", "jumps", "leave"}
    BY <1>4 DEF EndSessions, EndMatch, EndUpdate, Stop, DeleteGame, DeleteMatch, CloseDatabase, Enter
  <2> QED BY <2>1 DEF TodoInv
<1>5. CASE UpdateTransfers \/ UpdateAttacks
  <2>1. todo' \subseteq inMatch'[map] /\ map' = map /\ phase' # "sessions"
    BY <1>5 DEF UpdateTransfers, UpdateAttacks, Enter
  <2> QED BY <2>1 DEF TodoInv
<1>6. ASSUME NEW s \in Sessions, UpdateJump(s) \/ StayInMatch(s) \/ LeaveMatch(s) PROVE TodoInv'
  <2>1. /\ todo' = todo \ {s} /\ todo \subseteq inMatch[map] /\ map' = map /\ phase' # "sessions"
        /\ inMatch' = inMatch \/ inMatch' = [inMatch EXCEPT ![map] = @ \ {s}]
    BY <1>0, <1>6 DEF UpdateJump, StayInMatch, LeaveMatch, Enter, TodoInv
  <2>2. todo' \subseteq inMatch'[map]
    BY <1>0, <2>1
  <2> QED BY <2>1, <2>2 DEF TodoInv
<1>7. ASSUME NEW answer \in answered, EndLoadPlayer(answer) PROVE TodoInv'
  BY <1>7 DEF EndLoadPlayer, Enter, TodoInv
<1> QED BY <1>1, <1>2, <1>3, <1>4, <1>5, <1>6, <1>7 DEF GameNext, GameUpdate, Shutdown

LEMMA PendingAreSaves ==
    ASSUME PlaceInv, LoadStatements = {}, NEW i \in 1 .. Len(pending)
    PROVE  pending[i].kind = "update" /\ pending[i].player.map \in Maps
<1>1. pending \in Seq(Statements)
  BY DEF PlaceInv, AccountsTypes, GameTypeOK
<1>2. pending[i] \in Statements
  BY <1>1, ElementOfSeq
<1>3. pending[i].kind # "select"
  BY <1>1, LoadsAre DEF IsPending
<1> QED BY <1>2, <1>3, StatementFields, PlayerFields

\* Nothing is issued once the game has run the callbacks of all loads.
LEMMA ShutdownStep ==
    ASSUME PlaceInv, [GameNext]_gameVars
    PROVE  ShutdownInv'
<1>0. pending \in Seq(Statements) /\ map \in Maps /\ ShutdownInv
  BY DEF PlaceInv, AccountsTypes, GameTypeOK
<1>1. CASE phase' \notin Ended
  BY <1>1 DEF ShutdownInv, Ended
<1>2. CASE phase' \in Ended
  <2>1. \/ UNCHANGED <<databaseVars, phase, map>>
        \/ Execute \/ DeleteGame \/ DeleteMatch \/ CloseDatabase
    <3>1. CASE UNCHANGED gameVars \/ \E s \in Sessions : TimeOut(s)
      BY <3>1 DEF gameVars, TimeOut
    <3>2. ASSUME NEW s \in Sessions, NotifySession(s) PROVE FALSE
      BY <1>2, <3>2 DEF NotifySession, Ended
    <3>3. ASSUME GameUpdate \/ Stop PROVE FALSE
      BY <1>2, <3>3 DEF GameUpdate, AddNewSessions, UpdateGameSession, StartLoadPlayer, UpdateJump, StayInMatch,
                        LeaveMatch, EndSessions, UpdateTransfers, UpdateAttacks, EndMatch, EndLoadPlayer,
                        EndUpdate, Stop, Enter, Ended
    <3> QED BY <3>1, <3>2, <3>3 DEF GameNext, Shutdown
  <2>2. CASE UNCHANGED <<databaseVars, phase, map>>
    BY <1>0, <2>2 DEF databaseVars, ShutdownInv, LoadStatements, AnsweredStatements, Range
  <2>3. CASE Execute
    <3>1. UNCHANGED <<phase, map>> /\ \E outcome : Database!Execute(outcome)
      BY <2>3 DEF Execute
    <3>2. /\ LoadStatements' = LoadStatements
          /\ Len(pending) \in Nat \ {0} /\ Len(pending') = Len(pending) - 1
          /\ \A i \in 1 .. Len(pending') : pending'[i] = pending[i + 1]
      BY <1>0, <3>1, ExecuteLoads, ExecuteElements
    <3>3. \A i \in 1 .. Len(pending') : i + 1 \in 1 .. Len(pending)
      BY <3>2
    <3>4. pending # <<>>
      BY <2>3 DEF Execute
    <3> QED BY <1>0, <3>1, <3>2, <3>3, <3>4 DEF ShutdownInv
  <2>4. CASE DeleteGame
    <3>1. /\ phase' = "destroy" /\ map' = 1 /\ UNCHANGED databaseVars /\ Loading = {}
      BY <2>4 DEF DeleteGame, Enter
    <3>2. LoadStatements = {} /\ LoadStatements' = {} /\ pending' = pending
      BY <3>1, LoadingIs DEF databaseVars, LoadStatements, AnsweredStatements, Range
    <3>3. \A i \in 1 .. Len(pending) : pending[i].player.map >= 1
      BY <3>2, PendingAreSaves, AccountsAssumption DEF Maps
    <3> QED BY <3>1, <3>2, <3>3 DEF ShutdownInv
  <2>5. CASE DeleteMatch
    <3>1. /\ phase = "destroy" /\ pending' = pending
          /\ \A st \in Range(pending) : ~(st.kind = "update" /\ st.player.map = map)
          /\ Database!Collect(SavesAnswered(map))
          /\ \/ map < MapCount /\ phase' = "destroy" /\ map' = map + 1
             \/ ~(map < MapCount) /\ phase' = "deleted"
      BY <2>5 DEF DeleteMatch, Enter, Database!Collect
    <3>2. LoadStatements = {} /\ LoadStatements' = {}
      <4>1. \A x \in SavesAnswered(map) : x[1].kind = "update"
        BY DEF SavesAnswered
      <4> QED BY <1>0, <3>1, <4>1, CollectSavesLoads DEF ShutdownInv, Ended
    <3>3. \A i \in 1 .. Len(pending) : pending[i] \in Range(pending)
      BY <1>0, LenProperties DEF Range
    <3>4. \A i \in 1 .. Len(pending) : pending[i].player.map \in Maps /\ pending[i].player.map > map
      <4> TAKE i \in 1 .. Len(pending)
      <4>1. pending[i].kind = "update" /\ pending[i].player.map \in Maps
        BY <3>2, PendingAreSaves
      <4>2. pending[i].player.map >= map /\ pending[i].player.map # map
        BY <1>0, <3>1, <3>3, <4>1 DEF ShutdownInv
      <4> QED BY <1>0, <4>1, <4>2, AccountsAssumption DEF Maps
    <3>5. CASE map < MapCount
      <4>1. \A i \in 1 .. Len(pending) : pending[i].player.map >= map + 1
        BY <1>0, <3>4, AccountsAssumption DEF Maps
      <4> QED BY <3>1, <3>2, <3>5, <4>1 DEF ShutdownInv
    <3>6. CASE ~(map < MapCount)
      <4>1. 1 .. Len(pending) = {}
        BY <1>0, <3>4, <3>6, AccountsAssumption DEF Maps
      <4>2. Len(pending) = 0
        <5>1. Len(pending) \in Nat
          BY <1>0, LenProperties
        <5> QED BY <4>1, <5>1
      <4>3. pending = <<>>
        BY <1>0, <4>2, EmptySeq
      <4> QED BY <3>1, <3>2, <3>6, <4>3 DEF ShutdownInv
    <3> QED BY <3>5, <3>6
  <2>6. CASE CloseDatabase
    <3>1. phase = "deleted" /\ phase' = "closed" /\ pending = <<>> /\ answered' = answered
      BY <1>0, <2>6 DEF CloseDatabase, Database!Drop, Enter, ShutdownInv
    <3>2. PICK taken \in {0, 1} : taken <= Len(pending) /\ pending' = SubSeq(pending, 1, taken)
      BY <2>6 DEF CloseDatabase, Database!Drop
    <3>3. taken = 0
      BY <3>1, <3>2
    <3>4. pending' = <<>>
      BY <3>2, <3>3, SubSeqEmpty
    <3>5. LoadStatements' = LoadStatements
      BY <3>1, <3>4 DEF LoadStatements, AnsweredStatements, Range
    <3> QED BY <1>0, <3>1, <3>4, <3>5 DEF ShutdownInv, Ended
  <2> QED BY <2>1, <2>2, <2>3, <2>4, <2>5, <2>6
<1> QED BY <1>1, <1>2

LEMMA PlaceInvInitially == GameInit => PlaceInv
<1> SUFFICES ASSUME GameInit PROVE PlaceInv
  OBVIOUS
<1>1. AccountsTypes
  BY AccountsTypesInitially
<1>2. /\ newSessions = {} /\ gameSessions = {} /\ signedIn = {} /\ stranded = {}
      /\ pending = <<>> /\ answered = {} /\ phase = "new" /\ todo = {}
      /\ inMatch = [m \in Maps |-> {}] /\ transfers = [m \in Maps |-> {}]
  BY DEF GameInit, Database!Init
<1>3. Playing = {}
  BY <1>2, PlayingIs
<1>4. LoadStatements = {}
  <2>1. pending \in Seq(Statements) /\ 1 .. Len(pending) = {}
    BY <1>2, EmptySeq
  <2> QED BY <1>2, <2>1, LoadsAre DEF IsPending, IsAnswered
<1>5. LoadedOnce
  BY <1>2 DEF LoadedOnce
<1>6. TodoInv /\ ShutdownInv
  BY <1>2 DEF TodoInv, ShutdownInv, Ended
<1>7. PlacesApart
  BY <1>2, <1>3, <1>4 DEF PlacesApart
<1>8. AccountsApart /\ SignedInIsUsed
  BY <1>2, <1>3, <1>4 DEF AccountsApart, SignedInIsUsed
<1> QED BY <1>1, <1>5, <1>6, <1>7, <1>8 DEF PlaceInv

LEMMA PlaceInvInductive == PlaceInv /\ [GameNext]_gameVars => PlaceInv'
<1> SUFFICES ASSUME PlaceInv, [GameNext]_gameVars PROVE PlaceInv'
  OBVIOUS
<1>1. AccountsTypes'
  BY AccountsTypesStep, AccountsAreKnown DEF PlaceInv
<1>2. LoadedOnce'
  BY LoadsStep
<1> QED BY <1>1, <1>2, TodoStep, ShutdownStep, PlacesStep, AccountsStep DEF PlaceInv

LEMMA PlaceInvAlways == GameSpec => []PlaceInv
BY PlaceInvInitially, PlaceInvInductive, PTL DEF GameSpec

\* The types of the game's and its database's state.
THEOREM GameTypeCorrect == GameSpec => []GameTypeOK
<1>1. PlaceInv => GameTypeOK
  BY DEF PlaceInv, AccountsTypes
<1> QED BY <1>1, PlaceInvAlways, PTL

-----------------------------------------------------------------------------
(* One session for an account.                                             *)

\* A session is in one place.
LEMMA OnePlace ==
    ASSUME PlaceInv, NEW s \in Sessions
    PROVE  Places(s) <= 1
<1> DEFINE In == {m \in Maps : s \in inMatch[m]}
           To == {m \in Maps : s \in transfers[m]}
<1>1. PlacesApart
  BY DEF PlaceInv
<1>2. Cardinality(In) = (IF In = {} THEN 0 ELSE 1) /\ Cardinality(To) = (IF To = {} THEN 0 ELSE 1)
  <2>1. \A m, n \in In : m = n
    BY <1>1 DEF PlacesApart
  <2>2. \A m, n \in To : m = n
    BY <1>1 DEF PlacesApart
  <2> QED BY <2>1, <2>2, AtMostOneElement
<1>3. /\ In # {} => s \in Playing
      /\ To # {} => s \in Playing
      /\ ~(In # {} /\ To # {})
  BY <1>1, PlayingIs DEF PlacesApart
<1>4. /\ s \in Loading => s \notin newSessions \cup gameSessions \cup Playing
      /\ ~(s \in newSessions /\ s \in gameSessions)
      /\ s \in Playing => s \notin newSessions \cup gameSessions
  BY <1>1, LoadingIs DEF PlacesApart
<1>5. Places(s) = (IF s \in newSessions THEN 1 ELSE 0) + (IF s \in gameSessions THEN 1 ELSE 0) +
                  (IF s \in Loading THEN 1 ELSE 0) + Cardinality(In) + Cardinality(To)
  BY DEF Places
<1> HIDE DEF In, To
<1> QED BY <1>2, <1>3, <1>4, <1>5

\* An account is signed in for one load, one session that plays, or stranded.
LEMMA OneUse ==
    ASSUME PlaceInv, phase \notin Ended, NEW a \in AccountIDs
    PROVE  Cardinality(LoadsOf(a)) + Cardinality(PlayersOf(a)) + (IF a \in stranded THEN 1 ELSE 0)
           = (IF a \in signedIn THEN 1 ELSE 0)
<1> DEFINE L == LoadsOf(a)
           P == PlayersOf(a)
<1>0. AccountsApart /\ SignedInIsUsed
  BY DEF PlaceInv
<1>1. L = {st \in LoadStatements : st.account = a} /\ P = {s \in Playing : account[s] = a}
  BY LoadingIs DEF PlayersOf
<1> HIDE DEF L, P
<1>2. Cardinality(L) = (IF L = {} THEN 0 ELSE 1) /\ Cardinality(P) = (IF P = {} THEN 0 ELSE 1)
  <2>1. \A x, y \in L : x = y
    BY <1>0, <1>1 DEF AccountsApart
  <2>2. \A x, y \in P : x = y
    BY <1>0, <1>1 DEF AccountsApart
  <2> QED BY <2>1, <2>2, AtMostOneElement
<1>3. /\ L # {} => a \in signedIn /\ a \notin stranded /\ P = {}
      /\ P # {} => a \in signedIn /\ a \notin stranded
      /\ a \in stranded => a \in signedIn
      /\ a \in signedIn => a \in stranded \/ P # {} \/ L # {}
  BY <1>0, <1>1 DEF AccountsApart, SignedInIsUsed
<1>4. Cardinality(L) + Cardinality(P) + (IF a \in stranded THEN 1 ELSE 0) = (IF a \in signedIn THEN 1 ELSE 0)
  BY <1>2, <1>3
<1> QED BY <1>4 DEF L, P

\* Whatever logins, jumps, deaths, disconnections and loads happen in whatever
\* order, an account is played by one session, which is in one place, and it
\* is signed in exactly as long (Game.h:83, 98, Match.h:268, 443).
THEOREM AccountsAreApart == GameSpec => []OneSessionPerAccount
<1>1. PlaceInv => OneSessionPerAccount
  BY OnePlace, OneUse DEF OneSessionPerAccount, Ended
<1> QED BY <1>1, PlaceInvAlways, PTL

-----------------------------------------------------------------------------
(* The saves.                                                              *)

IsSave(i, a) == pending[i].kind = "update" /\ pending[i].account = a

\* The last save of an account that waits is the player that left.
LastSaveIsLatest ==
    \A i \in 1 .. Len(pending), a \in AccountIDs :
        IsSave(i, a) /\ (\A j \in 1 .. Len(pending) : IsSave(j, a) => j <= i) => pending[i].player = left[a]

\* Without one the row is the player that left.
RowIsLatest ==
    \A a \in AccountIDs \ failed : (\A i \in 1 .. Len(pending) : ~IsSave(i, a)) => row[a] = left[a]

\* No save waits behind a load of its account.
SavesBeforeLoads ==
    \A i, j \in 1 .. Len(pending), a \in AccountIDs :
        pending[i].kind = "select" /\ pending[i].account = a /\ IsSave(j, a) => j < i

\* Nor when the load has been executed, which read the player that left.
AnsweredLoads ==
    \A x \in answered : x[1].kind = "select" =>
        /\ \A i \in 1 .. Len(pending) : ~IsSave(i, x[1].account)
        /\ x[2].is = "row" /\ x[1].account \notin failed => x[2].player = left[x[1].account]

SavesInv == LastSaveIsLatest /\ RowIsLatest /\ SavesBeforeLoads /\ AnsweredLoads

LEMMA IssueSaves ==
    ASSUME PlaceInv, SavesInv, NEW s \in Sessions, LeaveMatch(s)
    PROVE  SavesInv'
<1> DEFINE player == [map |-> map, progress |-> progress[s]]
<1>0. pending \in Seq(Statements) /\ left \in [AccountIDs -> Players]
  BY DEF PlaceInv, AccountsTypes, GameTypeOK
<1>n. PICK n : n = Len(pending)
  OBVIOUS
<1>a. PICK a : a = account[s]
  OBVIOUS
<1>1. a \in AccountIDs /\ player \in Players /\ s \in Playing
  BY <1>a, AccountsAreKnown, PlayingIs
     DEF LeaveMatch, PlaceInv, TodoInv, AccountsKnown, AccountsTypes, GameTypeOK, Players
<1>2. /\ Database!Issue(Update(a, player)) /\ left' = [left EXCEPT ![a] = player]
      /\ UNCHANGED <<row, failed>>
  BY <1>a DEF LeaveMatch
<1>3. Update(a, player) \in Statements /\ Update(a, player).kind = "update"
      /\ Update(a, player).account = a /\ Update(a, player).player = player
  BY <1>1, UpdateIsStatement
<1> HIDE DEF player
<1>4. /\ answered' = answered
      /\ n \in Nat /\ Len(pending') = n + 1
      /\ \A i \in 1 .. n : pending'[i] = pending[i]
      /\ pending'[n + 1] = Update(a, player)
  BY <1>n, <1>0, <1>2, <1>3, IssueElements
<1>5. /\ \A i \in 1 .. n : \A b : IsSave(i, b)' <=> IsSave(i, b)
      /\ \A b : IsSave(n + 1, b)' <=> b = a
      /\ n + 1 \in 1 .. Len(pending') /\ \A i \in 1 .. n : i \in 1 .. Len(pending')
      /\ \A i \in 1 .. Len(pending') : i \in 1 .. n \/ i = n + 1
  BY <1>3, <1>4 DEF IsSave
<1>6. \A st \in LoadStatements : st.account # a
  BY <1>1, <1>a DEF PlaceInv, AccountsApart
<1>7. \A b \in AccountIDs : left'[b] = IF b = a THEN player ELSE left[b]
  BY <1>0, <1>2
<1>8. LastSaveIsLatest'
  <2> SUFFICES ASSUME NEW i \in 1 .. Len(pending'), NEW b \in AccountIDs, IsSave(i, b)',
                      \A j \in 1 .. Len(pending') : IsSave(j, b)' => j <= i
               PROVE  pending'[i].player = left'[b]
    BY DEF LastSaveIsLatest
  <2>1. CASE i = n + 1
    BY <1>3, <1>4, <1>5, <1>7, <2>1
  <2>2. CASE i \in 1 .. n
    <3>1. b # a
      BY <1>4, <1>5, <2>2
    <3>2. \A j \in 1 .. n : IsSave(j, b) => j <= i
      BY <1>5
    <3>3. pending[i].player = left[b]
      BY <1>n, <1>5, <2>2, <3>2 DEF SavesInv, LastSaveIsLatest
    <3> QED BY <1>4, <1>7, <2>2, <3>1, <3>3
  <2> QED BY <1>5, <2>1, <2>2
<1>9. RowIsLatest'
  <2> SUFFICES ASSUME NEW b \in AccountIDs \ failed, \A i \in 1 .. Len(pending') : ~IsSave(i, b)'
               PROVE  row[b] = left'[b]
    BY <1>2 DEF RowIsLatest
  <2>1. b # a /\ \A i \in 1 .. n : ~IsSave(i, b)
    BY <1>5
  <2> QED BY <1>n, <1>7, <2>1 DEF SavesInv, RowIsLatest
<1>10. SavesBeforeLoads'
  <2> SUFFICES ASSUME NEW i \in 1 .. Len(pending'), NEW j \in 1 .. Len(pending'), NEW b \in AccountIDs,
                      pending'[i].kind = "select", pending'[i].account = b, IsSave(j, b)'
               PROVE  j < i
    BY DEF SavesBeforeLoads
  <2>1. i \in 1 .. n /\ pending[i].kind = "select" /\ pending[i].account = b
    BY <1>3, <1>4, <1>5
  <2>2. b # a
    BY <1>n, <1>0, <1>6, <2>1, LoadsAre DEF IsPending
  <2>3. j \in 1 .. n /\ IsSave(j, b)
    BY <1>5, <2>2
  <2> QED BY <1>n, <2>1, <2>3 DEF SavesInv, SavesBeforeLoads
<1>11. AnsweredLoads'
  <2> SUFFICES ASSUME NEW x \in answered, x[1].kind = "select"
               PROVE  /\ \A i \in 1 .. Len(pending') : ~IsSave(i, x[1].account)'
                      /\ x[2].is = "row" /\ x[1].account \notin failed => x[2].player = left'[x[1].account]
    BY <1>2, <1>4 DEF AnsweredLoads
  <2>1. x[1].account # a
    BY <1>0, <1>6, LoadsAre DEF IsAnswered
  <2>2. x[1].account \in AccountIDs
    BY StatementFields DEF PlaceInv, AccountsTypes, GameTypeOK
  <2>3. \A i \in 1 .. n : ~IsSave(i, x[1].account)
    BY <1>n DEF SavesInv, AnsweredLoads
  <2> QED BY <1>5, <1>7, <2>1, <2>2, <2>3 DEF SavesInv, AnsweredLoads
<1> QED BY <1>8, <1>9, <1>10, <1>11 DEF SavesInv

LEMMA IssueLoad ==
    ASSUME PlaceInv, SavesInv, NEW s \in Sessions, NEW a \in AccountIDs, Database!Issue(Select(s, a)),
           UNCHANGED <<row, left, failed>>
    PROVE  SavesInv'
<1>n. PICK n : n = Len(pending)
  OBVIOUS
<1>0. pending \in Seq(Statements)
  BY DEF PlaceInv, AccountsTypes, GameTypeOK
<1>1. Select(s, a) \in Statements /\ Select(s, a).kind = "select"
  BY SelectIsStatement
<1>2. /\ answered' = answered
      /\ n \in Nat /\ Len(pending') = n + 1
      /\ \A i \in 1 .. n : pending'[i] = pending[i]
      /\ pending'[n + 1] = Select(s, a)
  BY <1>n, <1>0, <1>1, IssueElements
<1>3. /\ \A i \in 1 .. n : \A b : IsSave(i, b)' <=> IsSave(i, b)
      /\ \A b : ~IsSave(n + 1, b)'
      /\ \A i \in 1 .. Len(pending') : i \in 1 .. n \/ i = n + 1
      /\ \A i \in 1 .. n : i \in 1 .. Len(pending') /\ i < n + 1
  BY <1>1, <1>2 DEF IsSave
<1>4. LastSaveIsLatest'
  <2> SUFFICES ASSUME NEW i \in 1 .. Len(pending'), NEW b \in AccountIDs, IsSave(i, b)',
                      \A j \in 1 .. Len(pending') : IsSave(j, b)' => j <= i
               PROVE  pending'[i].player = left[b]
    BY DEF LastSaveIsLatest
  <2>1. i \in 1 .. n /\ IsSave(i, b) /\ \A j \in 1 .. n : IsSave(j, b) => j <= i
    BY <1>3
  <2> QED BY <1>n, <1>2, <2>1 DEF SavesInv, LastSaveIsLatest
<1>5. RowIsLatest'
  BY <1>n, <1>3 DEF SavesInv, RowIsLatest
<1>6. SavesBeforeLoads'
  BY <1>n, <1>2, <1>3 DEF SavesInv, SavesBeforeLoads
<1>7. AnsweredLoads'
  BY <1>n, <1>2, <1>3 DEF SavesInv, AnsweredLoads
<1> QED BY <1>4, <1>5, <1>6, <1>7 DEF SavesInv

LEMMA ExecuteSaves ==
    ASSUME PlaceInv, SavesInv, Execute
    PROVE  SavesInv'
<1>n. PICK n : n = Len(pending')
  OBVIOUS
<1>s. PICK st : st = pending[1]
  OBVIOUS
<1>0. pending \in Seq(Statements) /\ row \in [AccountIDs -> Players] /\ left \in [AccountIDs -> Players]
  BY DEF PlaceInv, AccountsTypes, GameTypeOK
<1>1. PICK outcome \in Outcomes :
          /\ Database!Execute(outcome) /\ st \in Statements
          /\ \/ /\ st.kind = "select" /\ outcome = Row(row[st.account])
                /\ UNCHANGED <<row, failed>>
             \/ /\ st.kind = "update" /\ outcome = Done
                /\ row' = [row EXCEPT ![st.account] = st.player]
                /\ failed' = failed \ {st.account}
             \/ /\ outcome = Error
                /\ failed' = IF st.kind = "update" THEN failed \cup {st.account} ELSE failed
                /\ UNCHANGED row
  BY <1>s, ExecuteCases, TypeParts DEF PlaceInv
<1>2. /\ Len(pending) \in Nat \ {0} /\ n = Len(pending) - 1
      /\ \A i \in 1 .. n : pending'[i] = pending[i + 1]
      /\ answered' = answered \cup {<<st, outcome>>}
  BY <1>n, <1>s, <1>0, <1>1, ExecuteElements
<1>3. st.account \in AccountIDs /\ st.kind \in {"select", "update"} /\ left' = left
  BY <1>1, StatementFields DEF Execute
<1> DEFINE a == st.account
<1>4. /\ n \in Nat /\ \A i \in 1 .. n : i + 1 \in 1 .. Len(pending) /\ i + 1 # 1
      /\ \A j \in 1 .. Len(pending) : j = 1 \/ (j - 1 \in 1 .. n /\ (j - 1) + 1 = j)
      /\ 1 \in 1 .. Len(pending)
  BY <1>2
<1>5. /\ \A i \in 1 .. n : \A b : IsSave(i, b)' <=> IsSave(i + 1, b)
      /\ \A b : IsSave(1, b) <=> st.kind = "update" /\ b = a
  BY <1>s, <1>2 DEF IsSave
<1>6. st.kind = "select" => \A i \in 1 .. Len(pending) : ~IsSave(i, a)
  <2> SUFFICES ASSUME st.kind = "select", NEW i \in 1 .. Len(pending), IsSave(i, a) PROVE FALSE
    OBVIOUS
  <2>1. i < 1
    BY <1>s, <1>3, <1>4 DEF SavesInv, SavesBeforeLoads
  <2> QED BY <1>2, <2>1
<1>7. LastSaveIsLatest'
  <2> SUFFICES ASSUME NEW i \in 1 .. n, NEW b \in AccountIDs, IsSave(i, b)',
                      \A j \in 1 .. n : IsSave(j, b)' => j <= i
               PROVE  pending'[i].player = left[b]
    BY <1>n, <1>3 DEF LastSaveIsLatest
  <2>1. IsSave(i + 1, b) /\ i + 1 \in 1 .. Len(pending)
    BY <1>4, <1>5
  <2>2. \A j \in 1 .. Len(pending) : IsSave(j, b) => j <= i + 1
    <3> TAKE j \in 1 .. Len(pending)
    <3> HAVE IsSave(j, b)
    <3>1. CASE j = 1
      BY <1>4, <3>1
    <3>2. CASE j - 1 \in 1 .. n /\ (j - 1) + 1 = j
      <4>1. IsSave(j - 1, b)'
        BY <1>5, <3>2
      <4>2. j - 1 <= i
        BY <3>2, <4>1
      <4> QED BY <1>4, <4>2
    <3> QED BY <1>4, <3>1, <3>2
  <2>3. pending[i + 1].player = left[b]
    BY <2>1, <2>2 DEF SavesInv, LastSaveIsLatest
  <2> QED BY <1>2, <2>3
<1>8. ASSUME NEW b \in AccountIDs, \A i \in 1 .. n : ~IsSave(i, b)', ~(st.kind = "update" /\ b = a)
      PROVE  \A j \in 1 .. Len(pending) : ~IsSave(j, b)
  <2> TAKE j \in 1 .. Len(pending)
  <2>1. CASE j = 1
    BY <1>5, <1>8, <2>1
  <2>2. CASE j - 1 \in 1 .. n /\ (j - 1) + 1 = j
    BY <1>5, <1>8, <2>2
  <2> QED BY <1>4, <2>1, <2>2
<1>9. RowIsLatest'
  <2> SUFFICES ASSUME NEW b \in AccountIDs \ failed', \A i \in 1 .. n : ~IsSave(i, b)'
               PROVE  row'[b] = left[b]
    BY <1>n, <1>3 DEF RowIsLatest
  <2>1. CASE st.kind = "update" /\ b = a
    <3>1. outcome = Done /\ row' = [row EXCEPT ![a] = st.player]
      BY <1>1, <2>1
    <3>2. \A j \in 1 .. Len(pending) : IsSave(j, a) => j <= 1
      <4> TAKE j \in 1 .. Len(pending)
      <4> HAVE IsSave(j, a)
      <4>1. CASE j - 1 \in 1 .. n /\ (j - 1) + 1 = j
        BY <1>5, <2>1, <4>1
      <4> QED BY <1>4, <4>1
    <3>3. st.player = left[a]
      BY <1>s, <1>3, <1>4, <1>5, <2>1, <3>2 DEF SavesInv, LastSaveIsLatest
    <3> QED BY <1>0, <1>3, <2>1, <3>1, <3>3
  <2>2. CASE ~(st.kind = "update" /\ b = a)
    <3>1. row'[b] = row[b] /\ b \notin failed
      BY <1>0, <1>1, <1>3, <2>2
    <3> QED BY <1>8, <2>2, <3>1 DEF SavesInv, RowIsLatest
  <2> QED BY <2>1, <2>2
<1>10. SavesBeforeLoads'
  <2> SUFFICES ASSUME NEW i \in 1 .. n, NEW j \in 1 .. n, NEW b \in AccountIDs,
                      pending'[i].kind = "select", pending'[i].account = b, IsSave(j, b)'
               PROVE  j < i
    BY <1>n DEF SavesBeforeLoads
  <2>1. j + 1 < i + 1
    BY <1>2, <1>4, <1>5 DEF SavesInv, SavesBeforeLoads
  <2> QED BY <1>4, <2>1
<1>11. AnsweredLoads'
  <2> SUFFICES ASSUME NEW x \in answered', x[1].kind = "select"
               PROVE  /\ \A i \in 1 .. n : ~IsSave(i, x[1].account)'
                      /\ x[2].is = "row" /\ x[1].account \notin failed' => x[2].player = left[x[1].account]
    BY <1>n, <1>3 DEF AnsweredLoads
  <2>1. CASE x \in answered
    <3>1. /\ \A i \in 1 .. Len(pending) : ~IsSave(i, x[1].account)
          /\ x[2].is = "row" /\ x[1].account \notin failed => x[2].player = left[x[1].account]
      BY <2>1 DEF SavesInv, AnsweredLoads
    <3>2. \A i \in 1 .. n : ~IsSave(i, x[1].account)'
      BY <1>4, <1>5, <3>1
    <3>3. ~(st.kind = "update" /\ x[1].account = a)
      BY <1>4, <1>5, <3>1
    <3>4. x[1].account \in failed' <=> x[1].account \in failed
      BY <1>1, <3>3
    <3> QED BY <3>1, <3>2, <3>4
  <2>2. CASE x = <<st, outcome>>
    <3>1. x[1] = st /\ x[2] = outcome
      BY <2>2
    <3>2. \A i \in 1 .. n : ~IsSave(i, a)'
      BY <1>4, <1>5, <1>6, <3>1
    <3>3. CASE outcome = Error
      BY <3>1, <3>2, <3>3 DEF Error
    <3>4. CASE outcome = Row(row[a])
      <4>1. outcome.player = row[a] /\ failed' = failed
        BY <1>1, <3>1, <3>4 DEF Row, Error, Done
      <4>2. a \notin failed => row[a] = left[a]
        BY <1>3, <1>6, <3>1 DEF SavesInv, RowIsLatest
      <4> QED BY <3>1, <3>2, <4>1, <4>2
    <3> QED BY <1>1, <3>1, <3>3, <3>4
  <2> QED BY <1>2, <2>1, <2>2
<1> QED BY <1>7, <1>9, <1>10, <1>11 DEF SavesInv

LEMMA SavesKept ==
    ASSUME SavesInv, UNCHANGED <<pending, row, left, failed>>, answered' \subseteq answered
    PROVE  SavesInv'
BY DEF SavesInv, LastSaveIsLatest, RowIsLatest, SavesBeforeLoads, AnsweredLoads, IsSave

LEMMA SavesInvInductive == PlaceInv /\ SavesInv /\ [GameNext]_gameVars => SavesInv'
<1> SUFFICES ASSUME PlaceInv, SavesInv, [GameNext]_gameVars PROVE SavesInv'
  OBVIOUS
<1>1. ASSUME NEW s \in Sessions, NEW a \in AccountIDs, StartLoadPlayer(s, a) PROVE SavesInv'
  <2>1. UNCHANGED <<row, left, failed>> /\ (UNCHANGED databaseVars \/ Database!Issue(Select(s, a)))
    BY <1>1 DEF StartLoadPlayer, historyVars
  <2> QED BY <2>1, IssueLoad, SavesKept DEF databaseVars
<1>2. CASE EndMatch \/ DeleteMatch \/ \E answer \in answered : EndLoadPlayer(answer)
  <2>1. UNCHANGED <<row, left, failed>> /\ \E answers : Database!Collect(answers)
    BY <1>2 DEF EndMatch, DeleteMatch, EndLoadPlayer, historyVars
  <2> QED BY <2>1, SavesKept DEF Database!Collect
<1>3. CASE CloseDatabase
  <2>1. pending = <<>> /\ answered' = answered /\ UNCHANGED <<row, left, failed>>
    BY <1>3 DEF CloseDatabase, PlaceInv, ShutdownInv, Database!Drop, historyVars
  <2>2. PICK taken \in {0, 1} : taken <= Len(pending) /\ pending' = SubSeq(pending, 1, taken)
    BY <1>3 DEF CloseDatabase, Database!Drop
  <2>3. taken = 0
    BY <2>1, <2>2
  <2>4. pending' = <<>>
    BY <2>2, <2>3, SubSeqEmpty
  <2> QED BY <2>1, <2>4, SavesKept
<1>4. CASE \/ UNCHANGED gameVars \/ AddNewSessions \/ EndSessions \/ UpdateTransfers \/ UpdateAttacks
           \/ EndUpdate \/ Stop \/ DeleteGame
           \/ \E s \in Sessions : NotifySession(s) \/ TimeOut(s) \/ UpdateGameSession(s) \/ UpdateJump(s)
                                  \/ StayInMatch(s)
  <2>1. UNCHANGED <<pending, answered, row, left, failed>>
    BY <1>4 DEF gameVars, AddNewSessions, EndSessions, UpdateTransfers, UpdateAttacks, EndUpdate, Stop,
                DeleteGame, NotifySession, TimeOut, UpdateGameSession, UpdateJump, StayInMatch,
                databaseVars, historyVars
  <2> QED BY <2>1, SavesKept
<1> QED BY <1>1, <1>2, <1>3, <1>4, IssueSaves, ExecuteSaves DEF GameNext, GameUpdate, Shutdown

LEMMA SavesInvAlways == GameSpec => [](PlaceInv /\ SavesInv)
<1>1. GameInit => SavesInv
  BY DEF GameInit, Database!Init, SavesInv, LastSaveIsLatest, RowIsLatest, SavesBeforeLoads, AnsweredLoads
<1> QED BY <1>1, PlaceInvInitially, PlaceInvInductive, SavesInvInductive, PTL DEF GameSpec

\* A login finds what its account left the game with: the statements of one
\* account are executed in the order in which they were issued, the save before
\* the load, and no save is issued while the account is loading
\* (Match.h:268, 277, Game.h:91).
THEOREM LoginsFindTheSave == GameSpec => []LoadsLatest
<1>1. PlaceInv /\ SavesInv => LoadsLatest
  <2> SUFFICES ASSUME PlaceInv, SavesInv, NEW answer \in answered,
                      answer[2].is = "row", answer[1].account \notin failed
               PROVE  answer[2].player = left[answer[1].account]
    BY DEF LoadsLatest
  <2>1. answer[1] \in Statements
    BY DEF PlaceInv, AccountsTypes, GameTypeOK
  <2>2. answer[1].kind = "update" => answer[2] \in {Done, Error}
    BY DEF PlaceInv, AccountsTypes, AnswersFit
  <2>3. answer[1].kind = "select"
    BY <2>1, <2>2, StatementFields DEF Done, Error
  <2> QED BY <2>3 DEF SavesInv, AnsweredLoads
<1> QED BY <1>1, SavesInvAlways, PTL

\* Once the matches are deleted no statement waits, so what the close of the
\* database drops is nothing, and every row is the player that left, unless the
\* server refused its last save (Game.h:39, Match.h:57, Main.cpp:198).
THEOREM ShutdownSaves == GameSpec => []SavesSurviveShutdown
<1>1. PlaceInv /\ SavesInv => SavesSurviveShutdown
  <2> SUFFICES ASSUME PlaceInv, SavesInv, phase \in {"deleted", "closed"}
               PROVE  pending = <<>> /\ \A a \in AccountIDs \ failed : row[a] = left[a]
    BY DEF SavesSurviveShutdown
  <2>1. pending = <<>>
    BY DEF PlaceInv, ShutdownInv
  <2> QED BY <2>1 DEF SavesInv, RowIsLatest
<1> QED BY <1>1, SavesInvAlways, PTL
=============================================================================
