------------------------ MODULE PredictionDFAProofs ------------------------
(***************************************************************************)
(* What is remembered of predictions is sound and only grows, for all      *)
(* ATNs, requests and simulations: of StartAt, TargetFrom, FullStart and   *)
(* InFullContext nothing is assumed, of the requests what                  *)
(* DecisionsAreNumbered and RequestsAreWellFormed say.                     *)
(*                                                                         *)
(* And it changes no prediction, which says something of the simulation as *)
(* a whole, so it needs to know what ExecATN is: Simulates unfolds it once *)
(* wherever the tokens of a request lead.                                  *)
(***************************************************************************)
EXTENDS PredictionDFA, FiniteSetTheorems, TLAPS

Loops == {"execDFA", "execATN", "fullContext", "fullReach"}

(* dfa is a function of decisions to records. *)
Shape ==
  dfa = [d \in DOMAIN g.decisionNumber |-> [start |-> dfa[d].start, edges |-> dfa[d].edges]]

(* A loop that has consumed nothing is at the start state: what the LL1    *)
(* table records of one token.                                             *)
AtStart ==
  run.by \in {"execDFA", "execATN"} /\ run.k = 0 /\ request.LA[0] # EOF =>
    run.s = StartAt(g, request.decision, StartLevel(request))

IInv == TypeOK /\ Shape /\ AtStart /\ CacheIsSound

-----------------------------------------------------------------------------
(* Helpers. *)

(* An entry, and the others. *)
LEMMA PutEntry ==
  ASSUME NEW f, NEW x, NEW y
  PROVE  /\ DOMAIN Put(f, x, y) = DOMAIN f \cup {x}
         /\ Put(f, x, y)[x] = y
         /\ \A z \in DOMAIN f : z # x => Put(f, x, y)[z] = f[z]
  BY DEF Put

(* An entry that agrees with the one it may replace extends the map. *)
LEMMA PutExtends ==
  ASSUME NEW f, NEW x, NEW y, x \in DOMAIN f => f[x] = y
  PROVE  Extends(Put(f, x, y), f)
  BY DEF Put, Extends

(* Nothing new is an extension too. *)
LEMMA ExtendsItself == ASSUME NEW f PROVE Extends(f, f)
  BY DEF Extends

(* The parts of dfa that a new start state, and a new edge, leave alone. *)
LEMMA StartUpdated ==
  ASSUME Shape, NEW d \in DOMAIN dfa, NEW v, g' = g,
         dfa' = [dfa EXCEPT ![d].start = v]
  PROVE  /\ Shape' /\ DOMAIN dfa' = DOMAIN dfa
         /\ dfa'[d].start = v /\ dfa'[d].edges = dfa[d].edges
         /\ \A e \in DOMAIN dfa : e # d => dfa'[e] = dfa[e]
  BY DEF Shape

(* The same for a new edge. *)
LEMMA EdgesUpdated ==
  ASSUME Shape, NEW d \in DOMAIN dfa, NEW v, g' = g,
         dfa' = [dfa EXCEPT ![d].edges = v]
  PROVE  /\ Shape' /\ DOMAIN dfa' = DOMAIN dfa
         /\ dfa'[d].edges = v /\ dfa'[d].start = dfa[d].start
         /\ \A e \in DOMAIN dfa : e # d => dfa'[e] = dfa[e]
  BY DEF Shape

(* Division by B of a number that is written with it. *)
LEMMA DivMod ==
  ASSUME NEW n \in Nat, NEW B \in Nat, B > 0, NEW t \in Nat, t < B
  PROVE  (n * B + t) \div B = n /\ (n * B + t) % B = t /\ t % B = t
  <1>1. (n * B + t) \div B = n
    BY SMT
  <1>2. (n * B + t) % B = t
    BY SMT
  <1>3. t % B = t
    BY SMT
  <1> QED BY <1>1, <1>2, <1>3

(* All that matters of it, as the provers are slow with large numerals. *)
LEMMA MaxShortIs == MaxShort \in Nat
  BY DEF MaxShort

LEMMA ShortIsSmall ==
  ASSUME NEW n \in 0 .. MaxShort
  PROVE  n \in Nat /\ MaxShort + 1 \in Nat /\ n < MaxShort + 1
  BY MaxShortIs

(* The key of the LL1 table packs a decision and a token type without loss. *)
LEMMA KeyUnpacks ==
  ASSUME NEW n \in 0 .. MaxShort, NEW t \in 0 .. MaxShort
  PROVE  /\ Key(n, t) \div (MaxShort + 1) = n
         /\ Key(n, t) % (MaxShort + 1) = t
  <1> DEFINE B == MaxShort + 1
  <1>1. B \in Nat /\ B > 0 /\ n \in Nat /\ n < B /\ t \in Nat /\ t < B
    BY ShortIsSmall
  <1> HIDE DEF B
  <1>2. n % B = n
    BY <1>1, DivMod
  <1>3. Key(n, t) = n * B + t
    BY <1>2 DEF Key, B
  <1>4. Key(n, t) \div B = n /\ Key(n, t) % B = t
    BY <1>1, <1>3, DivMod
  <1> QED BY <1>4 DEF B

(* The alternative of a set that has one only. *)
LEMMA UniqueIsAlt ==
  ASSUME NEW s, IsUnique(s)
  PROVE  Alts(s) = {UniqueAlt(s)}
  BY DEF IsUnique, UniqueAlt

-----------------------------------------------------------------------------
(* The invariant holds at first, ... *)

(* Nothing is remembered at first. *)
LEMMA InitIInv == Init => IInv
  <1> SUFFICES ASSUME Init PROVE IInv
    OBVIOUS
  <1>1. TypeOK
    BY RequestsAreWellFormed DEF Init, TypeOK, Idle
  <1>2. Shape /\ AtStart
    BY DEF Init, Shape, AtStart, Idle
  <1>3. CacheIsSound
    BY DEF Init, CacheIsSound, StartStatesAreSound, EdgesAreSound, LL1TableIsSound, Nothing
  <1> QED BY <1>1, <1>2, <1>3 DEF IInv

(* ... and the actions, taken one by one, keep it. *)

(* The table is read. *)
LEMMA TableStep == ASSUME IInv, PredictByLL1Table PROVE IInv'
  <1> PICK r \in Requests(g) : /\ InLL1Table(r) /\ Begin(r)
                               /\ UNCHANGED <<dfa, run>>
    BY DEF PredictByLL1Table
  <1>1. UNCHANGED <<g, dfa, LL1Table, run>> /\ request' = r /\ run = Idle
    BY DEF Begin, PredictByLL1Table
  <1>2. TypeOK'
    BY <1>1, RequestsAreWellFormed DEF IInv, TypeOK, Begin
  <1>3. Shape' /\ AtStart'
    BY <1>1 DEF IInv, Shape, AtStart, Idle
  <1>4. CacheIsSound'
    BY <1>1 DEF IInv, CacheIsSound, StartStatesAreSound, EdgesAreSound, LL1TableIsSound,
                EntryIsSound, IsPrecedence
  <1> QED BY <1>2, <1>3, <1>4 DEF IInv

(* A start state is found, or computed and entered. *)
LEMMA StartStep == ASSUME IInv, PredictByDFA PROVE IInv'
  <1> PICK r \in Requests(g) :
         /\ Begin(r) /\ run = Idle
         /\ \E s \in {IF StartLevel(r) \in DOMAIN dfa[r.decision].start
                      THEN dfa[r.decision].start[StartLevel(r)]
                      ELSE StartAt(g, r.decision, StartLevel(r))} :
              /\ dfa' = [dfa EXCEPT ![r.decision].start = Put(@, StartLevel(r), s)]
              /\ run' = [by |-> "execDFA", s |-> s, k |-> 0]
         /\ answer' = Unanswered
    BY DEF PredictByDFA
  <1> DEFINE d == r.decision
             l == StartLevel(r)
             s == StartAt(g, d, l)
  <1>1. UNCHANGED <<g, LL1Table>> /\ request' = r /\ asked' = asked + 1 /\ asked < MaxPredictions
    BY DEF Begin
  <1>2. g \in Grammars /\ d \in DOMAIN dfa /\ 0 \in DOMAIN r.LA
    BY RequestsAreWellFormed DEF IInv, TypeOK
  <1>3. /\ dfa' = [dfa EXCEPT ![d].start = Put(dfa[d].start, l, s)]
        /\ run' = [by |-> "execDFA", s |-> s, k |-> 0]
    BY <1>2 DEF IInv, CacheIsSound, StartStatesAreSound
  <1> HIDE DEF l, s
  <1>4. /\ Shape' /\ DOMAIN dfa' = DOMAIN dfa
        /\ dfa'[d].start = Put(dfa[d].start, l, s) /\ dfa'[d].edges = dfa[d].edges
        /\ \A e \in DOMAIN dfa : e # d => dfa'[e] = dfa[e]
    BY <1>1, <1>2, <1>3, StartUpdated DEF IInv
  <1>5. TypeOK'
    <2>1. asked' \in 0 .. MaxPredictions
      BY <1>1, RequestsAreWellFormed DEF IInv, TypeOK
    <2> QED BY <2>1, <1>1, <1>2, <1>3, <1>4 DEF IInv, TypeOK
  <1>6. AtStart'
    BY <1>1, <1>3 DEF AtStart, StartLevel, IsPrecedence, l, s
  <1>7. StartStatesAreSound'
    <2> SUFFICES ASSUME NEW e \in DOMAIN dfa, NEW m \in DOMAIN dfa'[e].start
                 PROVE  dfa'[e].start[m] = StartAt(g, e, m)
      BY <1>1, <1>4 DEF StartStatesAreSound
    <2>1. CASE e = d
      <3>1. m = l => dfa'[d].start[m] = s
        BY <1>4 DEF Put
      <3>2. m # l => /\ m \in DOMAIN dfa[d].start
                     /\ dfa'[d].start[m] = dfa[d].start[m]
        BY <2>1, <1>4 DEF Put
      <3> QED BY <2>1, <3>1, <3>2 DEF IInv, CacheIsSound, StartStatesAreSound, s
    <2>2. CASE e # d
      BY <2>2, <1>4 DEF IInv, CacheIsSound, StartStatesAreSound
    <2> QED BY <2>1, <2>2
  <1>8. EdgesAreSound'
    BY <1>1, <1>4 DEF IInv, CacheIsSound, EdgesAreSound
  <1>9. LL1TableIsSound'
    BY <1>1, <1>4 DEF IInv, CacheIsSound, LL1TableIsSound, EntryIsSound, IsPrecedence
  <1> QED BY <1>4, <1>5, <1>6, <1>7, <1>8, <1>9 DEF IInv, CacheIsSound

(* The actions that leave the cache alone. *)
LEMMA CacheUntouched ==
  ASSUME IInv, UNCHANGED <<g, dfa, LL1Table>>
  PROVE  Shape' /\ CacheIsSound'
  <1>1. Shape'
    BY DEF IInv, Shape
  <1>2. StartStatesAreSound'
    BY DEF IInv, CacheIsSound, StartStatesAreSound
  <1>3. EdgesAreSound'
    BY DEF IInv, CacheIsSound, EdgesAreSound
  <1>4. LL1TableIsSound'
    BY DEF IInv, CacheIsSound, LL1TableIsSound, EntryIsSound, IsPrecedence
  <1> QED BY <1>1, <1>2, <1>3, <1>4 DEF CacheIsSound

(* The request of a loop, and the token it is at. *)
LEMMA Looking ==
  ASSUME IInv, run # Idle
  PROVE  /\ g \in Grammars /\ request \in Requests(g) /\ request.decision \in DOMAIN dfa
         /\ run.by \in Loops /\ run.k \in DOMAIN request.LA /\ run.k \in Nat
         /\ 0 \in DOMAIN request.LA
         /\ Symbol # EOF => run.k + 1 \in DOMAIN request.LA
  <1>1. /\ g \in Grammars /\ request \in Requests(g) /\ DOMAIN dfa = DOMAIN g.decisionNumber
        /\ run.by \in Loops /\ run.k \in DOMAIN request.LA
    BY DEF IInv, TypeOK, Loops
  <1>2. PICK last \in DOMAIN request.LA :
          /\ last \in Nat /\ DOMAIN request.LA = 0 .. last
          /\ \A i \in 0 .. last : (request.LA[i] = EOF) <=> (i = last)
    BY <1>1, RequestsAreWellFormed
  <1>3. request.decision \in DOMAIN dfa
    BY <1>1, RequestsAreWellFormed
  <1>4. Symbol # EOF => run.k + 1 \in DOMAIN request.LA
    BY <1>1, <1>2 DEF Symbol
  <1>5. run.k \in Nat /\ 0 \in DOMAIN request.LA
    BY <1>1, <1>2
  <1> QED BY <1>1, <1>3, <1>4, <1>5

(* Where a loop goes on, or ends, it does so as TypeOK and AtStart say. *)
LEMMA Ended ==
  ASSUME IInv, run # Idle, UNCHANGED <<g, request, asked>>, DOMAIN dfa' = DOMAIN dfa,
         run' = Idle
  PROVE  TypeOK' /\ AtStart'
  <1>1. run'.by = "nobody"
    BY DEF Idle
  <1> QED BY <1>1 DEF IInv, TypeOK, AtStart

(* Where it goes on, it is at the next token, unless that is EOF. *)
LEMMA GoneOn ==
  ASSUME IInv, run # Idle, UNCHANGED <<g, request, asked>>, DOMAIN dfa' = DOMAIN dfa,
         answer' = Unanswered, run'.by \in Loops,
         run'.by \in {"execDFA", "execATN"} =>
           run'.k = IF Symbol = EOF THEN run.k ELSE run.k + 1,
         run'.by \notin {"execDFA", "execATN"} => run'.k = 0
  PROVE  TypeOK' /\ AtStart'
  <1>1. run'.k \in DOMAIN request.LA
    BY Looking
  <1>2. TypeOK'
    BY <1>1, Looking DEF IInv, TypeOK, Loops
  <1>3. ASSUME run'.by \in {"execDFA", "execATN"}, run'.k = 0
        PROVE  request.LA[0] = EOF
    BY <1>3, Looking DEF Symbol
  <1>4. AtStart'
    BY <1>3 DEF AtStart
  <1> QED BY <1>2, <1>4

(* execDFA at a set that accepts. *)
LEMMA AcceptStep == ASSUME IInv, AcceptInDFA PROVE IInv'
  <1>1. run.by = "execDFA" /\ UNCHANGED <<g, dfa, LL1Table, request, asked>>
    BY Zenon DEF AcceptInDFA
  <1>2. run # Idle
    BY <1>1 DEF Idle
  <1>3. RetriesIn("fullContext") \/ Returns(Decide(Sim(request), run.s))
    BY Zenon DEF AcceptInDFA
  <1>4. run' = Idle \/ (answer' = Unanswered /\ run'.by = "fullContext" /\ run'.k = 0)
    BY <1>3 DEF RetriesIn, Returns
  <1>5. TypeOK' /\ AtStart'
    BY <1>1, <1>2, <1>4, Ended, GoneOn DEF Loops
  <1> QED BY <1>1, <1>5, CacheUntouched DEF IInv

(* An edge that is there. *)
LEMMA EdgeStep == ASSUME IInv, FollowEdge PROVE IInv'
  <1>1. run # Idle /\ UNCHANGED <<g, dfa, LL1Table, request, asked>>
    BY DEF FollowEdge, Idle
  <1>2. \/ run' = Idle
        \/ /\ answer' = Unanswered /\ run'.by = "execDFA"
           /\ run'.k = IF Symbol = EOF THEN run.k ELSE run.k + 1
    BY DEF FollowEdge, Goes, Returns
  <1>3. TypeOK' /\ AtStart'
    BY <1>1, <1>2, Ended, GoneOn DEF Loops
  <1> QED BY <1>1, <1>3, CacheUntouched DEF IInv

(* No edge: execATN takes over. *)
LEMMA LeaveStep == ASSUME IInv, LeaveDFA PROVE IInv'
  <1>1. run # Idle /\ UNCHANGED <<g, dfa, LL1Table, request, answer, asked>>
    BY DEF LeaveDFA, Idle
  <1>2. run.by = "execDFA" /\ run' = [by |-> "execATN", s |-> run.s, k |-> run.k]
    BY DEF LeaveDFA
  <1>3. Shape' /\ CacheIsSound'
    BY <1>1, CacheUntouched
  <1>4. run'.by = "execATN" /\ run'.k = run.k /\ run'.s = run.s
    BY <1>2
  <1> QED BY <1>1, <1>2, <1>3, <1>4 DEF IInv, TypeOK, AtStart, StartLevel, IsPrecedence

(* The full context, which is not remembered. *)
LEMMA RetryStep == ASSUME IInv, RetryInFullContext PROVE IInv'
  <1>1. /\ run.by \in {"fullContext", "fullReach"}
        /\ UNCHANGED <<g, dfa, LL1Table, request, asked>>
    BY Zenon DEF RetryInFullContext
  <1>2. run' = Idle
    BY DEF RetryInFullContext, Returns
  <1>3. run # Idle
    BY <1>1 DEF Idle
  <1> QED BY <1>1, <1>2, <1>3, Ended, CacheUntouched DEF IInv

(* What goes to the table is sound: the loop is at the start set, and the  *)
(* key can be taken apart again.                                           *)
LEMMA DecidedEntry ==
  ASSUME IInv, run.by = "execATN",
         DecidedByOneToken(TargetFrom(g, request.decision, run.s, Symbol))
  PROVE  EntryIsSound(KeyOf(request),
                      UniqueAlt(TargetFrom(g, request.decision, run.s, Symbol)))
  <1> DEFINE d == request.decision
             n == g.decisionNumber[d]
             t == request.LA[0]
  <1>1. run # Idle
    BY DEF Idle
  <1>2. g \in Grammars /\ d \in DOMAIN g.decisionNumber /\ d \in DOMAIN dfa
    BY <1>1, Looking, RequestsAreWellFormed
  <1>3. n \in 0 .. MaxShort
    <2>1. \A c \in DOMAIN g.decisionNumber : g.decisionNumber[c] \in 0 .. MaxShort
      BY <1>2, DecisionsAreNumbered
    <2> QED BY <1>2, <2>1
  <1>4. run.k = 0 /\ Symbol = t /\ ~IsPrecedence(d)
    BY DEF DecidedByOneToken, Symbol
  <1>5. t \in 0 .. MaxShort /\ t # EOF
    <2>1. IsShort(t)
      BY <1>4, Zenon DEF DecidedByOneToken
    <2>2. t \in 0 .. MaxShort
      BY <2>1 DEF IsShort
    <2> HIDE DEF t
    <2> QED BY <2>2, ShortIsSmall DEF EOF
  <1>6. run.s = StartAt(g, d, 0)
    BY <1>4, <1>5 DEF IInv, AtStart, StartLevel
  <1>7. KeyOf(request) \div (MaxShort + 1) = n /\ KeyOf(request) % (MaxShort + 1) = t
    BY <1>3, <1>5, KeyUnpacks DEF KeyOf
  <1>9. /\ Alts(TargetFrom(g, d, run.s, t)) = {UniqueAlt(TargetFrom(g, d, run.s, t))}
        /\ ~HasSemanticContext(TargetFrom(g, d, run.s, t))
    BY <1>4, UniqueIsAlt DEF DecidedByOneToken
  <1> QED BY <1>2, <1>4, <1>6, <1>7, <1>9 DEF EntryIsSound

(* A state that a token leads to is found, or computed and entered; what   *)
(* the table records of a token is what the start state says of it.        *)
LEMMA ReachStep == ASSUME IInv, Reach PROVE IInv'
  <1> DEFINE d == request.decision
             e == <<run.s, Symbol>>
             s == TargetFrom(g, d, run.s, Symbol)
  <1>0. run.by = "execATN"
    BY Zenon DEF Reach
  <1>1. run # Idle /\ run.by = "execATN"
    BY <1>0 DEF Idle
  <1>2. /\ g \in Grammars /\ request \in Requests(g) /\ d \in DOMAIN dfa
        /\ run.k \in Nat
    BY <1>1, Looking
  <1>3. e \in DOMAIN dfa[d].edges => dfa[d].edges[e] = s
    BY <1>2 DEF IInv, CacheIsSound, EdgesAreSound
  <1>4. /\ UNCHANGED <<g, request, asked>>
        /\ dfa' = [dfa EXCEPT ![d].edges = Put(dfa[d].edges, e, s)]
        /\ Remember(s)
        /\ \/ run' = Idle
           \/ /\ answer' = Unanswered /\ run'.by = "execATN"
              /\ run'.k = IF Symbol = EOF THEN run.k ELSE run.k + 1
           \/ answer' = Unanswered /\ run'.by = "fullReach" /\ run'.k = 0
    <2> PICK t \in {IF e \in DOMAIN Edges THEN Edges[e] ELSE s} :
          /\ dfa' = [dfa EXCEPT ![request.decision].edges = Put(@, e, t)]
          /\ Remember(t)
          /\ IF t = Error THEN Returns(HandleNoViableAlt(Sim(request), run.s))
             ELSE IF ~Accepts(t) THEN answer' = Unanswered /\ run' = Goes("execATN", t)
             ELSE IF RetriesInExecATN(Sim(request), t) THEN RetriesIn("fullReach")
             ELSE Returns(Decide(Sim(request), t))
      BY DEF Reach
    <2>1. t = s
      BY <1>3 DEF Edges
    <2>2. UNCHANGED <<g, request, asked>>
      BY DEF Reach
    <2>3. \/ run' = Idle
          \/ /\ answer' = Unanswered /\ run'.by = "execATN"
             /\ run'.k = IF Symbol = EOF THEN run.k ELSE run.k + 1
          \/ answer' = Unanswered /\ run'.by = "fullReach" /\ run'.k = 0
      <3>1. \/ \E result : Returns(result)
            \/ answer' = Unanswered /\ run' = Goes("execATN", t)
            \/ RetriesIn("fullReach")
        BY Zenon
      <3>2. (\E result : Returns(result)) => run' = Idle
        BY DEF Returns
      <3>3. RetriesIn("fullReach") =>
              answer' = Unanswered /\ run'.by = "fullReach" /\ run'.k = 0
        BY DEF RetriesIn
      <3>4. run' = Goes("execATN", t) =>
              /\ run'.by = "execATN"
              /\ run'.k = IF Symbol = EOF THEN run.k ELSE run.k + 1
        BY DEF Goes
      <3> QED BY <3>1, <3>2, <3>3, <3>4
    <2> QED BY <2>1, <2>2, <2>3
  <1> HIDE DEF e, s
  <1>5. /\ Shape' /\ DOMAIN dfa' = DOMAIN dfa
        /\ dfa'[d].edges = Put(dfa[d].edges, e, s) /\ dfa'[d].start = dfa[d].start
        /\ \A c \in DOMAIN dfa : c # d => dfa'[c] = dfa[c]
    BY <1>2, <1>4, EdgesUpdated DEF IInv
  <1>6. TypeOK' /\ AtStart'
    BY <1>1, <1>4, <1>5, Ended, GoneOn DEF Loops
  <1>7. StartStatesAreSound'
    <2>1. \A c \in DOMAIN dfa : dfa'[c].start = dfa[c].start
      BY <1>5
    <2> QED BY <2>1, <1>4, <1>5 DEF IInv, CacheIsSound, StartStatesAreSound
  <1>8. EdgesAreSound'
    <2> SUFFICES ASSUME NEW c \in DOMAIN dfa, NEW f \in DOMAIN dfa'[c].edges
                 PROVE  dfa'[c].edges[f] = TargetFrom(g, c, f[1], f[2])
      BY <1>4, <1>5 DEF EdgesAreSound
    <2>1. CASE c # d
      BY <2>1, <1>5 DEF IInv, CacheIsSound, EdgesAreSound
    <2>2. CASE c = d /\ f = e
      BY <2>2, <1>5 DEF Put, e, s
    <2>3. CASE c = d /\ f # e
      <3>1. f \in DOMAIN dfa[d].edges /\ dfa'[d].edges[f] = dfa[d].edges[f]
        BY <2>3, <1>5 DEF Put
      <3> QED BY <3>1, <2>3, <1>2 DEF IInv, CacheIsSound, EdgesAreSound
    <2> QED BY <2>1, <2>2, <2>3
  <1>9. LL1TableIsSound'
    <2>1. \A key, alt : EntryIsSound(key, alt) => EntryIsSound(key, alt)'
      BY <1>4, <1>5 DEF EntryIsSound, IsPrecedence
    <2>2. \A key \in DOMAIN LL1Table : EntryIsSound(key, LL1Table[key])
      BY DEF IInv, CacheIsSound, LL1TableIsSound
    <2>3. CASE s # Error /\ DecidedByOneToken(s)
      <3>1. LL1Table' = Put(LL1Table, KeyOf(request), UniqueAlt(s))
        BY <2>3, <1>4 DEF Remember
      <3>2. EntryIsSound(KeyOf(request), UniqueAlt(s))
        BY <2>3, <1>1, DecidedEntry DEF s
      <3> QED BY <2>1, <2>2, <3>1, <3>2 DEF LL1TableIsSound, Put
    <2>4. CASE ~(s # Error /\ DecidedByOneToken(s))
      <3>1. LL1Table' = LL1Table
        BY <2>4, <1>4 DEF Remember
      <3> QED BY <2>1, <2>2, <3>1 DEF LL1TableIsSound
    <2> QED BY <2>3, <2>4
  <1> QED BY <1>5, <1>6, <1>7, <1>8, <1>9 DEF IInv, CacheIsSound

(* Nothing happens. *)
LEMMA StutterStep == ASSUME IInv, UNCHANGED vars PROVE IInv'
  <1>1. UNCHANGED <<g, dfa, LL1Table, request, run, answer, asked>>
    BY DEF vars
  <1>2. TypeOK' /\ AtStart'
    BY <1>1 DEF IInv, TypeOK, AtStart, StartLevel, IsPrecedence
  <1> QED BY <1>1, <1>2, CacheUntouched DEF IInv

(* All actions keep the invariant. *)
LEMMA NextIInv == IInv /\ [Next]_vars => IInv'
  BY TableStep, StartStep, AcceptStep, EdgeStep, LeaveStep, ReachStep, RetryStep, StutterStep
     DEF Next, Turn

(* So it always holds. *)
LEMMA Invariance == Spec => []IInv
  BY InitIInv, NextIInv, PTL DEF Spec

(* Nothing that is entered contradicts what was there. *)
Grows ==
  /\ Extends(LL1Table', LL1Table)
  /\ \A d \in DOMAIN dfa : /\ Extends(dfa'[d].start, dfa[d].start)
                            /\ Extends(dfa'[d].edges, dfa[d].edges)

(* What does not touch the cache. *)
LEMMA UntouchedGrows == ASSUME UNCHANGED <<dfa, LL1Table>> PROVE Grows
  BY ExtendsItself DEF Grows

(* A start state is entered where there is none, or the same again. *)
LEMMA StartGrows == ASSUME IInv, PredictByDFA PROVE Grows
  <1> PICK r \in Requests(g) :
         /\ Begin(r)
         /\ \E s \in {IF StartLevel(r) \in DOMAIN dfa[r.decision].start
                      THEN dfa[r.decision].start[StartLevel(r)]
                      ELSE StartAt(g, r.decision, StartLevel(r))} :
              dfa' = [dfa EXCEPT ![r.decision].start = Put(@, StartLevel(r), s)]
    BY DEF PredictByDFA
  <1> DEFINE d == r.decision
             l == StartLevel(r)
  <1>1. UNCHANGED <<g, LL1Table>>
    BY DEF Begin
  <1>2. g \in Grammars /\ d \in DOMAIN dfa
    BY RequestsAreWellFormed DEF IInv, TypeOK
  <1>3. PICK s : /\ dfa' = [dfa EXCEPT ![d].start = Put(dfa[d].start, l, s)]
                 /\ l \in DOMAIN dfa[d].start => dfa[d].start[l] = s
    OBVIOUS
  <1> HIDE DEF l
  <1>4. /\ dfa'[d].start = Put(dfa[d].start, l, s) /\ dfa'[d].edges = dfa[d].edges
        /\ \A e \in DOMAIN dfa : e # d => dfa'[e] = dfa[e]
    BY <1>1, <1>2, <1>3, StartUpdated DEF IInv
  <1>5. Extends(dfa'[d].start, dfa[d].start)
    BY <1>3, <1>4 DEF Extends, Put
  <1> QED BY <1>1, <1>4, <1>5, ExtendsItself DEF Grows

(* Two entries of the table under one key are of one decision. *)
LEMMA SameEntry ==
  ASSUME IInv, NEW key, NEW alt1, NEW alt2, EntryIsSound(key, alt1), EntryIsSound(key, alt2)
  PROVE  alt1 = alt2
  <1>1. g \in Grammars /\ DOMAIN dfa = DOMAIN g.decisionNumber
    BY DEF IInv, TypeOK
  <1> DEFINE After(d) == TargetFrom(g, d, StartAt(g, d, 0), key % (MaxShort + 1))
  <1>2. PICK d \in DOMAIN dfa : /\ g.decisionNumber[d] = key \div (MaxShort + 1)
                               /\ Alts(After(d)) = {alt1}
    BY DEF EntryIsSound
  <1>3. PICK e \in DOMAIN dfa : /\ g.decisionNumber[e] = key \div (MaxShort + 1)
                               /\ Alts(After(e)) = {alt2}
    BY DEF EntryIsSound
  <1>4. d = e
    BY <1>1, <1>2, <1>3, DecisionsAreNumbered
  <1> QED BY <1>2, <1>3, <1>4

(* So is an edge, and what goes to the table. *)
LEMMA ReachGrows == ASSUME IInv, Reach PROVE Grows
  <1> DEFINE d == request.decision
             k == <<run.s, Symbol>>
             s == TargetFrom(g, d, run.s, Symbol)
  <1>1. run.by = "execATN" /\ g' = g
    BY Zenon DEF Reach
  <1>2. run # Idle
    BY <1>1 DEF Idle
  <1>3. d \in DOMAIN dfa
    BY <1>2, Looking
  <1>4. k \in DOMAIN dfa[d].edges => dfa[d].edges[k] = s
    BY <1>3 DEF IInv, CacheIsSound, EdgesAreSound
  <1>5. PICK t \in {IF k \in DOMAIN Edges THEN Edges[k] ELSE s} :
          /\ dfa' = [dfa EXCEPT ![request.decision].edges = Put(@, k, t)]
          /\ Remember(t)
    BY DEF Reach
  <1>6. t = s
    BY <1>4 DEF Edges
  <1> HIDE DEF k, s
  <1>7. /\ dfa'[d].edges = Put(dfa[d].edges, k, s) /\ dfa'[d].start = dfa[d].start
        /\ \A e \in DOMAIN dfa : e # d => dfa'[e] = dfa[e]
    BY <1>1, <1>3, <1>5, <1>6, EdgesUpdated DEF IInv
  <1>8. Extends(dfa'[d].edges, dfa[d].edges)
    BY <1>4, <1>7 DEF Extends, Put
  <1>9. Extends(LL1Table', LL1Table)
    <2>1. CASE s # Error /\ DecidedByOneToken(s)
      <3>1. EntryIsSound(KeyOf(request), UniqueAlt(s))
        BY <2>1, <1>1, DecidedEntry DEF s
      <3>2. KeyOf(request) \in DOMAIN LL1Table =>
              EntryIsSound(KeyOf(request), LL1Table[KeyOf(request)])
        BY DEF IInv, CacheIsSound, LL1TableIsSound
      <3>3. KeyOf(request) \in DOMAIN LL1Table => LL1Table[KeyOf(request)] = UniqueAlt(s)
        BY <3>1, <3>2, SameEntry
      <3>4. LL1Table' = Put(LL1Table, KeyOf(request), UniqueAlt(s))
        BY <2>1, <1>5, <1>6 DEF Remember
      <3> QED BY <3>3, <3>4 DEF Extends, Put
    <2>2. CASE ~(s # Error /\ DecidedByOneToken(s))
      BY <2>2, <1>5, <1>6, ExtendsItself DEF Remember
    <2> QED BY <2>1, <2>2
  <1> QED BY <1>7, <1>8, <1>9, ExtendsItself DEF Grows

(* All actions only add. *)
LEMMA NextGrows == IInv /\ [Next]_vars => [Grows]_vars
  <1> SUFFICES ASSUME IInv, Next PROVE Grows
    OBVIOUS
  <1>1. CASE PredictByLL1Table \/ AcceptInDFA \/ FollowEdge \/ LeaveDFA \/ RetryInFullContext
    <2>1. UNCHANGED <<dfa, LL1Table>>
      BY <1>1, Zenon DEF PredictByLL1Table, Begin, AcceptInDFA, FollowEdge, LeaveDFA,
                         RetryInFullContext
    <2> QED BY <2>1, UntouchedGrows
  <1>2. CASE PredictByDFA
    BY <1>2, StartGrows
  <1>3. CASE Reach
    BY <1>3, ReachGrows
  <1> QED BY <1>1, <1>2, <1>3 DEF Next, Turn

-----------------------------------------------------------------------------
(* Where the tokens of a request lead to: to sets of configurations, each  *)
(* with the token that is next.                                            *)
IsClosed(h, r, family) ==
  /\ <<StartAt(h, r.decision, r.level), 0>> \in family
  /\ \A s : \A k \in DOMAIN r.LA :
       <<s, k>> \in family /\ ~IsAccepting(SimOf(h, r), s) =>
         <<TargetFrom(h, r.decision, s, r.LA[k]), Behind(r, k)>> \in family
LeadsTo(h, r, s, k) == \A family : IsClosed(h, r, family) => <<s, k>> \in family

Simulates ==
  \A h \in Grammars : \A r \in Requests(h) : \A s : \A k \in DOMAIN r.LA :
    LeadsTo(h, r, s, k) => IsTurned(h, r, s, k)

(* What is left to do comes to the prediction that nothing remembered would*)
(* give: in each loop, and in the retry.                                   *)
Rest == ExecATN(Sim(request), request.stack, run.s, run.k)
Wanted == Uncached(g, request)

OnCourse ==
  /\ run.by \in {"execDFA", "execATN"} => LeadsTo(g, request, run.s, run.k)
  /\ run.by = "execDFA" =>
       \/ Wanted = Rest
       \/ Accepts(run.s) /\ Wanted = FromAccepting(g, request, run.s)
  /\ run.by = "execATN" => ~Accepts(run.s) /\ Wanted = Rest
  /\ run.by = "fullContext" =>
       \/ Wanted = InFull(g, request)
       \/ /\ Wanted \in {AssertionError, NoViableAlt} /\ request.mode = "LL"
          /\ AcceptsAtOnce(g, request)
  /\ run.by = "fullReach" =>
       Wanted = IF AcceptsAtOnce(g, request) THEN AssertionError ELSE InFull(g, request)

(* An entry of the LL1 table is one of a decision whose start set does not *)
(* accept, so that a loop would have read the token too.                   *)
StartAccepts(d) == IsAccepting(Simulation(g, d, Nothing, 0, {}, TRUE), StartAt(g, d, 0))
EntryReads(key) ==
  \E d \in DOMAIN dfa : g.decisionNumber[d] = key \div (MaxShort + 1) /\ ~StartAccepts(d)
EntriesRead == \A key \in DOMAIN LL1Table : EntryReads(key)

UInv == IInv /\ EntriesRead /\ OnCourse /\ AnswersAreUncached

(* Whether a set is in conflict is up to the ATN and the kind of context.  *)
LEMMA SameConflict ==
  ASSUME NEW x, NEW y, x.g = y.g, x.full = y.full, NEW s, IsConflicted(x, s)
  PROVE  IsConflicted(y, s)
<1> DEFINE least == MinimumOf(Alts(s))
<1>1. \A c : Row(x, c) = Row(y, c)
  BY DEF Row, AtStop
<1>2. \A S : Join(x, S) = Join(y, S)
  BY DEF Join
<1>3. Rows(x, s) = Rows(y, s)
  BY <1>1 DEF Rows
<1>4. \A row : AltsAt(x, s, row) = AltsAt(y, s, row)
  BY <1>1 DEF AltsAt
<1>5. \A row, a : ContextAt(x, s, row, a) = ContextAt(y, s, row, a)
  BY <1>1, <1>2 DEF ContextAt
<1> HIDE DEF least
<1>6. /\ Cardinality(Alts(s)) > 1
      /\ \A row \in Rows(x, s) :
           /\ least \in AltsAt(x, s, row)
           /\ \A a \in AltsAt(x, s, row) :
                Join(x, ContextAt(x, s, row, least) \cup ContextAt(x, s, row, a))
                  = ContextAt(x, s, row, least)
  BY DEF IsConflicted, least
<1>7. \A row \in Rows(y, s) :
        /\ least \in AltsAt(y, s, row)
        /\ \A a \in AltsAt(y, s, row) :
             Join(y, ContextAt(y, s, row, least) \cup ContextAt(y, s, row, a))
               = ContextAt(y, s, row, least)
  <2> SUFFICES ASSUME NEW row \in Rows(y, s)
               PROVE  /\ least \in AltsAt(y, s, row)
                      /\ \A a \in AltsAt(y, s, row) :
                           Join(y, ContextAt(y, s, row, least) \cup ContextAt(y, s, row, a))
                             = ContextAt(y, s, row, least)
    OBVIOUS
  <2>1. row \in Rows(x, s) /\ AltsAt(x, s, row) = AltsAt(y, s, row)
    BY <1>3, <1>4
  <2>2. least \in AltsAt(y, s, row)
    BY <1>6, <2>1
  <2>3. ASSUME NEW a \in AltsAt(y, s, row)
        PROVE  Join(y, ContextAt(y, s, row, least) \cup ContextAt(y, s, row, a))
                 = ContextAt(y, s, row, least)
    <3>1. Join(x, ContextAt(x, s, row, least) \cup ContextAt(x, s, row, a))
            = ContextAt(x, s, row, least)
      BY <1>6, <2>1, <2>3
    <3>2. /\ ContextAt(x, s, row, least) = ContextAt(y, s, row, least)
          /\ ContextAt(x, s, row, a) = ContextAt(y, s, row, a)
      BY <1>5
    <3> QED BY <1>2, <3>1, <3>2
  <2> QED BY <2>2, <2>3
<1> QED BY <1>6, <1>7 DEF IsConflicted, least

(* So is whether it accepts. *)
LEMMA SameAccepting ==
  ASSUME NEW x, NEW y, x.g = y.g, x.full = y.full, NEW s
  PROVE  IsAccepting(x, s) <=> IsAccepting(y, s)
<1>1. IsConflicted(x, s) <=> IsConflicted(y, s)
  BY SameConflict
<1> QED BY <1>1 DEF IsAccepting

(* The fields of a request's simulation that matter below. *)
LEMMA SimFields ==
  ASSUME NEW h, NEW r
  PROVE  /\ SimOf(h, r).g = h /\ SimOf(h, r).full = FALSE
         /\ SimOf(h, r).ctxSensitive = (r.mode = "LL")
  BY DEF SimOf, Simulation

(* What the table's entries say of a start set holds for any request's. *)
LEMMA StartAcceptsIs ==
  ASSUME NEW r
  PROVE  IsAccepting(Sim(r), StartAt(g, r.decision, 0)) <=> StartAccepts(r.decision)
<1> DEFINE x == Sim(r)
           y == Simulation(g, r.decision, Nothing, 0, {}, TRUE)
<1>1. x.g = y.g /\ x.full = y.full
  BY DEF Sim, SimOf, Simulation
<1> HIDE DEF x, y
<1>2. IsAccepting(x, StartAt(g, r.decision, 0)) <=> IsAccepting(y, StartAt(g, r.decision, 0))
  BY <1>1, SameAccepting
<1> QED BY <1>2 DEF x, y, StartAccepts

(* The start set that a request begins at. *)
LEMMA StartsAtLevel ==
  ASSUME g \in Grammars, NEW r \in Requests(g)
  PROVE  StartAt(g, r.decision, r.level) = StartAt(g, r.decision, StartLevel(r))
<1> DEFINE level == <<r.decision, r.level>>
<1>1. level[1] \notin g.precedenceDecisions =>
        StartAt(g, level[1], level[2]) = StartAt(g, level[1], 0)
  BY LevelsAreForPrecedence
<1> QED BY <1>1 DEF StartLevel, IsPrecedence

(* A set of one alternative that depends on nothing is what it decides.    *)
LEMMA OneAlternative ==
  ASSUME NEW s, NEW a \in Nat, Alts(s) = {a}, ~HasSemanticContext(s), NEW x
  PROVE  /\ IsAccepting(x, s) /\ Decide(x, s) = a /\ s # Error
         /\ ~RetriesInExecATN(x, s)
<1>1. s # {}
  BY DEF Alts
<1>2. Cardinality({a}) = 1
  BY FS_Singleton
<1>3. IsAccepting(x, s)
  BY <1>1, <1>2 DEF IsAccepting
<1>4. ~RetriesInExecATN(x, s)
  BY <1>2 DEF RetriesInExecATN, MayBeContextSensitive
<1>5. Allowed(x, s, Alts(s)) = {a}
  BY DEF Allowed, HasSemanticContext, Alts
<1>6. MinimumOf({a}) = a
  BY DEF MinimumOf
<1>7. Decide(x, s) = a
  BY <1>5, <1>6 DEF Decide
<1> QED BY <1>1, <1>3, <1>4, <1>7 DEF Error

(* The start set is one of them. *)
LEMMA LeadsToStart ==
  ASSUME NEW h, NEW r
  PROVE  LeadsTo(h, r, StartAt(h, r.decision, r.level), 0)
BY DEF LeadsTo, IsClosed

(* The tokens lead on from a set that they lead to. *)
LEMMA LeadsToNext ==
  ASSUME NEW h, NEW r, NEW s, NEW k \in DOMAIN r.LA, LeadsTo(h, r, s, k),
         ~IsAccepting(SimOf(h, r), s)
  PROVE  LeadsTo(h, r, TargetFrom(h, r.decision, s, r.LA[k]), Behind(r, k))
BY DEF LeadsTo, IsClosed

(* A conflict that execDFA takes to the full context and execATN does not  *)
(* is one whose predicates all fail.                                       *)
LEMMA Refused ==
  ASSUME NEW x, NEW s, IsFiniteSet(Alts(s)), RetriesInExecDFA(x, s), ~RetriesInExecATN(x, s)
  PROVE  Decide(x, s) = NoViableAlt
<1> DEFINE allowed == Allowed(x, s, Alts(s))
<1>1. IsFiniteSet(allowed)
  BY FS_Subset DEF Allowed
<1>2. Cardinality(allowed) # 1 /\ ~(Cardinality(allowed) > 1)
  BY DEF RetriesInExecDFA, RetriesInExecATN
<1> HIDE DEF allowed
<1>3. Cardinality(allowed) \in Nat
  BY <1>1, FS_CardinalityType
<1>4. Cardinality(allowed) = 0
  BY <1>2, <1>3
<1>5. allowed = {}
  BY <1>1, <1>4, FS_EmptySet
<1> QED BY <1>5 DEF Decide, allowed

(* What execATN takes to the full context, execDFA does too. *)
LEMMA RetriesAlike ==
  ASSUME NEW x, NEW s, RetriesInExecATN(x, s)
  PROVE  RetriesInExecDFA(x, s)
<1>1. Cardinality(Allowed(x, s, Alts(s))) > 1 /\ MayBeContextSensitive(x, s)
  BY DEF RetriesInExecATN
<1>2. Cardinality(Allowed(x, s, Alts(s))) # 1
  BY <1>1
<1> QED BY <1>1, <1>2 DEF RetriesInExecDFA

-----------------------------------------------------------------------------
(* What the LL1 table answers is what the loops would.                     *)
LEMMA TableAnswers ==
  ASSUME Simulates, UInv, NEW r \in Requests(g), InLL1Table(r)
  PROVE  Uncached(g, r) = LL1Table[KeyOf(r)]
<1> DEFINE d == r.decision
           n == g.decisionNumber[d]
           t == r.LA[0]
           s0 == StartAt(g, d, 0)
           s == TargetFrom(g, d, s0, t)
           alt == LL1Table[KeyOf(r)]
<1>1. g \in Grammars /\ DOMAIN dfa = DOMAIN g.decisionNumber /\ d \in DOMAIN dfa
  BY RequestsAreWellFormed DEF UInv, IInv, TypeOK
<1>2. ~IsPrecedence(d) /\ t \in 0 .. MaxShort /\ KeyOf(r) \in DOMAIN LL1Table
  BY DEF InLL1Table, IsShort
<1>3. n \in 0 .. MaxShort
  BY <1>1, DecisionsAreNumbered
<1>4. KeyOf(r) \div (MaxShort + 1) = n /\ KeyOf(r) % (MaxShort + 1) = t
  BY <1>2, <1>3, KeyUnpacks DEF KeyOf
<1>5. EntryIsSound(KeyOf(r), alt) /\ EntryReads(KeyOf(r))
  BY <1>2 DEF UInv, IInv, CacheIsSound, LL1TableIsSound, EntriesRead
<1>6. \A e \in DOMAIN dfa : g.decisionNumber[e] = n => e = d
  BY <1>1, DecisionsAreNumbered
<1>7. Alts(s) = {alt} /\ ~HasSemanticContext(s)
  BY <1>4, <1>5, <1>6 DEF EntryIsSound
<1>8. ~IsAccepting(Sim(r), s0)
  <2>1. ~StartAccepts(d)
    BY <1>4, <1>5, <1>6 DEF EntryReads
  <2> QED BY <2>1, StartAcceptsIs
<1>9. StartAt(g, d, r.level) = s0
  BY <1>1, <1>2, StartsAtLevel DEF StartLevel
<1>10. 0 \in DOMAIN r.LA /\ t # EOF /\ 1 \in DOMAIN r.LA
  <2>1. t # EOF
    <3> HIDE DEF t
    <3> QED BY <1>2, ShortIsSmall DEF EOF
  <2>2. PICK last \in DOMAIN r.LA :
          /\ last \in Nat /\ DOMAIN r.LA = 0 .. last
          /\ \A i \in 0 .. last : (r.LA[i] = EOF) <=> (i = last)
    BY <1>1, RequestsAreWellFormed
  <2>3. last # 0
    BY <2>1, <2>2
  <2> QED BY <2>1, <2>2, <2>3
<1>11. LeadsTo(g, r, s0, 0) /\ LeadsTo(g, r, s, 1)
  <2>1. LeadsTo(g, r, s0, 0)
    BY <1>9, LeadsToStart
  <2>2. Behind(r, 0) = 1
    BY <1>10 DEF Behind
  <2>3. ~IsAccepting(SimOf(g, r), s0)
    BY <1>8 DEF Sim
  <2> QED BY <2>1, <2>2, <2>3, <1>10, LeadsToNext
<1>12. alt \in Nat
  BY <1>1, <1>7, <1>10, <1>11 DEF Simulates, IsTurned
<1> HIDE DEF s, s0, alt
<1>13. /\ IsAccepting(Sim(r), s) /\ Decide(Sim(r), s) = alt /\ s # Error
       /\ ~RetriesInExecATN(Sim(r), s)
  BY <1>7, <1>12, OneAlternative
<1>14. Uncached(g, r) = ExecATN(Sim(r), r.stack, s0, 0)
  BY <1>8, <1>9 DEF Uncached, FromStart, Sim
<1>15. ExecATN(Sim(r), r.stack, s0, 0) = ExecATN(Sim(r), r.stack, s, 1)
  <2>1. ExecATN(Sim(r), r.stack, s0, 0) = TurnOfExec(g, r, s0, 0)
    BY <1>1, <1>10, <1>11 DEF Simulates, IsTurned, Sim
  <2>2. TurnOfExec(g, r, s0, 0) = ExecATN(Sim(r), r.stack, s, 1)
    BY <1>8, <1>10, <1>13 DEF TurnOfExec, Behind, Sim, s
  <2> QED BY <2>1, <2>2
<1>16. ExecATN(Sim(r), r.stack, s, 1) = alt
  <2>1. ExecATN(Sim(r), r.stack, s, 1) = TurnOfExec(g, r, s, 1)
    BY <1>1, <1>10, <1>11 DEF Simulates, IsTurned, Sim
  <2>2. TurnOfExec(g, r, s, 1) = Decide(Sim(r), s)
    BY <1>13 DEF TurnOfExec, Sim
  <2> QED BY <1>13, <2>1, <2>2
<1> QED BY <1>14, <1>15, <1>16 DEF alt

-----------------------------------------------------------------------------

(* Where a loop goes on, what is left to do is what it was.                *)
LEMMA RestUnfolds ==
  ASSUME Simulates, UInv, run.by \in {"execDFA", "execATN"}
  PROVE  /\ Rest = TurnOfExec(g, request, run.s, run.k)
         /\ run # Idle /\ g \in Grammars /\ request \in Requests(g)
         /\ ~Accepts(run.s) =>
              LeadsTo(g, request, TargetFrom(g, request.decision, run.s, Symbol), Behind(request, run.k))
         /\ IsFiniteSet(Alts(run.s))
<1>1. run # Idle /\ LeadsTo(g, request, run.s, run.k)
  BY DEF Idle, UInv, OnCourse
<1>2. g \in Grammars /\ request \in Requests(g) /\ run.k \in DOMAIN request.LA
  BY <1>1, Looking DEF UInv
<1>3. ~Accepts(run.s) =>
        LeadsTo(g, request, TargetFrom(g, request.decision, run.s, Symbol), Behind(request, run.k))
  BY <1>1, <1>2, LeadsToNext DEF Symbol, Accepts, Sim
<1>4. Rest = TurnOfExec(g, request, run.s, run.k) /\ IsFiniteSet(Alts(run.s))
  BY <1>1, <1>2 DEF Simulates, IsTurned, Rest, Sim
<1> QED BY <1>1, <1>2, <1>3, <1>4

(* The table's entries stay what they were. *)
LEMMA EntriesStay ==
  ASSUME UInv, UNCHANGED <<g, LL1Table>>, DOMAIN dfa' = DOMAIN dfa
  PROVE  EntriesRead'
BY DEF UInv, EntriesRead, EntryReads, StartAccepts

(* What is wanted depends on the request only. *)
LEMMA WantedStays == ASSUME UNCHANGED <<g, request>> PROVE Wanted' = Wanted
BY DEF Wanted

(* A prediction that returns what was wanted, or what is allowed for.      *)
LEMMA ReturnsWanted ==
  ASSUME UNCHANGED <<g, request>>, run' = Idle, NEW result, answer' = result,
         \/ Wanted = result
         \/ /\ Wanted \in {AssertionError, NoViableAlt} /\ request.mode = "LL"
            /\ AcceptsAtOnce(g, request) /\ result = InFull(g, request)
  PROVE  OnCourse' /\ AnswersAreUncached'
<1>1. run'.by = "nobody"
  BY DEF Idle
<1>2. OnCourse'
  BY <1>1 DEF OnCourse
<1>3. IsAnswer(Wanted)'
  BY WantedStays DEF IsAnswer, InFull, FullSimOf, AcceptsAtOnce
<1> QED BY <1>2, <1>3 DEF AnswersAreUncached, Wanted

(* A loop that goes on with the next set. *)
LEMMA GoesOnCourse ==
  ASSUME UNCHANGED <<g, request>>, NEW by \in {"execDFA", "execATN"}, NEW s,
         run' = Goes(by, s), LeadsTo(g, request, s, Behind(request, run.k)),
         by = "execATN" => ~Accepts(s),
         Wanted = ExecATN(Sim(request), request.stack, s, Behind(request, run.k))
  PROVE  OnCourse' /\ AnswersAreUncached'
<1>1. run'.by = by /\ run'.s = s /\ run'.k = Behind(request, run.k)
  BY DEF Goes, Behind, Symbol
<1>2. Rest' = Wanted
  BY <1>1 DEF Rest, Sim
<1>3. Accepts(run.s)' = Accepts(s)
  BY <1>1 DEF Accepts, Sim
<1>4. OnCourse'
  BY <1>1, <1>2, <1>3, WantedStays DEF OnCourse
<1>5. run' # Idle
  BY <1>1 DEF Idle
<1> QED BY <1>4, <1>5 DEF AnswersAreUncached

(* UInv holds at first. *)
LEMMA InitUInv == Init => UInv
<1> SUFFICES ASSUME Init PROVE UInv
  OBVIOUS
<1>1. run.by = "nobody" /\ LL1Table = Nothing /\ request = NoRequest
  BY DEF Init, Idle
<1>2. OnCourse
  BY <1>1 DEF OnCourse
<1>3. EntriesRead
  BY <1>1 DEF EntriesRead, Nothing
<1> QED BY <1>1, <1>2, <1>3, InitIInv DEF UInv, AnswersAreUncached

(* The table answers at once. *)
LEMMA TableKeeps == ASSUME Simulates, UInv, PredictByLL1Table PROVE UInv'
<1> PICK r \in Requests(g) : /\ InLL1Table(r) /\ Begin(r)
                             /\ answer' = LL1Table[KeyOf(r)] /\ UNCHANGED <<dfa, run>>
  BY DEF PredictByLL1Table
<1>1. UNCHANGED <<g, dfa, LL1Table, run>> /\ request' = r /\ run = Idle
  BY DEF Begin, PredictByLL1Table
<1>2. run'.by = "nobody"
  BY <1>1 DEF Idle
<1>3. OnCourse'
  BY <1>2 DEF OnCourse
<1>4. answer' = Uncached(g, r)
  BY TableAnswers
<1>5. AnswersAreUncached'
  BY <1>1, <1>4 DEF AnswersAreUncached, IsAnswer
<1> QED BY <1>1, <1>3, <1>5, TableStep, EntriesStay DEF UInv

(* A prediction that starts has all of it left to do. *)
LEMMA StartKeeps == ASSUME Simulates, UInv, PredictByDFA PROVE UInv'
<1> PICK r \in Requests(g) :
       /\ Begin(r)
       /\ \E s \in {IF StartLevel(r) \in DOMAIN dfa[r.decision].start
                    THEN dfa[r.decision].start[StartLevel(r)]
                    ELSE StartAt(g, r.decision, StartLevel(r))} :
            run' = [by |-> "execDFA", s |-> s, k |-> 0]
  BY DEF PredictByDFA
<1> DEFINE s == StartAt(g, r.decision, r.level)
<1>0. IInv'
  BY StartStep DEF UInv
<1>1. g \in Grammars /\ r.decision \in DOMAIN dfa /\ UNCHANGED <<g, LL1Table>> /\ request' = r
  BY RequestsAreWellFormed DEF Begin, UInv, IInv, TypeOK
<1>2. StartAt(g, r.decision, StartLevel(r)) = s
  BY <1>1, StartsAtLevel
<1>3. run' = [by |-> "execDFA", s |-> s, k |-> 0]
  BY <1>1, <1>2 DEF UInv, IInv, CacheIsSound, StartStatesAreSound
<1>4. run'.by = "execDFA" /\ run'.s = s /\ run'.k = 0
  BY <1>3
<1>5. DOMAIN dfa' = DOMAIN dfa
  BY <1>0, <1>1 DEF UInv, IInv, TypeOK
<1>6. LeadsTo(g', request', run'.s, run'.k)
  BY <1>1, <1>4, LeadsToStart
<1> HIDE DEF s
<1>7. Wanted' = FromStart(g, r, s)
  BY <1>1 DEF Wanted, Uncached, s
<1>8. Accepts(run.s)' = IsAccepting(SimOf(g, r), s)
  BY <1>1, <1>4 DEF Accepts, Sim
<1>9. Rest' = ExecATN(SimOf(g, r), r.stack, s, 0)
  BY <1>1, <1>4 DEF Rest, Sim
<1>10. FromAccepting(g, request, run.s)' = FromAccepting(g, r, s)
  BY <1>1, <1>4
<1>11. \/ Wanted' = Rest'
       \/ Accepts(run.s)' /\ Wanted' = FromAccepting(g, request, run.s)'
  BY <1>7, <1>8, <1>9, <1>10 DEF FromStart
<1>12. OnCourse'
  BY <1>4, <1>6, <1>11 DEF OnCourse
<1>13. AnswersAreUncached'
  BY <1>4 DEF AnswersAreUncached, Idle
<1> QED BY <1>0, <1>1, <1>5, <1>12, <1>13, EntriesStay DEF UInv

(* execDFA at a set that accepts: the same answer, or the exception. *)
LEMMA AcceptKeeps == ASSUME Simulates, UInv, AcceptInDFA PROVE UInv'
<1> DEFINE sim == Sim(request)
<1>1. /\ run.by = "execDFA" /\ Accepts(run.s) /\ UNCHANGED <<g, dfa, LL1Table, request, asked>>
      /\ IF RetriesInExecDFA(sim, run.s) THEN RetriesIn("fullContext")
         ELSE Returns(Decide(sim, run.s))
  BY Zenon DEF AcceptInDFA
<1>2. /\ g \in Grammars /\ request \in Requests(g) /\ IsFiniteSet(Alts(run.s))
      /\ Rest = TurnOfExec(g, request, run.s, run.k)
  BY <1>1, RestUnfolds
<1>3. IInv' /\ EntriesRead'
  BY <1>1, AcceptStep, EntriesStay DEF UInv
<1>4. IsAccepting(sim, run.s) /\ sim = SimOf(g, request)
  BY <1>1 DEF Accepts, Sim
<1>5. Wanted = Rest \/ Wanted = FromAccepting(g, request, run.s)
  BY <1>1 DEF UInv, OnCourse
<1> HIDE DEF sim
<1>6. Rest = IF ~RetriesInExecATN(sim, run.s) THEN Decide(sim, run.s)
             ELSE IF AcceptsAtOnce(g, request) THEN AssertionError ELSE InFull(g, request)
  BY <1>2, <1>4 DEF TurnOfExec
<1>7. FromAccepting(g, request, run.s) =
        IF RetriesInExecDFA(sim, run.s) THEN InFull(g, request) ELSE Decide(sim, run.s)
  BY <1>4 DEF FromAccepting
<1>8. CASE ~RetriesInExecDFA(sim, run.s)
  <2>1. answer' = Decide(sim, run.s) /\ run' = Idle
    BY <1>1, <1>8 DEF Returns
  <2>2. ~RetriesInExecATN(sim, run.s)
    BY <1>8, RetriesAlike
  <2>3. Wanted = Decide(sim, run.s)
    BY <1>5, <1>6, <1>7, <1>8, <2>2
  <2>4. OnCourse' /\ AnswersAreUncached'
    BY <1>1, <2>1, <2>3, ReturnsWanted
  <2> QED BY <1>3, <2>4 DEF UInv
<1>9. CASE RetriesInExecDFA(sim, run.s)
  <2>1. run'.by = "fullContext"
    BY <1>1, <1>9 DEF RetriesIn
  <2>2. request.mode = "LL"
    <3>1. sim.ctxSensitive
      BY <1>9 DEF RetriesInExecDFA, MayBeContextSensitive
    <3> QED BY <1>4, <3>1, SimFields
  <2>3. \/ Wanted = InFull(g, request)
        \/ Wanted \in {AssertionError, NoViableAlt} /\ AcceptsAtOnce(g, request)
    <3>1. CASE ~RetriesInExecATN(sim, run.s)
      <4>1. Decide(sim, run.s) = NoViableAlt
        BY <1>2, <1>9, <3>1, Refused
      <4>2. Wanted = InFull(g, request) \/ Wanted = NoViableAlt
        BY <1>5, <1>6, <1>7, <1>9, <3>1, <4>1
      <4>3. Wanted = NoViableAlt =>
              AcceptsAtOnce(g, request) \/ InFull(g, request) = NoViableAlt
        BY <1>2, <2>2, RefusalsAgree DEF Wanted
      <4> QED BY <4>2, <4>3
    <3>2. CASE RetriesInExecATN(sim, run.s)
      BY <1>5, <1>6, <1>7, <1>9, <3>2
    <3> QED BY <3>1, <3>2
  <2>4. OnCourse'
    BY <1>1, <2>1, <2>2, <2>3, WantedStays DEF OnCourse, InFull, FullSimOf, AcceptsAtOnce
  <2>5. AnswersAreUncached'
    BY <2>1 DEF AnswersAreUncached, Idle
  <2> QED BY <1>3, <2>4, <2>5 DEF UInv
<1> QED BY <1>8, <1>9

(* An edge is the turn of execATN that it stands for. *)
LEMMA EdgeKeeps == ASSUME Simulates, UInv, FollowEdge PROVE UInv'
<1> DEFINE s == TargetFrom(g, request.decision, run.s, Symbol)
<1>1. /\ run.by = "execDFA" /\ ~Accepts(run.s) /\ <<run.s, Symbol>> \in DOMAIN Edges
      /\ UNCHANGED <<g, dfa, LL1Table, request, asked>>
  BY Zenon DEF FollowEdge
<1>2. /\ g \in Grammars /\ request \in Requests(g) /\ LeadsTo(g, request, s, Behind(request, run.k))
      /\ Rest = TurnOfExec(g, request, run.s, run.k) /\ run # Idle
  BY <1>1, RestUnfolds
<1>3. IInv' /\ EntriesRead'
  BY <1>1, EdgeStep, EntriesStay DEF UInv
<1>4. Edges[<<run.s, Symbol>>] = s
  BY <1>1, <1>2, Looking DEF UInv, IInv, CacheIsSound, EdgesAreSound, Edges
<1>5. IF s = Error THEN Returns(HandleNoViableAlt(Sim(request), run.s))
      ELSE answer' = Unanswered /\ run' = Goes("execDFA", s)
  BY <1>4 DEF FollowEdge
<1>6. Wanted = Rest
  BY <1>1 DEF UInv, OnCourse
<1>7. ~IsAccepting(SimOf(g, request), run.s) /\ Symbol = request.LA[run.k]
  BY <1>1 DEF Accepts, Sim, Symbol
<1> HIDE DEF s
<1>8. Wanted = IF s = Error THEN HandleNoViableAlt(Sim(request), run.s)
               ELSE ExecATN(Sim(request), request.stack, s, Behind(request, run.k))
  BY <1>2, <1>6, <1>7 DEF TurnOfExec, Sim, s
<1>9. OnCourse' /\ AnswersAreUncached'
  <2>1. CASE s = Error
    BY <1>1, <1>5, <1>8, <2>1, ReturnsWanted DEF Returns
  <2>2. CASE s # Error
    BY <1>1, <1>2, <1>5, <1>8, <2>2, GoesOnCourse
  <2> QED BY <2>1, <2>2
<1> QED BY <1>3, <1>9 DEF UInv

(* Where there is no edge, execATN takes over with the same left to do. *)
LEMMA LeaveKeeps == ASSUME Simulates, UInv, LeaveDFA PROVE UInv'
<1>1. /\ run.by = "execDFA" /\ ~Accepts(run.s) /\ UNCHANGED <<g, dfa, LL1Table, request>>
      /\ run' = [by |-> "execATN", s |-> run.s, k |-> run.k]
  BY DEF LeaveDFA
<1>2. run'.by = "execATN" /\ run'.s = run.s /\ run'.k = run.k
  BY <1>1
<1>3. LeadsTo(g, request, run.s, run.k) /\ Wanted = Rest
  BY <1>1 DEF UInv, OnCourse
<1>4. Rest' = Rest /\ Accepts(run.s)' = Accepts(run.s)
  BY <1>1, <1>2 DEF Rest, Accepts, Sim
<1>5. OnCourse'
  BY <1>1, <1>2, <1>3, <1>4, WantedStays DEF OnCourse
<1>6. AnswersAreUncached'
  BY <1>2 DEF AnswersAreUncached, Idle
<1> QED BY <1>1, <1>5, <1>6, LeaveStep, EntriesStay DEF UInv

(* The retry returns what execATN would have come to. *)
LEMMA RetryKeeps == ASSUME Simulates, UInv, RetryInFullContext PROVE UInv'
<1>1. /\ run.by \in {"fullContext", "fullReach"}
      /\ UNCHANGED <<g, dfa, LL1Table, request, asked>>
  BY Zenon DEF RetryInFullContext
<1>2. IF run.by = "fullReach" /\ AcceptsAtOnce(g, request) THEN Returns(AssertionError)
      ELSE Returns(InFull(g, request))
  BY DEF RetryInFullContext, AcceptsAtOnce, InFull, FullSimOf, Sim
<1>3. IInv' /\ EntriesRead'
  BY <1>1, RetryStep, EntriesStay DEF UInv
<1>4. /\ run.by = "fullContext" =>
           \/ Wanted = InFull(g, request)
           \/ /\ Wanted \in {AssertionError, NoViableAlt} /\ request.mode = "LL"
              /\ AcceptsAtOnce(g, request)
      /\ run.by = "fullReach" =>
           Wanted = IF AcceptsAtOnce(g, request) THEN AssertionError ELSE InFull(g, request)
  BY DEF UInv, OnCourse
<1>5. OnCourse' /\ AnswersAreUncached'
  <2>1. CASE run.by = "fullReach" /\ AcceptsAtOnce(g, request)
    BY <1>1, <1>2, <1>4, <2>1, ReturnsWanted DEF Returns
  <2>2. CASE ~(run.by = "fullReach" /\ AcceptsAtOnce(g, request))
    BY <1>1, <1>2, <1>4, <2>2, ReturnsWanted DEF Returns
  <2> QED BY <2>1, <2>2
<1> QED BY <1>3, <1>5 DEF UInv

(* What is entered in the table was read behind a start set that does not  *)
(* accept.                                                                 *)
LEMMA EntryWasRead ==
  ASSUME UInv, run.by = "execATN", NEW s, DecidedByOneToken(s)
  PROVE  EntryReads(KeyOf(request))
<1> DEFINE d == request.decision
           n == g.decisionNumber[d]
           t == request.LA[0]
<1>1. run # Idle
  BY DEF Idle
<1>2. g \in Grammars /\ d \in DOMAIN g.decisionNumber /\ d \in DOMAIN dfa
  BY <1>1, Looking, RequestsAreWellFormed DEF UInv
<1>3. run.k = 0 /\ ~IsPrecedence(d) /\ t \in 0 .. MaxShort
  BY DEF DecidedByOneToken, IsShort, Symbol
<1>4. n \in 0 .. MaxShort
  BY <1>2, DecisionsAreNumbered
<1>5. KeyOf(request) \div (MaxShort + 1) = n
  BY <1>3, <1>4, KeyUnpacks DEF KeyOf
<1>6. t # EOF
  <2>1. t \in Nat
    BY <1>3, ShortIsSmall
  <2> HIDE DEF t
  <2> QED BY <2>1 DEF EOF
<1>7. run.s = StartAt(g, d, 0)
  BY <1>3, <1>6 DEF UInv, IInv, AtStart, StartLevel
<1>8. ~IsAccepting(Sim(request), StartAt(g, d, 0))
  BY <1>7 DEF UInv, OnCourse, Accepts
<1>9. ~StartAccepts(d)
  BY <1>8, StartAcceptsIs
<1> QED BY <1>2, <1>5, <1>9 DEF EntryReads

(* A turn of execATN. *)
LEMMA ReachKeeps == ASSUME Simulates, UInv, Reach PROVE UInv'
<1> DEFINE d == request.decision
           e == <<run.s, Symbol>>
           s == TargetFrom(g, d, run.s, Symbol)
<1>0. run.by = "execATN" /\ UNCHANGED <<g, request, asked>>
  BY Zenon DEF Reach
<1>1. run.by = "execATN" /\ ~Accepts(run.s) /\ UNCHANGED <<g, request, asked>>
  BY <1>0 DEF UInv, OnCourse
<1>2. /\ g \in Grammars /\ request \in Requests(g) /\ LeadsTo(g, request, s, Behind(request, run.k))
      /\ Rest = TurnOfExec(g, request, run.s, run.k) /\ run # Idle
  BY <1>1, RestUnfolds
<1>3. d \in DOMAIN dfa /\ run.k \in DOMAIN request.LA /\ run.k \in Nat
      /\ (Symbol # EOF => run.k + 1 \in DOMAIN request.LA)
  BY <1>2, Looking DEF UInv
<1>4. e \in DOMAIN dfa[d].edges => dfa[d].edges[e] = s
  BY <1>3 DEF UInv, IInv, CacheIsSound, EdgesAreSound
<1>5. PICK t \in {IF e \in DOMAIN Edges THEN Edges[e] ELSE s} :
        /\ dfa' = [dfa EXCEPT ![request.decision].edges = Put(@, e, t)]
        /\ Remember(t)
        /\ IF t = Error THEN Returns(HandleNoViableAlt(Sim(request), run.s))
           ELSE IF ~Accepts(t) THEN answer' = Unanswered /\ run' = Goes("execATN", t)
           ELSE IF RetriesInExecATN(Sim(request), t) THEN RetriesIn("fullReach")
           ELSE Returns(Decide(Sim(request), t))
  BY DEF Reach
<1>6. t = s
  BY <1>4 DEF Edges
<1>7. /\ Remember(s)
      /\ IF s = Error THEN Returns(HandleNoViableAlt(Sim(request), run.s))
         ELSE IF ~Accepts(s) THEN answer' = Unanswered /\ run' = Goes("execATN", s)
         ELSE IF RetriesInExecATN(Sim(request), s) THEN RetriesIn("fullReach")
         ELSE Returns(Decide(Sim(request), s))
  BY <1>5, <1>6
<1>8. IInv' /\ DOMAIN dfa' = DOMAIN dfa
  <2>1. IInv'
    BY ReachStep DEF UInv
  <2> QED BY <1>1, <2>1 DEF UInv, IInv, TypeOK
<1>9. ~IsAccepting(SimOf(g, request), run.s) /\ Symbol = request.LA[run.k] /\ Wanted = Rest
  BY <1>1 DEF UInv, OnCourse, Accepts, Sim, Symbol
<1> DEFINE next == Behind(request, run.k)
<1>10. next \in DOMAIN request.LA
  BY <1>3 DEF Behind, Symbol
<1> HIDE DEF s, next
<1>11. Wanted = IF s = Error THEN HandleNoViableAlt(Sim(request), run.s)
                ELSE ExecATN(Sim(request), request.stack, s, next)
  BY <1>2, <1>9 DEF TurnOfExec, Sim, s, next
<1>12. ExecATN(Sim(request), request.stack, s, next) = TurnOfExec(g, request, s, next)
  <2>1. LeadsTo(g, request, s, next)
    BY <1>2 DEF next
  <2> QED BY <1>2, <1>10, <2>1 DEF Simulates, IsTurned, Sim
<1>13. Accepts(s) =>
         TurnOfExec(g, request, s, next) =
           IF ~RetriesInExecATN(Sim(request), s) THEN Decide(Sim(request), s)
           ELSE IF AcceptsAtOnce(g, request) THEN AssertionError ELSE InFull(g, request)
  BY DEF TurnOfExec, Accepts, Sim
<1>14. OnCourse' /\ AnswersAreUncached'
  <2>1. CASE s = Error
    BY <1>1, <1>7, <1>11, <2>1, ReturnsWanted DEF Returns
  <2>2. CASE s # Error /\ ~Accepts(s)
    <3>1. Wanted = ExecATN(Sim(request), request.stack, s, Behind(request, run.k))
      BY <1>11, <2>2 DEF next
    <3> QED BY <1>1, <1>2, <1>7, <2>2, <3>1, GoesOnCourse
  <2>3. CASE s # Error /\ Accepts(s) /\ RetriesInExecATN(Sim(request), s)
    <3>1. run'.by = "fullReach"
      BY <1>7, <2>3 DEF RetriesIn
    <3>2. Wanted = IF AcceptsAtOnce(g, request) THEN AssertionError ELSE InFull(g, request)
      BY <1>11, <1>12, <1>13, <2>3
    <3>3. OnCourse'
      BY <1>1, <3>1, <3>2, WantedStays DEF OnCourse, InFull, FullSimOf, AcceptsAtOnce
    <3>4. AnswersAreUncached'
      BY <3>1 DEF AnswersAreUncached, Idle
    <3> QED BY <3>3, <3>4
  <2>4. CASE s # Error /\ Accepts(s) /\ ~RetriesInExecATN(Sim(request), s)
    <3>1. Wanted = Decide(Sim(request), s)
      BY <1>11, <1>12, <1>13, <2>4
    <3> QED BY <1>1, <1>7, <2>4, <3>1, ReturnsWanted DEF Returns
  <2> QED BY <2>1, <2>2, <2>3, <2>4
<1>15. EntriesRead'
  <2>1. \A key : EntryReads(key) => EntryReads(key)'
    BY <1>1, <1>8 DEF EntryReads, StartAccepts
  <2>2. CASE s # Error /\ DecidedByOneToken(s)
    <3>1. LL1Table' = Put(LL1Table, KeyOf(request), UniqueAlt(s))
      BY <1>7, <2>2 DEF Remember
    <3>2. EntryReads(KeyOf(request))
      BY <1>1, <2>2, EntryWasRead
    <3> QED BY <2>1, <3>1, <3>2 DEF UInv, EntriesRead, Put
  <2>3. CASE ~(s # Error /\ DecidedByOneToken(s))
    <3>1. LL1Table' = LL1Table
      BY <1>7, <2>3 DEF Remember
    <3> QED BY <2>1, <3>1 DEF UInv, EntriesRead
  <2> QED BY <2>2, <2>3
<1> QED BY <1>8, <1>14, <1>15 DEF UInv

(* Nothing happens. *)
LEMMA StutterKeeps == ASSUME UInv, UNCHANGED vars PROVE UInv'
<1>1. UNCHANGED <<g, dfa, LL1Table, request, run, answer, asked>>
  BY DEF vars
<1>2. EntriesRead'
  BY <1>1, EntriesStay
<1>3. Rest' = Rest /\ Accepts(run.s)' = Accepts(run.s)
  BY <1>1 DEF Rest, Accepts, Sim
<1>4. OnCourse'
  BY <1>1, <1>3, WantedStays
     DEF UInv, OnCourse, InFull, FullSimOf, AcceptsAtOnce, FromAccepting
<1>5. AnswersAreUncached'
  BY <1>1 DEF UInv, AnswersAreUncached, IsAnswer, InFull, FullSimOf, AcceptsAtOnce
<1> QED BY <1>2, <1>4, <1>5, StutterStep DEF UInv

(* All actions keep UInv. *)
LEMMA NextUInv == ASSUME Simulates PROVE UInv /\ [Next]_vars => UInv'
BY TableKeeps, StartKeeps, AcceptKeeps, EdgeKeeps, LeaveKeeps, ReachKeeps, RetryKeeps,
   StutterKeeps DEF Next, Turn

-----------------------------------------------------------------------------
(* A prediction under way is one of the requests, at a token of its        *)
(* lookahead, in every behaviour (adaptivePredict, execDFA, execATN).      *)
THEOREM TypeCorrect == Spec => []TypeOK
  BY Invariance, PTL DEF IInv

(* Whatever was asked before, what is remembered is what would be computed *)
(* anew, for all decisions, contexts, precedences and predicates           *)
(* (getStartState, addDFAEdge, LL1Table).                                  *)
THEOREM CacheSound == Spec => []CacheIsSound
  BY Invariance, PTL DEF IInv

(* Nothing that is remembered is ever taken back or replaced by something  *)
(* else, in the LL1 table neither (setDFAEdge, LL1Table.set).              *)
THEOREM CacheGrows == Spec => CacheOnlyGrows
  <1>1. IInv /\ [Next]_vars => [Grows]_vars
    BY NextGrows
  <1>2. Spec => [][Grows]_vars
    BY <1>1, Invariance, PTL DEF Spec
  <1> QED BY <1>2 DEF CacheOnlyGrows, Grows

(* What is remembered changes no prediction: whatever was asked before, in *)
(* other contexts and under other precedences, modes and predicates, an    *)
(* answer is that of a simulation with nothing remembered, but for the case*)
(* in which the assertion of execATN fails (adaptivePredict).  Of the      *)
(* simulation it needs what it is: a loop that takes one token after the   *)
(* other, over sets of finitely many numbered alternatives.                *)
THEOREM AnswersAreAlwaysUncached ==
  ASSUME Simulates
  PROVE  Spec => []AnswersAreUncached
<1>1. Init => UInv
  BY InitUInv
<1>2. UInv /\ [Next]_vars => UInv'
  BY NextUInv
<1>3. UInv => AnswersAreUncached
  BY DEF UInv
<1> QED BY <1>1, <1>2, <1>3, PTL DEF Spec
=============================================================================
