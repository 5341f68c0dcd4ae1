------------------------- MODULE ProviderCacheProofs --------------------------
(***************************************************************************)
(* Theorems about ProviderCache for every set of searches and queries,     *)
(* every length of life, interval and back-off, and every bound.           *)
(***************************************************************************)
EXTENDS ProviderCache, FiniteSetTheorems, TLAPS

LEMMA BehindType ==
  ASSUME NEW place \in Place, NEW leader \in Search \cup {None}
  PROVE  Behind(place, leader) \in Local
  BY TimeAssumption DEF Behind, Local

LEMMA AtAdapterType ==
  ASSUME NEW s \in Search, NEW place \in AdapterPlace,
         NEW attempt \in 0..MaxAttempts, NEW wakes \in Nat
  PROVE  AtAdapter(s, place, attempt, wakes) \in Local
  BY DEF AtAdapter, Local, Place

LEMMA MoveFacts ==
  ASSUME search \in [Search -> Local], NEW s \in Search, NEW local \in Local, Move(s, local)
  PROVE  /\ search' \in [Search -> Local]
         /\ search'[s] = local
         /\ \A t \in Search \ {s} : search'[t] = search[t]
  BY DEF Move

LEMMA InitIInv == Init => CallInv
<1> SUFFICES ASSUME Init PROVE CallInv
  OBVIOUS
<1>1. TypeOK
  <2>1. Behind("idle", None) \in Local
    BY BehindType DEF Place
  <2> QED
    BY <2>1 DEF Init, TypeOK
<1>2. LeadersAsk
  BY DEF Init, LeadersAsk, At, Behind, AdapterPlace
<1>3. CallsAreInMap
  BY NoneAssumption DEF Init, CallsAreInMap, Calling, Behind
<1>4. FreshIsCached
  BY DEF Init, FreshIsCached, Behind
<1> QED
  BY <1>1, <1>2, <1>3, <1>4 DEF CallInv

LEMMA CountType ==
  ASSUME NEW C, metrics \in [Counter -> Nat], Count(C)
  PROVE  metrics' \in [Counter -> Nat]
  BY DEF Count

\* The end of a call: it leaves the map as the leader returns.
LEMMA FinishStep ==
  ASSUME CallInv, NEW s \in Search, search[s].at \in AdapterPlace,
         NEW result \in Good \cup {"temporary", "permanent"}, Finish(s, result),
         UNCHANGED <<clock, nextRequest, cancelled, asked>>
  PROVE  CallInv'
<1> DEFINE q == QueryOf[s]
<1>1. q \in Query /\ search[s].leader = s /\ Calling(s) /\ inFlight[q] = s
  BY QueryAssumption DEF CallInv, LeadersAsk, CallsAreInMap, Calling, Returned, At, AdapterPlace
<1>2. /\ Move(s, Behind("returned", s)) /\ Behind("returned", s) \in Local
      /\ answer' = [answer EXCEPT ![s] = result]
      /\ inFlight' = [inFlight EXCEPT ![q] = None]
  BY <1>1, BehindType DEF Finish, Return, Place
<1>2a. /\ search' \in [Search -> Local]
       /\ search'[s] = Behind("returned", s)
       /\ \A t \in Search \ {s} : search'[t] = search[t]
  BY <1>2, MoveFacts DEF CallInv, TypeOK
<1>2b. \/ /\ result \in Good
         /\ \E ttl \in Nat :
               /\ entry' = [entry EXCEPT ![q] = [answer |-> result, expiresAt |-> clock + ttl]]
               /\ freshUntil' = [freshUntil EXCEPT ![q] = clock + ttl]
      \/ UNCHANGED <<entry, freshUntil>>
  <2>1. CASE result \in Good
    <3> DEFINE ttl == IF result = "found" THEN PositiveTTL ELSE NegativeTTL
    <3>1. ttl \in Nat
      BY TimeAssumption
    <3>2. /\ entry' = [entry EXCEPT ![q] = [answer |-> result, expiresAt |-> clock + ttl]]
          /\ freshUntil' = [freshUntil EXCEPT ![q] = clock + ttl]
      BY <2>1 DEF Finish
    <3> QED
      BY <2>1, <3>1, <3>2
  <2>2. CASE result \notin Good
    BY <2>2 DEF Finish
  <2> QED
    BY <2>1, <2>2
<1>3. TypeOK'
  <2>1. metrics' \in [Counter -> Nat]
    BY CountType DEF Finish, CallInv, TypeOK
  <2>2. /\ entry' \in [Query -> Entry \cup {None}]
        /\ freshUntil' \in [Query -> Nat]
    <3>1. CASE UNCHANGED <<entry, freshUntil>>
      BY <3>1 DEF CallInv, TypeOK
    <3>2. ASSUME result \in Good, NEW ttl \in Nat,
                 entry' = [entry EXCEPT ![q] = [answer |-> result, expiresAt |-> clock + ttl]],
                 freshUntil' = [freshUntil EXCEPT ![q] = clock + ttl]
          PROVE  entry' \in [Query -> Entry \cup {None}] /\ freshUntil' \in [Query -> Nat]
      <4>1. clock + ttl \in Nat
        BY DEF CallInv, TypeOK
      <4>2. [answer |-> result, expiresAt |-> clock + ttl] \in Entry
        BY <3>2, <4>1 DEF Entry
      <4> QED
        BY <3>2, <4>1, <4>2 DEF CallInv, TypeOK
    <3> QED
      BY <1>2b, <3>1, <3>2
  <2> QED
    BY <1>1, <1>2, <1>2a, <2>1, <2>2 DEF CallInv, TypeOK, Answer, Good
<1>4. LeadersAsk'
  BY <1>1, <1>2a DEF CallInv, LeadersAsk, At, Behind, AdapterPlace
<1>5. CallsAreInMap'
  <2>1. \A t \in Search : Calling(t)' => t # s /\ Calling(t)
    BY <1>1, <1>2a DEF Calling, Returned, At, Behind
  <2>2. \A t \in Search \ {s} : Calling(t) => Calling(t)'
    BY <1>1, <1>2a DEF Calling, Returned, At
  <2>3. ASSUME NEW p \in Query, inFlight'[p] # None
        PROVE  Calling(inFlight[p])' /\ QueryOf[inFlight'[p]] = p
    <3>1. p # q /\ inFlight'[p] = inFlight[p] /\ inFlight[p] \in Search
      BY <1>1, <1>2, <2>3 DEF CallInv, TypeOK
    <3>2. Calling(inFlight[p]) /\ QueryOf[inFlight[p]] = p
      BY <2>3, <3>1 DEF CallInv, CallsAreInMap
    <3> QED
      BY <2>2, <3>1, <3>2
  <2>4. ASSUME NEW t \in Search, Calling(t)'
        PROVE  inFlight'[QueryOf[t]] = t
    <3>1. t # s /\ inFlight[QueryOf[t]] = t /\ QueryOf[t] \in Query
      BY <2>1, <2>4, QueryAssumption DEF CallInv, CallsAreInMap
    <3> QED
      BY <1>1, <1>2, <3>1 DEF CallInv, TypeOK
  <2> QED
    BY <2>3, <2>4 DEF CallsAreInMap, Calling, Returned, At
<1>6. FreshIsCached'
  <2>1. \A t \in Search : search'[t].now <= clock
    BY <1>1, <1>2a DEF CallInv, TypeOK, FreshIsCached, Behind
  <2>2. ASSUME NEW p \in Query, freshUntil'[p] > clock
        PROVE  entry'[p] # None /\ entry'[p].expiresAt = freshUntil'[p]
    <3>1. CASE UNCHANGED <<entry, freshUntil>>
      BY <2>2, <3>1 DEF CallInv, FreshIsCached
    <3>2. ASSUME result \in Good, NEW ttl \in Nat,
                 entry' = [entry EXCEPT ![q] = [answer |-> result, expiresAt |-> clock + ttl]],
                 freshUntil' = [freshUntil EXCEPT ![q] = clock + ttl]
          PROVE  entry'[p] # None /\ entry'[p].expiresAt = freshUntil'[p]
      <4>1. CASE p # q
        BY <2>2, <3>2, <4>1 DEF CallInv, TypeOK, FreshIsCached
      <4>2. CASE p = q
        <5>1. entry'[p] = [answer |-> result, expiresAt |-> clock + ttl]
              /\ freshUntil'[p] = clock + ttl
          BY <3>2, <4>2 DEF CallInv, TypeOK
        <5>2. clock + ttl \in Nat
          BY DEF CallInv, TypeOK
        <5>3. entry'[p] \in Entry
          BY <3>2, <5>1, <5>2 DEF Entry
        <5> QED
          BY <5>1, <5>3, NoneAssumption
      <4> QED
        BY <4>1, <4>2
    <3> QED
      BY <1>2b, <3>1, <3>2
  <2> QED
    BY <2>1, <2>2 DEF FreshIsCached
<1> QED
  BY <1>3, <1>4, <1>5, <1>6 DEF CallInv

\* A step of a search that is with the adapter and stays there.
LEMMA AdapterStep ==
  ASSUME CallInv, NEW s \in Search, search[s].at \in AdapterPlace,
         NEW place \in AdapterPlace, NEW attempt \in 0..MaxAttempts, NEW wakes \in Nat,
         Move(s, AtAdapter(s, place, attempt, wakes)),
         nextRequest' \in Nat, asked' \subseteq Nat,
         UNCHANGED <<clock, entry, inFlight, answer, cancelled, metrics, freshUntil>>
  PROVE  CallInv'
<1>1. /\ search' \in [Search -> Local]
      /\ search'[s] = AtAdapter(s, place, attempt, wakes)
      /\ \A t \in Search \ {s} : search'[t] = search[t]
  BY AtAdapterType, MoveFacts DEF CallInv, TypeOK
<1>2. search'[s].at = place /\ search'[s].leader = s /\ search'[s].now = 0
  BY <1>1 DEF AtAdapter
<1>3. search[s].leader = s
  BY DEF CallInv, LeadersAsk
<1>4. TypeOK'
  BY <1>1 DEF CallInv, TypeOK
<1>5. LeadersAsk'
  BY <1>1, <1>2 DEF CallInv, LeadersAsk, At, AdapterPlace
<1>6. \A t \in Search : Calling(t)' <=> Calling(t)
  BY <1>1, <1>2, <1>3 DEF Calling, Returned, At, AdapterPlace
<1>7. CallsAreInMap'
  BY <1>6 DEF CallInv, TypeOK, CallsAreInMap
<1>8. FreshIsCached'
  BY <1>1, <1>2 DEF CallInv, TypeOK, FreshIsCached
<1> QED
  BY <1>4, <1>5, <1>7, <1>8 DEF CallInv

LEMMA AdapterIInv ==
  ASSUME CallInv, NEW s \in Search, Adapter(s)
  PROVE  CallInv'
<1> DEFINE n == search[s].attempt
<1>1. /\ n \in 0..MaxAttempts
      /\ clock \in Nat /\ nextRequest \in Nat /\ asked \subseteq Nat
      /\ search[s].wakes \in Nat
  BY DEF CallInv, TypeOK, Local
<1>2. CASE RefuseQuery(s)
  BY <1>2, FinishStep DEF RefuseQuery, At, AdapterPlace
<1>3. CASE TakeSlot(s)
  <2> DEFINE slot == IF clock < nextRequest THEN nextRequest ELSE clock
  <2>1. slot \in Nat /\ nextRequest' = slot + Interval /\ slot + Interval \in Nat
    BY <1>1, <1>3, TimeAssumption DEF TakeSlot
  <2>2. search[s].at \in AdapterPlace
    BY <1>3 DEF TakeSlot, At, AdapterPlace
  <2>3. \E place \in AdapterPlace, wakes \in Nat : Move(s, AtAdapter(s, place, n, wakes))
    BY <1>3, <2>1 DEF TakeSlot, AdapterPlace
  <2> QED
    BY <1>1, <1>3, <2>1, <2>2, <2>3, AdapterStep DEF TakeSlot
<1>4. CASE WaitCancelled(s)
  BY <1>4, FinishStep DEF WaitCancelled, Waiting, At, AdapterPlace
<1>5. CASE Send(s)
  <2>1. search[s].at \in AdapterPlace /\ "asking" \in AdapterPlace
    BY <1>5 DEF Send, Ready, At, AdapterPlace
  <2>2. Move(s, AtAdapter(s, "asking", n, 0)) /\ 0 \in Nat
    BY <1>5 DEF Send
  <2> QED
    BY <1>1, <1>5, <2>1, <2>2, AdapterStep DEF Send
<1>6. CASE Succeed(s)
  BY <1>6, FinishStep DEF Succeed, At, AdapterPlace
<1>7. CASE Rest(s)
  <2>1. n + 1 \in 1..MaxAttempts
    BY <1>1, <1>7, TimeAssumption DEF Rest, Repeats
  <2>2. clock + Backoff[n + 1] \in Nat /\ n + 1 \in 0..MaxAttempts
    BY <1>1, <2>1, TimeAssumption
  <2>3. search[s].at \in AdapterPlace /\ "resting" \in AdapterPlace
    BY <1>7 DEF Rest, Fails, Ready, At, AdapterPlace
  <2>4. Move(s, AtAdapter(s, "resting", n + 1, clock + Backoff[n + 1]))
    BY <1>7 DEF Rest
  <2> QED
    BY <1>1, <1>7, <2>2, <2>3, <2>4, AdapterStep DEF Rest
<1>8. CASE Repeat(s)
  <2>1. search[s].at \in AdapterPlace /\ "leading" \in AdapterPlace
    BY <1>8 DEF Repeat, At, AdapterPlace
  <2>2. Move(s, AtAdapter(s, "leading", n, 0)) /\ 0 \in Nat
    BY <1>8 DEF Repeat
  <2> QED
    BY <1>1, <1>8, <2>1, <2>2, AdapterStep DEF Repeat
<1>9. CASE Fail(s)
  BY <1>9, FinishStep DEF Fail, Fails, Ready, At, AdapterPlace
<1> QED
  BY <1>2, <1>3, <1>4, <1>5, <1>6, <1>7, <1>8, <1>9 DEF Adapter

\* The other steps of a search: it begins, looks, follows, and returns.
LEMMA BeginIInv == ASSUME CallInv, NEW s \in Search, Begin(s) PROVE CallInv'
<1> DEFINE local == [Behind("looking", None) EXCEPT !.now = clock]
<1>1. /\ UNCHANGED <<clock, entry, inFlight, nextRequest, answer, cancelled, asked, freshUntil>>
      /\ local = [at |-> "looking", now |-> clock, leader |-> None, attempt |-> 0, wakes |-> 0]
      /\ Move(s, local)
  BY DEF Begin, Behind
<1>1a. local \in Local
  BY <1>1, TimeAssumption DEF CallInv, TypeOK, Local, Place
<1>2. /\ search' \in [Search -> Local]
      /\ \A t \in Search \ {s} : search'[t] = search[t]
      /\ search'[s].at = "looking" /\ search'[s].now = clock /\ search'[s].leader = None
  BY <1>1, <1>1a, MoveFacts DEF CallInv, TypeOK
<1>3. search[s].leader = None
  BY DEF CallInv, LeadersAsk, Begin, At
<1>4. TypeOK'
  <2>1. metrics' \in [Counter -> Nat]
    BY CountType DEF Begin, CallInv, TypeOK
  <2> QED
    BY <1>1, <1>2, <2>1 DEF CallInv, TypeOK
<1>5. LeadersAsk'
  BY <1>2, <1>3 DEF CallInv, LeadersAsk, At, AdapterPlace
<1>6. \A t \in Search : Calling(t)' <=> Calling(t)
  BY <1>2, <1>3, NoneAssumption DEF Calling, Returned, At
<1>7. CallsAreInMap'
  BY <1>1, <1>6 DEF CallInv, TypeOK, CallsAreInMap
<1>8. FreshIsCached'
  BY <1>1, <1>2 DEF CallInv, TypeOK, FreshIsCached
<1> QED
  BY <1>4, <1>5, <1>7, <1>8 DEF CallInv

\* A search that was not asking returns.
LEMMA ReturnStep ==
  ASSUME CallInv, NEW s \in Search, search[s].leader # s, NEW result \in Answer \cup {None},
         Return(s, result), metrics' \in [Counter -> Nat],
         UNCHANGED <<clock, entry, inFlight, nextRequest, cancelled, asked, freshUntil>>
  PROVE  CallInv'
<1>1. /\ Move(s, Behind("returned", search[s].leader))
      /\ Behind("returned", search[s].leader) \in Local
      /\ answer' = [answer EXCEPT ![s] = result]
  BY BehindType DEF Return, CallInv, TypeOK, Local, Place
<1>2. /\ search' \in [Search -> Local]
      /\ \A t \in Search \ {s} : search'[t] = search[t]
      /\ search'[s].at = "returned" /\ search'[s].now = 0
      /\ search'[s].leader = search[s].leader
  BY <1>1, MoveFacts DEF CallInv, TypeOK, Behind
<1>3. TypeOK'
  BY <1>1, <1>2 DEF CallInv, TypeOK
<1>4. LeadersAsk'
  BY <1>2 DEF CallInv, LeadersAsk, At, AdapterPlace
<1>5. \A t \in Search : Calling(t)' <=> Calling(t)
  BY <1>2 DEF Calling, Returned, At
<1>6. CallsAreInMap'
  BY <1>5 DEF CallInv, TypeOK, CallsAreInMap
<1>7. FreshIsCached'
  BY <1>2 DEF CallInv, TypeOK, FreshIsCached
<1> QED
  BY <1>3, <1>4, <1>6, <1>7 DEF CallInv

LEMMA LookupIInv == ASSUME CallInv, NEW s \in Search, Lookup(s) PROVE CallInv'
<1> DEFINE q == QueryOf[s]
<1>1. /\ q \in Query /\ search[s].at = "looking" /\ search[s].leader = None
      /\ search[s].leader # s
  BY QueryAssumption, NoneAssumption DEF Lookup, Hit, Follow, Lead, CallInv, LeadersAsk, At
<1>2. CASE Hit(s)
  <2>1. entry[q] \in Entry
    BY <1>1, <1>2 DEF Hit, Fresh, CallInv, TypeOK
  <2>2. entry[q].answer \in Answer
    BY <2>1 DEF Entry, Answer
  <2>3. metrics' \in [Counter -> Nat]
    BY <1>2, CountType DEF Hit, CallInv, TypeOK
  <2> QED
    BY <1>1, <1>2, <2>2, <2>3, ReturnStep DEF Hit
<1>3. ASSUME ~ Fresh(s), DropExpired(s), UNCHANGED <<clock, freshUntil>>
      PROVE  /\ entry' \in [Query -> Entry \cup {None}]
             /\ \A p \in Query : freshUntil'[p] > clock' =>
                   entry'[p] # None /\ entry'[p].expiresAt = freshUntil'[p]
  <2>1. entry' = [entry EXCEPT ![q] = None]
    BY <1>3 DEF DropExpired
  <2>2. entry' \in [Query -> Entry \cup {None}]
    BY <2>1 DEF CallInv, TypeOK
  <2>3. ~ (freshUntil[q] > clock)
    <3>1. SUFFICES ASSUME freshUntil[q] > clock PROVE FALSE
      OBVIOUS
    <3>2. entry[q] # None /\ entry[q].expiresAt = freshUntil[q] /\ search[s].now <= clock
      BY <1>1, <3>1 DEF CallInv, FreshIsCached
    <3>3. search[s].now \in Nat /\ clock \in Nat /\ freshUntil[q] \in Nat
      BY <1>1 DEF CallInv, TypeOK, Local
    <3>4. search[s].now < entry[q].expiresAt
      BY <3>1, <3>2, <3>3
    <3> QED
      BY <1>3, <3>2, <3>4 DEF Fresh
  <2> QED
    BY <1>3, <2>1, <2>2, <2>3 DEF CallInv, TypeOK, FreshIsCached
<1>4. CASE Follow(s)
  <2> DEFINE leader == inFlight[q]
  <2>1. Move(s, Behind("following", leader)) /\ leader \in Search \ {s}
    <3>1. leader \in Search /\ Calling(leader)
      BY <1>1, <1>4 DEF Follow, CallInv, TypeOK, CallsAreInMap
    <3>2. leader # s
      BY <1>1, <3>1 DEF Calling
    <3> QED
      BY <1>4, <3>1, <3>2 DEF Follow
  <2>2. /\ search' \in [Search -> Local]
        /\ \A t \in Search \ {s} : search'[t] = search[t]
        /\ search'[s].at = "following" /\ search'[s].now = 0 /\ search'[s].leader = leader
    BY <2>1, BehindType, MoveFacts DEF CallInv, TypeOK, Behind, Place
  <2>3. TypeOK'
    <3>1. metrics' \in [Counter -> Nat]
      BY <1>4, CountType DEF Follow, CallInv, TypeOK
    <3> QED
      BY <1>3, <1>4, <2>2, <3>1 DEF Follow, CallInv, TypeOK
  <2>4. LeadersAsk'
    BY <2>1, <2>2 DEF CallInv, LeadersAsk, At, AdapterPlace
  <2>5. \A t \in Search : Calling(t)' <=> Calling(t)
    BY <1>1, <2>1, <2>2 DEF Calling, Returned, At
  <2>6. CallsAreInMap'
    BY <1>4, <2>5 DEF Follow, CallInv, TypeOK, CallsAreInMap
  <2>7. FreshIsCached'
    <3>1. \A t \in Search : search'[t].now <= clock
      BY <2>2 DEF CallInv, TypeOK, FreshIsCached
    <3> QED
      BY <1>3, <1>4, <3>1 DEF Follow, FreshIsCached
  <2> QED
    BY <2>3, <2>4, <2>6, <2>7 DEF CallInv
<1>5. CASE Lead(s)
  <2>1. /\ Move(s, AtAdapter(s, "leading", 0, 0))
        /\ inFlight[q] = None /\ inFlight' = [inFlight EXCEPT ![q] = s]
    BY <1>5 DEF Lead
  <2>2. /\ search' \in [Search -> Local]
        /\ \A t \in Search \ {s} : search'[t] = search[t]
        /\ search'[s].at = "leading" /\ search'[s].now = 0 /\ search'[s].leader = s
    <3>1. "leading" \in AdapterPlace /\ 0 \in 0..MaxAttempts /\ 0 \in Nat
      BY TimeAssumption DEF AdapterPlace
    <3>2. AtAdapter(s, "leading", 0, 0) \in Local
      BY <3>1, AtAdapterType
    <3> QED
      BY <2>1, <3>2, MoveFacts DEF CallInv, TypeOK, AtAdapter
  <2>3. TypeOK'
    <3>2. inFlight' \in [Query -> Search \cup {None}]
      BY <1>1, <2>1 DEF CallInv, TypeOK
    <3> QED
      BY <1>3, <1>5, <2>2, <3>2 DEF Lead, CallInv, TypeOK
  <2>4. LeadersAsk'
    BY <2>2 DEF CallInv, LeadersAsk, At, AdapterPlace
  <2>5. \A t \in Search : Calling(t)' <=> Calling(t) \/ t = s
    BY <2>2 DEF Calling, Returned, At
  <2>6. CallsAreInMap'
    <3>1. ASSUME NEW p \in Query, inFlight'[p] # None
          PROVE  Calling(inFlight[p])' /\ QueryOf[inFlight'[p]] = p
      <4>1. CASE p = q
        BY <1>1, <2>1, <2>5, <4>1 DEF CallInv, TypeOK
      <4>2. CASE p # q
        <5>1. inFlight'[p] = inFlight[p] /\ inFlight[p] \in Search
          BY <2>1, <3>1, <4>2 DEF CallInv, TypeOK
        <5>2. Calling(inFlight[p]) /\ QueryOf[inFlight[p]] = p
          BY <3>1, <5>1 DEF CallInv, CallsAreInMap
        <5> QED
          BY <2>5, <5>1, <5>2
      <4> QED
        BY <4>1, <4>2
    <3>2. ASSUME NEW t \in Search, Calling(t)'
          PROVE  inFlight'[QueryOf[t]] = t
      <4>1. CASE t = s
        BY <1>1, <2>1, <4>1 DEF CallInv, TypeOK
      <4>2. CASE t # s
        <5>1. inFlight[QueryOf[t]] = t /\ QueryOf[t] \in Query
          BY <2>5, <3>2, <4>2, QueryAssumption DEF CallInv, CallsAreInMap
        <5>2. QueryOf[t] # q
          BY <2>1, <5>1, NoneAssumption
        <5> QED
          BY <2>1, <5>1, <5>2 DEF CallInv, TypeOK
      <4> QED
        BY <4>1, <4>2
    <3> QED
      BY <3>1, <3>2 DEF CallsAreInMap, Calling, Returned, At
  <2>7. FreshIsCached'
    <3>1. \A t \in Search : search'[t].now <= clock
      BY <2>2 DEF CallInv, TypeOK, FreshIsCached
    <3> QED
      BY <1>3, <1>5, <3>1 DEF Lead, FreshIsCached
  <2> QED
    BY <2>3, <2>4, <2>6, <2>7 DEF CallInv
<1> QED
  BY <1>2, <1>4, <1>5 DEF Lookup

LEMMA NextIInv == CallInv /\ [Next]_vars => CallInv'
<1> SUFFICES ASSUME CallInv, [Next]_vars PROVE CallInv'
  OBVIOUS
<1>1. CASE UNCHANGED vars
  BY <1>1 DEF vars, CallInv, TypeOK, LeadersAsk, CallsAreInMap, FreshIsCached,
              Calling, Returned, At
<1>2. CASE Tick
  <2>1. clock' \in Nat /\ clock' = clock + 1 /\ clock \in Nat
    BY <1>2 DEF Tick, CallInv, TypeOK
  <2>2. TypeOK'
    BY <1>2, <2>1 DEF Tick, CallInv, TypeOK
  <2>3. LeadersAsk' /\ CallsAreInMap'
    BY <1>2 DEF Tick, CallInv, LeadersAsk, CallsAreInMap, Calling, Returned, At
  <2>4. \A t \in Search : search[t].now \in Nat
    BY DEF CallInv, TypeOK, Local
  <2>5. \A p \in Query : freshUntil[p] \in Nat
    BY DEF CallInv, TypeOK
  <2>6. FreshIsCached'
    BY <1>2, <2>1, <2>4, <2>5 DEF Tick, CallInv, FreshIsCached
  <2> QED
    BY <2>2, <2>3, <2>6 DEF CallInv
<1>3. ASSUME NEW s \in Search, Begin(s)
      PROVE  CallInv'
  BY <1>3, BeginIInv
<1>4. ASSUME NEW s \in Search, Cancel(s)
      PROVE  CallInv'
  BY <1>4 DEF Cancel, CallInv, TypeOK, LeadersAsk, CallsAreInMap, FreshIsCached,
              Calling, Returned, At
<1>5. ASSUME NEW s \in Search, Lookup(s)
      PROVE  CallInv'
  BY <1>5, LookupIInv
<1>6. ASSUME NEW s \in Search, Share(s) \/ GiveUp(s)
      PROVE  CallInv'
  <2>1. search[s].leader \in Search \ {s}
    BY <1>6 DEF Share, GiveUp, At, CallInv, LeadersAsk
  <2>2. \A t \in Search : answer[t] \in Answer \cup {None}
    BY DEF CallInv, TypeOK
  <2>3. UNCHANGED <<clock, entry, inFlight, nextRequest, cancelled, asked, freshUntil>>
        /\ metrics' \in [Counter -> Nat]
    BY <1>6 DEF Share, GiveUp, CallInv, TypeOK
  <2>4. CASE GiveUp(s)
    BY <2>1, <2>3, <2>4, ReturnStep DEF GiveUp, Answer
  <2>5. CASE Share(s)
    BY <2>1, <2>2, <2>3, <2>5, ReturnStep DEF Share
  <2> QED
    BY <1>6, <2>4, <2>5
<1>7. ASSUME NEW s \in Search, Adapter(s)
      PROVE  CallInv'
  BY <1>7, AdapterIInv
<1> QED
  BY <1>1, <1>2, <1>3, <1>4, <1>5, <1>6, <1>7 DEF Next, Proceed

\* CallInv holds in every reachable state of SearchRecordings, whatever the
\* interleaving of lookups, cancellations and answers.
LEMMA CallInvariance == Spec => []CallInv
<1> QED
  BY InitIInv, NextIInv, PTL DEF Spec

\* Type correctness; in particular no error is ever cached.
THEOREM TypeCorrect == Spec => []TypeOK
<1>1. CallInv => TypeOK
  BY DEF CallInv
<1> QED
  BY CallInvariance, <1>1, PTL

\* Concurrent misses of a query make one call, and the map holds no other.
THEOREM OneCall == Spec => []OneCallPerQuery
<1>1. ASSUME CallInv PROVE OneCallPerQuery
  <2> SUFFICES ASSUME NEW q \in Query
               PROVE  {s \in Search : Calling(s) /\ QueryOf[s] = q}
                        = IF inFlight[q] = None THEN {} ELSE {inFlight[q]}
    BY DEF OneCallPerQuery
  <2>1. \A s \in Search : Calling(s) /\ QueryOf[s] = q => inFlight[q] = s /\ inFlight[q] # None
    BY <1>1, NoneAssumption DEF CallInv, CallsAreInMap
  <2>2. inFlight[q] # None =>
          inFlight[q] \in Search /\ Calling(inFlight[q]) /\ QueryOf[inFlight[q]] = q
    BY <1>1 DEF CallInv, TypeOK, CallsAreInMap
  <2> QED
    BY <2>1, <2>2
<1> QED
  BY CallInvariance, <1>1, PTL

\* Nothing is asked for while an answer to it is fresh.
THEOREM NeedlessCalls == Spec => NoNeedlessCall
<1>1. ASSUME CallInv, [Next]_vars
      PROVE  [\A q \in Query :
                inFlight'[q] \notin {None, inFlight[q]} => clock >= freshUntil[q]]_vars
  <2> SUFFICES ASSUME NEW q \in Query, inFlight'[q] \notin {None, inFlight[q]},
                      Next
               PROVE  clock >= freshUntil[q]
    BY <1>1 DEF vars
  <2>1. ASSUME NEW s \in Search, NEW result, Finish(s, result)
        PROVE  FALSE
    <3>1. inFlight' = [inFlight EXCEPT ![QueryOf[s]] = None]
      BY <2>1 DEF Finish
    <3> QED
      BY <1>1, <3>1 DEF CallInv, TypeOK
  <2>2. PICK s \in Search : Lead(s)
    BY <2>1 DEF Next, Tick, Begin, Cancel, Proceed, Lookup, Hit, Follow, Share, GiveUp,
                Adapter, RefuseQuery, TakeSlot, WaitCancelled, Send, Succeed, Rest,
                Repeat, Fail
  <2>3. QueryOf[s] = q /\ ~ Fresh(s)
    BY <1>1, <2>2 DEF Lead, CallInv, TypeOK
  <2>4. search[s].now \in Nat /\ clock \in Nat /\ freshUntil[q] \in Nat
    BY <1>1 DEF CallInv, TypeOK, Local
  <2>5. search[s].now <= clock
    BY <1>1 DEF CallInv, FreshIsCached
  <2>6. freshUntil[q] > clock => entry[q] # None /\ entry[q].expiresAt = freshUntil[q]
    BY <1>1 DEF CallInv, FreshIsCached
  <2> QED
    BY <2>3, <2>4, <2>5, <2>6 DEF Fresh
<1> QED
  BY CallInvariance, <1>1, PTL DEF Spec, NoNeedlessCall

-----------------------------------------------------------------------------
(* What a search returns.                                                  *)

\* A search that takes a step has not returned, and the step is its own.
LEMMA OwnStep ==
  ASSUME CallInv, NEW s \in Search, Begin(s) \/ Proceed(s)
  PROVE  /\ ~ Returned(s)
         /\ \E local : Move(s, local)
         /\ answer' = answer \/ \E result : answer' = [answer EXCEPT ![s] = result]
         /\ UNCHANGED cancelled
<1>1. CASE Begin(s)
  BY <1>1 DEF Begin, At, Returned
<1>2. CASE Lookup(s)
  BY <1>2 DEF Lookup, Hit, Follow, Lead, Return, At, Returned
<1>3. CASE Share(s) \/ GiveUp(s)
  BY <1>3 DEF Share, GiveUp, Return, At, Returned
<1>4. CASE RefuseQuery(s) \/ WaitCancelled(s) \/ Succeed(s) \/ Fail(s)
  BY <1>4 DEF RefuseQuery, WaitCancelled, Waiting, Succeed, Fail, Fails, Ready, Finish,
              Return, At, Returned
<1>5. CASE TakeSlot(s) \/ Send(s) \/ Rest(s) \/ Repeat(s)
  <2>1. ~ Returned(s) /\ UNCHANGED <<answer, cancelled>>
    BY <1>5 DEF TakeSlot, Send, Rest, Repeat, Fails, Ready, At, Returned
  <2>2. \E local : Move(s, local)
    BY <1>5 DEF TakeSlot, Send, Rest, Repeat
  <2> QED
    BY <2>1, <2>2
<1> QED
  BY <1>1, <1>2, <1>3, <1>4, <1>5 DEF Proceed, Adapter

\* What a search has returned, and whom it asked or followed, never changes.
LEMMA ReturnedStays ==
  ASSUME CallInv, [Next]_vars, NEW s \in Search, Returned(s)
  PROVE  search'[s] = search[s] /\ answer'[s] = answer[s]
<1>1. CASE UNCHANGED vars \/ Tick
  BY <1>1 DEF vars, Tick
<1>2. ASSUME NEW t \in Search, Cancel(t) PROVE search'[s] = search[s] /\ answer'[s] = answer[s]
  BY <1>2 DEF Cancel
<1>3. ASSUME NEW t \in Search, Begin(t) \/ Proceed(t)
      PROVE  search'[s] = search[s] /\ answer'[s] = answer[s]
  <2>1. t # s
    BY <1>3, OwnStep
  <2>2. PICK local : search' = [search EXCEPT ![t] = local]
    BY <1>3, OwnStep DEF Move
  <2>3. answer' = answer \/ \E result : answer' = [answer EXCEPT ![t] = result]
    BY <1>3, OwnStep
  <2> QED
    BY <2>1, <2>2, <2>3 DEF CallInv, TypeOK
<1> QED
  BY <1>1, <1>2, <1>3 DEF Next

LEMMA SourceStays ==
  ASSUME CallInv, [Next]_vars, NEW q, NEW a, Source(q, a)
  PROVE  Source(q, a)'
<1>1. PICK t \in Search : Asker(t) /\ Returned(t) /\ QueryOf[t] = q /\ answer[t] = a
  BY DEF Source
<1>2. search'[t] = search[t] /\ answer'[t] = answer[t]
  BY <1>1, ReturnedStays
<1> QED
  BY <1>1, <1>2 DEF Source, Asker, Returned, At

\* The end of a call, by what it changes.
LEMMA FinishFacts ==
  ASSUME CallInv, NEW s \in Search, search[s].at \in AdapterPlace,
         NEW result \in Good \cup {"temporary", "permanent"}, Finish(s, result)
  PROVE  /\ search'[s] = Behind("returned", s)
         /\ \A t \in Search \ {s} : search'[t] = search[t]
         /\ answer'[s] = result
         /\ \A q \in Query :
               \/ entry'[q] = entry[q]
               \/ result \in Good /\ q = QueryOf[s] /\ entry'[q].answer = result
<1>1. search[s].leader = s
  BY DEF CallInv, LeadersAsk
<1>2. Move(s, Behind("returned", s)) /\ Behind("returned", s) \in Local
  BY <1>1, BehindType DEF Finish, Return, Place
<1>3. answer'[s] = result
  BY DEF Finish, Return, CallInv, TypeOK
<1>4. ASSUME NEW q \in Query, entry'[q] # entry[q]
      PROVE  result \in Good /\ q = QueryOf[s] /\ entry'[q].answer = result
  <2>1. result \in Good
    BY <1>4 DEF Finish
  <2>2. \E ttl : entry' = [entry EXCEPT ![QueryOf[s]] =
                              [answer |-> result, expiresAt |-> clock + ttl]]
    BY <2>1 DEF Finish
  <2>3. q = QueryOf[s]
    BY <1>4, <2>2 DEF CallInv, TypeOK
  <2>4. \E ttl : entry'[q] = [answer |-> result, expiresAt |-> clock + ttl]
    BY <2>2, <2>3 DEF CallInv, TypeOK
  <2> QED
    BY <2>1, <2>3, <2>4
<1> QED
  BY <1>2, <1>3, <1>4, MoveFacts DEF CallInv, TypeOK

LEMMA Finishes ==
  ASSUME CallInv, NEW s \in Search,
         RefuseQuery(s) \/ WaitCancelled(s) \/ Succeed(s) \/ Fail(s)
  PROVE  /\ search[s].at \in AdapterPlace
         /\ \E result \in Good \cup {"temporary", "permanent"} : Finish(s, result)
         /\ UNCHANGED <<clock, nextRequest, cancelled, asked>>
<1>1. CASE RefuseQuery(s)
  BY <1>1 DEF RefuseQuery, At, AdapterPlace
<1>2. CASE WaitCancelled(s)
  BY <1>2 DEF WaitCancelled, Waiting, At, AdapterPlace
<1>3. CASE Succeed(s)
  BY <1>3 DEF Succeed, At, AdapterPlace
<1>4. CASE Fail(s)
  BY <1>4 DEF Fail, Fails, Ready, At, AdapterPlace
<1> QED
  BY <1>1, <1>2, <1>3, <1>4

\* A search that stays with the adapter.
LEMMA Stays ==
  ASSUME CallInv, NEW s \in Search, TakeSlot(s) \/ Send(s) \/ Rest(s) \/ Repeat(s)
  PROVE  /\ search[s].at \in AdapterPlace /\ search[s].leader = s
         /\ \A t \in Search \ {s} : search'[t] = search[t]
         /\ search'[s].at \in AdapterPlace /\ search'[s].leader = s
         /\ UNCHANGED <<entry, inFlight, answer, cancelled, metrics>>
<1>1. search[s].at \in AdapterPlace
  BY DEF TakeSlot, Send, Rest, Repeat, Fails, Ready, At, AdapterPlace
<1>2. \E place \in AdapterPlace : \E n, wakes : Move(s, AtAdapter(s, place, n, wakes))
  BY DEF TakeSlot, Send, Rest, Repeat, AdapterPlace
<1>3. PICK place \in AdapterPlace : \E n, wakes : Move(s, AtAdapter(s, place, n, wakes))
  BY <1>2
<1>4. PICK n, wakes : Move(s, AtAdapter(s, place, n, wakes))
  BY <1>3
<1>5. /\ search'[s] = AtAdapter(s, place, n, wakes)
      /\ \A t \in Search \ {s} : search'[t] = search[t]
  BY <1>4 DEF Move, CallInv, TypeOK
<1>6. UNCHANGED <<entry, inFlight, answer, cancelled, metrics>>
  BY DEF TakeSlot, Send, Rest, Repeat
<1> QED
  BY <1>1, <1>5, <1>6 DEF AtAdapter, CallInv, LeadersAsk

\* A search that looks finds an entry, joins a call, or makes one.
LEMMA LookupFacts ==
  ASSUME CallInv, NEW s \in Search, Lookup(s)
  PROVE  /\ search[s].at = "looking" /\ search[s].leader = None
         /\ \A t \in Search \ {s} : search'[t] = search[t]
         /\ UNCHANGED cancelled
         /\ \/ /\ Hit(s)
               /\ search'[s] = Behind("returned", None)
               /\ entry[QueryOf[s]] \in Entry
               /\ answer'[s] = entry[QueryOf[s]].answer
               /\ UNCHANGED <<entry, inFlight>>
            \/ /\ Follow(s)
               /\ search'[s] = Behind("following", inFlight[QueryOf[s]])
               /\ inFlight[QueryOf[s]] \in Search
               /\ \A q \in Query : entry'[q] = entry[q] \/ entry'[q] = None
               /\ UNCHANGED <<answer, inFlight>>
            \/ /\ Lead(s)
               /\ search'[s] = AtAdapter(s, "leading", 0, 0)
               /\ \A q \in Query : entry'[q] = entry[q] \/ entry'[q] = None
               /\ UNCHANGED answer
<1> DEFINE q == QueryOf[s]
<1>1. q \in Query /\ search[s].at = "looking" /\ search[s].leader = None
  BY QueryAssumption DEF Lookup, Hit, Follow, Lead, CallInv, LeadersAsk, At
<1>2. CASE Hit(s)
  <2>1. Move(s, Behind("returned", None)) /\ answer'[s] = entry[q].answer
    BY <1>1, <1>2 DEF Hit, Return, CallInv, TypeOK
  <2> QED
    BY <1>1, <1>2, <2>1 DEF Hit, Fresh, Move, CallInv, TypeOK
<1>3. CASE Follow(s)
  BY <1>1, <1>3 DEF Follow, DropExpired, Move, CallInv, TypeOK
<1>4. CASE Lead(s)
  BY <1>1, <1>4 DEF Lead, DropExpired, Move, CallInv, TypeOK
<1> QED
  BY <1>1, <1>2, <1>3, <1>4 DEF Lookup

\* A follower returns its leader's answer, or gives up.
LEMMA FollowerFacts ==
  ASSUME CallInv, NEW s \in Search, Share(s) \/ GiveUp(s)
  PROVE  /\ search[s].at = "following" /\ search[s].leader \in Search \ {s}
         /\ \A t \in Search \ {s} : search'[t] = search[t]
         /\ search'[s] = Behind("returned", search[s].leader)
         /\ \/ Returned(search[s].leader) /\ answer'[s] = answer[search[s].leader]
            \/ answer'[s] = "cancelled" /\ s \in cancelled
         /\ UNCHANGED <<entry, inFlight, cancelled>>
BY DEF Share, GiveUp, Return, Move, At, CallInv, TypeOK, LeadersAsk

LEMMA BeginFacts ==
  ASSUME CallInv, NEW s \in Search, Begin(s)
  PROVE  /\ search[s].at = "idle" /\ search[s].leader = None
         /\ \A t \in Search \ {s} : search'[t] = search[t]
         /\ search'[s].at = "looking" /\ search'[s].leader = None
         /\ UNCHANGED <<entry, inFlight, answer, cancelled>>
BY DEF Begin, Behind, Move, At, CallInv, TypeOK, LeadersAsk

\* Whom a search follows is settled when it looks: it follows itself, or the
\* search whose call for the same query is in the map.
LEMMA LeaderStep ==
  ASSUME CallInv, [Next]_vars, NEW s \in Search
  PROVE  \/ search'[s].leader = search[s].leader
         \/ search'[s].leader = s
         \/ /\ search'[s].leader \in Search
            /\ Calling(search'[s].leader) /\ QueryOf[search'[s].leader] = QueryOf[s]
<1> DEFINE P == \/ search'[s].leader = search[s].leader
                \/ search'[s].leader = s
                \/ /\ search'[s].leader \in Search
                   /\ Calling(search'[s].leader) /\ QueryOf[search'[s].leader] = QueryOf[s]
<1>1. CASE UNCHANGED vars \/ Tick
  BY <1>1 DEF vars, Tick
<1>2. ASSUME NEW t \in Search, Cancel(t) PROVE P
  BY <1>2 DEF Cancel
<1>3. ASSUME NEW t \in Search, Begin(t) PROVE P
  BY <1>3, BeginFacts
<1>4. ASSUME NEW t \in Search, Lookup(t) PROVE P
  <2>1. CASE t # s
    BY <1>4, <2>1, LookupFacts
  <2>2. CASE t = s
    <3>1. CASE Hit(s)
      BY <1>4, <2>2, <3>1, LookupFacts DEF Hit, Return, Move, CallInv, TypeOK, Behind
    <3>2. CASE Lead(s)
      <4>1. Move(s, AtAdapter(s, "leading", 0, 0))
        BY <3>2 DEF Lead
      <4> QED
        BY <4>1 DEF Move, CallInv, TypeOK, AtAdapter
    <3>3. CASE Follow(s)
      <4>1. /\ Move(s, Behind("following", inFlight[QueryOf[s]]))
            /\ inFlight[QueryOf[s]] # None
        BY <3>3 DEF Follow
      <4>2. search'[s].leader = inFlight[QueryOf[s]]
        BY <4>1 DEF Move, CallInv, TypeOK, Behind
      <4> QED
        BY <4>1, <4>2, QueryAssumption DEF CallInv, TypeOK, CallsAreInMap
    <3> QED
      BY <1>4, <2>2, <3>1, <3>2, <3>3 DEF Lookup
  <2> QED
    BY <2>1, <2>2
<1>5. ASSUME NEW t \in Search, Share(t) \/ GiveUp(t) PROVE P
  <2>1. /\ \A u \in Search \ {t} : search'[u] = search[u]
        /\ search'[t] = Behind("returned", search[t].leader)
    BY <1>5, FollowerFacts
  <2>2. search'[t].leader = search[t].leader
    BY <2>1 DEF Behind
  <2> QED
    BY <2>1, <2>2
<1>6. ASSUME NEW t \in Search, RefuseQuery(t) \/ WaitCancelled(t) \/ Succeed(t) \/ Fail(t)
      PROVE  P
  <2>1. /\ \A u \in Search \ {t} : search'[u] = search[u]
        /\ search'[t] = Behind("returned", t)
    BY <1>6, Finishes, FinishFacts
  <2> QED
    BY <2>1 DEF Behind
<1>7. ASSUME NEW t \in Search, TakeSlot(t) \/ Send(t) \/ Rest(t) \/ Repeat(t) PROVE P
  BY <1>7, Stays
<1> QED
  BY <1>1, <1>2, <1>3, <1>4, <1>5, <1>6, <1>7 DEF Next, Proceed, Adapter

\* A search that leads does so for good.
LEMMA AskerStays ==
  ASSUME CallInv, [Next]_vars, NEW s \in Search, Asker(s)
  PROVE  Asker(s)'
<1>1. \A t \in Search : search[t].leader # None => search'[t].leader = search[t].leader
  <2>1. CASE UNCHANGED vars \/ Tick
    BY <2>1 DEF vars, Tick
  <2>2. ASSUME NEW t \in Search, Cancel(t) \/ Begin(t) \/ Lookup(t)
        PROVE  \A u \in Search : search[u].leader # None => search'[u].leader = search[u].leader
    BY <2>2, BeginFacts, LookupFacts DEF Cancel
  <2>3. ASSUME NEW t \in Search, Share(t) \/ GiveUp(t)
        PROVE  \A u \in Search : search[u].leader # None => search'[u].leader = search[u].leader
    <3>1. /\ \A u \in Search \ {t} : search'[u] = search[u]
          /\ search'[t] = Behind("returned", search[t].leader)
      BY <2>3, FollowerFacts
    <3>2. search'[t].leader = search[t].leader
      BY <3>1 DEF Behind
    <3> QED
      BY <3>1, <3>2
  <2>4. ASSUME NEW t \in Search,
               RefuseQuery(t) \/ WaitCancelled(t) \/ Succeed(t) \/ Fail(t)
        PROVE  \A u \in Search : search[u].leader # None => search'[u].leader = search[u].leader
    <3>1. /\ \A u \in Search \ {t} : search'[u] = search[u]
          /\ search'[t] = Behind("returned", t)
      BY <2>4, Finishes, FinishFacts
    <3>2. search[t].leader = t
      BY <2>4, Finishes DEF CallInv, LeadersAsk
    <3> QED
      BY <3>1, <3>2 DEF Behind
  <2>5. ASSUME NEW t \in Search, TakeSlot(t) \/ Send(t) \/ Rest(t) \/ Repeat(t)
        PROVE  \A u \in Search : search[u].leader # None => search'[u].leader = search[u].leader
    BY <2>5, Stays
  <2> QED
    BY <2>1, <2>2, <2>3, <2>4, <2>5 DEF Next, Proceed, Adapter
<1> QED
  BY <1>1, NoneAssumption DEF Asker

\* What is cached was answered to a search that asked for it.
LEMMA EntryStep ==
  ASSUME CallInv, [Next]_vars, NEW q \in Query, entry'[q] # None
  PROVE  entry'[q] = entry[q] \/ Source(q, entry[q].answer)'
<1>1. CASE UNCHANGED vars \/ Tick
  BY <1>1 DEF vars, Tick
<1>2. ASSUME NEW t \in Search, Cancel(t) \/ Begin(t) \/ Share(t) \/ GiveUp(t)
      PROVE  entry'[q] = entry[q]
  BY <1>2 DEF Cancel, Begin, Share, GiveUp
<1>3. ASSUME NEW t \in Search, Lookup(t) PROVE entry'[q] = entry[q]
  BY <1>3, LookupFacts
<1>4. ASSUME NEW t \in Search, RefuseQuery(t) \/ WaitCancelled(t) \/ Succeed(t) \/ Fail(t)
      PROVE  entry'[q] = entry[q] \/ Source(q, entry[q].answer)'
  <2>1. PICK result \in Good \cup {"temporary", "permanent"} : Finish(t, result)
    BY <1>4, Finishes
  <2>2. search[t].at \in AdapterPlace
    BY <1>4, Finishes
  <2>3. CASE entry'[q] # entry[q]
    <3>1. /\ search'[t] = Behind("returned", t) /\ answer'[t] = result
          /\ q = QueryOf[t] /\ entry'[q].answer = result
      BY <2>1, <2>2, <2>3, FinishFacts
    <3> QED
      BY <3>1 DEF Source, Asker, Returned, At, Behind
  <2> QED
    BY <2>3
<1>5. ASSUME NEW t \in Search, TakeSlot(t) \/ Send(t) \/ Rest(t) \/ Repeat(t)
      PROVE  entry'[q] = entry[q]
  BY <1>5, Stays
<1> QED
  BY <1>1, <1>2, <1>3, <1>4, <1>5 DEF Next, Proceed, Adapter

LEMMA NextAnswers ==
  ASSUME CallInv, AnswersComeFromAskers, [Next]_vars
  PROVE  AnswersComeFromAskers'
<1>1. ASSUME NEW s \in Search, search'[s].leader # None
      PROVE  Asker(search[s].leader)' /\ QueryOf[search'[s].leader] = QueryOf[s]
  <2>1. search[s].leader \in Search \cup {None}
    BY DEF CallInv, TypeOK, Local
  <2>2. CASE search'[s].leader = search[s].leader
    <3>1. Asker(search[s].leader) /\ QueryOf[search[s].leader] = QueryOf[s]
      BY <1>1, <2>2 DEF AnswersComeFromAskers
    <3>2. Asker(search[s].leader)'
      <4>1. search[s].leader \in Search
        BY <1>1, <2>1, <2>2
      <4>2. search'[search[s].leader].leader = search[s].leader
        BY <3>1, <4>1, AskerStays DEF Asker
      <4> QED
        BY <2>2, <4>2 DEF Asker
    <3> QED
      BY <2>2, <3>1, <3>2
  <2>3. CASE search'[s].leader = s
    BY <2>3 DEF Asker
  <2>4. CASE /\ search'[s].leader \in Search
             /\ Calling(search'[s].leader) /\ QueryOf[search'[s].leader] = QueryOf[s]
    <3> DEFINE t == search'[s].leader
    <3>1. Asker(t)
      BY <2>4 DEF Calling, Asker
    <3>2. search'[t].leader = t
      BY <2>4, <3>1, AskerStays DEF Asker
    <3> QED
      BY <2>4, <3>2 DEF Asker
  <2> QED
    BY <2>2, <2>3, <2>4, LeaderStep
<1>2. ASSUME NEW q \in Query, entry'[q] # None
      PROVE  Source(q, entry[q].answer)'
  <2>1. CASE entry'[q] = entry[q]
    <3>1. Source(q, entry[q].answer)
      BY <1>2, <2>1 DEF AnswersComeFromAskers
    <3>2. PICK t \in Search :
             Asker(t) /\ Returned(t) /\ QueryOf[t] = q /\ answer[t] = entry[q].answer
      BY <3>1 DEF Source
    <3>3. search'[t] = search[t] /\ answer'[t] = answer[t]
      BY <3>2, ReturnedStays
    <3> QED
      BY <2>1, <3>2, <3>3 DEF Source, Asker, Returned, At
  <2> QED
    BY <1>2, <2>1, EntryStep
<1> QED
  BY <1>1, <1>2 DEF AnswersComeFromAskers

\* A search that was not the asker returns what such a one got.
LEMMA NextSharedAnswer ==
  ASSUME CallInv, AnswersComeFromAskers, SharedAnswer, [Next]_vars
  PROVE  SharedAnswer'
<1> SUFFICES ASSUME NEW s \in Search, Returned(s)', ~ Asker(s)'
             PROVE  (\/ answer[s] = "cancelled" /\ s \in cancelled
                     \/ \E t \in Search :
                           /\ Asker(t) /\ Returned(t) /\ QueryOf[t] = QueryOf[s]
                           /\ answer[s] = answer[t]
                           /\ search[s].leader = None => answer[t] \in Good)'
  BY DEF SharedAnswer
<1>1. cancelled \subseteq cancelled'
  BY OwnStep DEF Next, vars, Tick, Cancel
\* The witness, where there is one, has returned already.
<1>2. ASSUME NEW t \in Search, Asker(t), Returned(t), QueryOf[t] = QueryOf[s],
             answer'[s] = answer[t], search'[s].leader = None => answer[t] \in Good
      PROVE  \E u \in Search :
                /\ Asker(u)' /\ Returned(u)' /\ QueryOf[u] = QueryOf[s]
                /\ answer'[s] = answer'[u]
                /\ search'[s].leader = None => answer'[u] \in Good
  <2>1. search'[t] = search[t] /\ answer'[t] = answer[t]
    BY <1>2, ReturnedStays
  <2> QED
    BY <1>2, <2>1 DEF Asker, Returned, At
<1>3. CASE Returned(s)
  <2>1. search'[s] = search[s] /\ answer'[s] = answer[s] /\ ~ Asker(s)
    BY <1>3, ReturnedStays DEF Asker
  <2>2. CASE answer[s] = "cancelled" /\ s \in cancelled
    BY <1>1, <2>1, <2>2
  <2>3. CASE \E t \in Search :
                /\ Asker(t) /\ Returned(t) /\ QueryOf[t] = QueryOf[s]
                /\ answer[s] = answer[t]
                /\ search[s].leader = None => answer[t] \in Good
    BY <1>2, <2>1, <2>3
  <2> QED
    BY <1>3, <2>1, <2>2, <2>3 DEF SharedAnswer
<1>4. CASE ~ Returned(s)
  <2>1. search'[s].at = "returned" /\ search[s].at # "returned" /\ search'[s].leader # s
    BY <1>4 DEF Returned, At, Asker
  <2>2. CASE UNCHANGED vars \/ Tick
    BY <2>1, <2>2 DEF vars, Tick
  <2>3. ASSUME NEW t \in Search, Cancel(t) PROVE FALSE
    BY <2>1, <2>3 DEF Cancel
  <2>4. ASSUME NEW t \in Search, Begin(t) PROVE FALSE
    BY <2>1, <2>4, BeginFacts
  <2>5. ASSUME NEW t \in Search, Lookup(t)
        PROVE  t = s /\ Hit(s)
    <3>1. t = s
      BY <2>1, <2>5, LookupFacts
    <3>2. /\ \A leader : Behind("following", leader).at = "following"
          /\ AtAdapter(s, "leading", 0, 0).at = "leading"
      BY DEF Behind, AtAdapter
    <3> QED
      BY <2>1, <2>5, <3>1, <3>2, LookupFacts
  <2>6. ASSUME NEW t \in Search, Share(t) \/ GiveUp(t)
        PROVE  t = s
    BY <2>1, <2>6, FollowerFacts
  <2>7. ASSUME NEW t \in Search,
               RefuseQuery(t) \/ WaitCancelled(t) \/ Succeed(t) \/ Fail(t)
        PROVE  FALSE
    <3>1. /\ \A u \in Search \ {t} : search'[u] = search[u]
          /\ search'[t] = Behind("returned", t)
      BY <2>7, Finishes, FinishFacts
    <3> QED
      BY <2>1, <3>1 DEF Behind
  <2>8. ASSUME NEW t \in Search, TakeSlot(t) \/ Send(t) \/ Rest(t) \/ Repeat(t)
        PROVE  FALSE
    BY <2>1, <2>8, Stays DEF AdapterPlace
  <2>9. CASE Hit(s)
    <3> DEFINE e == entry[QueryOf[s]]
    <3>1. e \in Entry /\ answer'[s] = e.answer /\ QueryOf[s] \in Query
      <4>1. QueryOf[s] \in Query
        BY QueryAssumption
      <4>2. e # None /\ answer' = [answer EXCEPT ![s] = e.answer]
        BY <2>9 DEF Hit, Fresh, Return
      <4> QED
        BY <4>1, <4>2 DEF CallInv, TypeOK
    <3>2. e # None /\ e.answer \in Good
      BY <3>1, NoneAssumption DEF Entry
    <3>3. PICK t \in Search :
             Asker(t) /\ Returned(t) /\ QueryOf[t] = QueryOf[s] /\ answer[t] = e.answer
      BY <3>1, <3>2 DEF AnswersComeFromAskers, Source
    <3> QED
      BY <1>2, <3>1, <3>2, <3>3
  <2>10. CASE Share(s) \/ GiveUp(s)
    <3>1. /\ search[s].leader \in Search
          /\ search'[s] = Behind("returned", search[s].leader)
          /\ \/ Returned(search[s].leader) /\ answer'[s] = answer[search[s].leader]
             \/ answer'[s] = "cancelled" /\ s \in cancelled
      BY <2>10, FollowerFacts
    <3>2. search'[s].leader # None
      BY <3>1, NoneAssumption DEF Behind
    <3>3. Asker(search[s].leader) /\ QueryOf[search[s].leader] = QueryOf[s]
      BY <3>1, NoneAssumption DEF AnswersComeFromAskers
    <3>4. CASE answer'[s] = "cancelled" /\ s \in cancelled
      BY <1>1, <3>4
    <3>5. CASE Returned(search[s].leader) /\ answer'[s] = answer[search[s].leader]
      BY <1>2, <3>1, <3>2, <3>3, <3>5
    <3> QED
      BY <3>1, <3>4, <3>5
  <2> QED
    BY <2>2, <2>3, <2>4, <2>5, <2>6, <2>7, <2>8, <2>9, <2>10 DEF Next, Proceed, Adapter
<1> QED
  BY <1>3, <1>4

LEMMA InitAnswers == Init => AnswersComeFromAskers /\ SharedAnswer
  BY DEF Init, AnswersComeFromAskers, SharedAnswer, Behind, Returned, At

\* Whoever follows or finds an entry gets what one search got that asked the
\* provider for the same, or learns that its own context has ended.
THEOREM Sharing == Spec => []SharedAnswer
<1> DEFINE Inv == CallInv /\ AnswersComeFromAskers /\ SharedAnswer
<1>1. Init => Inv
  BY InitIInv, InitAnswers
<1>2. Inv /\ [Next]_vars => Inv'
  BY NextIInv, NextAnswers, NextSharedAnswer
<1>3. Inv => SharedAnswer
  OBVIOUS
<1> QED
  BY <1>1, <1>2, <1>3, PTL DEF Spec

-----------------------------------------------------------------------------
(* The counters.                                                           *)

LEMMA CountFacts ==
  ASSUME metrics \in [Counter -> Nat], NEW C, Count(C)
  PROVE  \A c \in Counter : metrics'[c] = IF c \in C THEN metrics[c] + 1 ELSE metrics[c]
  BY DEF Count

Tallied == IsFiniteSet(OnTheWay) /\ MetricsAddUp

Counted == metrics["hits"] + metrics["coalesced"] + metrics["requests"]

LEMMA CountersAreNumbers ==
  ASSUME metrics \in [Counter -> Nat]
  PROVE  /\ metrics["lookups"] \in Nat /\ metrics["hits"] \in Nat
         /\ metrics["coalesced"] \in Nat /\ metrics["requests"] \in Nat
         /\ Counted \in Nat
  BY DEF Counter, Counted

\* A lookup begins, or ends in one counter, or neither.
LEMMA TalliedBegins ==
  ASSUME CallInv, Tallied, NEW s \in Search \ OnTheWay,
         OnTheWay' = OnTheWay \cup {s},
         metrics'["lookups"] = metrics["lookups"] + 1, Counted' = Counted
  PROVE  Tallied'
<1>1. IsFiniteSet(OnTheWay') /\ Cardinality(OnTheWay') = Cardinality(OnTheWay) + 1
  BY FS_AddElement DEF Tallied
<1>2. Cardinality(OnTheWay) \in Nat /\ Cardinality(OnTheWay') \in Nat
  BY <1>1, FS_CardinalityType DEF Tallied
<1>3. Counted \in Nat /\ metrics["lookups"] = Counted + Cardinality(OnTheWay)
  BY CountersAreNumbers DEF Tallied, MetricsAddUp, CallInv, TypeOK, Counted
<1>4. metrics'["lookups"] = Counted' + Cardinality(OnTheWay')
  BY <1>1, <1>2, <1>3
<1> QED
  BY <1>1, <1>4 DEF Tallied, MetricsAddUp, Counted

LEMMA TalliedEnds ==
  ASSUME CallInv, Tallied, NEW s \in OnTheWay, OnTheWay' = OnTheWay \ {s},
         metrics'["lookups"] = metrics["lookups"], Counted' = Counted + 1
  PROVE  Tallied'
<1>1. IsFiniteSet(OnTheWay') /\ Cardinality(OnTheWay') = Cardinality(OnTheWay) - 1
  BY FS_RemoveElement DEF Tallied
<1>2. Cardinality(OnTheWay) \in Nat /\ Cardinality(OnTheWay') \in Nat
  BY <1>1, FS_CardinalityType DEF Tallied
<1>3. Counted \in Nat /\ metrics["lookups"] = Counted + Cardinality(OnTheWay)
  BY CountersAreNumbers DEF Tallied, MetricsAddUp, CallInv, TypeOK, Counted
<1>4. metrics'["lookups"] = Counted' + Cardinality(OnTheWay')
  BY <1>1, <1>2, <1>3
<1> QED
  BY <1>1, <1>4 DEF Tallied, MetricsAddUp, Counted

LEMMA TalliedStays ==
  ASSUME Tallied, OnTheWay' = OnTheWay, metrics' = metrics
  PROVE  Tallied'
  BY DEF Tallied, MetricsAddUp

LEMMA NextTallied ==
  ASSUME CallInv, CallInv', Tallied, [Next]_vars
  PROVE  Tallied'
<1>1. CASE UNCHANGED vars \/ Tick \/ \E s \in Search : Cancel(s)
  <2>1. search' = search /\ metrics' = metrics
    BY <1>1 DEF vars, Tick, Cancel
  <2>2. OnTheWay' = OnTheWay
    BY <2>1 DEF OnTheWay, At, Calling, Returned
  <2> QED
    BY <2>1, <2>2, TalliedStays
\* Who else is on the way does not change with a step of s.
<1>2. ASSUME NEW s \in Search, \A t \in Search \ {s} : search'[t] = search[t]
      PROVE  OnTheWay' \ {s} = OnTheWay \ {s}
  BY <1>2 DEF OnTheWay, At, Calling, Returned
<1>3. ASSUME NEW s \in Search, Begin(s) PROVE Tallied'
  <2>1. s \notin OnTheWay /\ s \in OnTheWay'
    BY <1>3, BeginFacts, NoneAssumption DEF OnTheWay, At, Calling
  <2>2. OnTheWay' = OnTheWay \cup {s}
    BY <1>2, <1>3, <2>1, BeginFacts
  <2>3. metrics'["lookups"] = metrics["lookups"] + 1 /\ Counted' = Counted
    BY <1>3, CountFacts DEF Begin, CallInv, TypeOK, Counted, Counter
  <2> QED
    BY <2>1, <2>2, <2>3, TalliedBegins
<1>4. ASSUME NEW s \in Search, Lookup(s) PROVE Tallied'
  <2>1. s \in OnTheWay /\ OnTheWay' \ {s} = OnTheWay \ {s}
    BY <1>2, <1>4, LookupFacts DEF OnTheWay, At
  <2>2. CASE Hit(s)
    <3>1. search'[s] = Behind("returned", None)
      BY <1>4, <2>2, LookupFacts DEF Hit, Return, Move, CallInv, TypeOK
    <3>2. s \notin OnTheWay'
      BY <3>1 DEF Behind, OnTheWay, At, Calling, Returned
    <3>3. metrics'["lookups"] = metrics["lookups"] /\ Counted' = Counted + 1
      BY <2>2, CountFacts, CountersAreNumbers DEF Hit, CallInv, TypeOK, Counted, Counter
    <3> QED
      BY <2>1, <3>2, <3>3, TalliedEnds
  <2>3. CASE Follow(s)
    <3>1. search'[s].at = "following" /\ search'[s].leader # s
      <4>1. search'[s] = Behind("following", inFlight[QueryOf[s]])
        BY <2>3 DEF Follow, Move, CallInv, TypeOK
      <4>2. search'[s].at = "following"
        BY <4>1 DEF Behind
      <4> QED
        BY <4>2 DEF CallInv, LeadersAsk, At
    <3>2. s \notin OnTheWay'
      BY <3>1 DEF OnTheWay, At, Calling
    <3>3. metrics'["lookups"] = metrics["lookups"] /\ Counted' = Counted + 1
      BY <2>3, CountFacts, CountersAreNumbers DEF Follow, CallInv, TypeOK, Counted, Counter
    <3> QED
      BY <2>1, <3>2, <3>3, TalliedEnds
  <2>4. CASE Lead(s)
    <3>1. search'[s] = AtAdapter(s, "leading", 0, 0)
      BY <2>4 DEF Lead, Move, CallInv, TypeOK
    <3>2. s \in OnTheWay'
      BY <3>1 DEF AtAdapter, OnTheWay, At, Calling, Returned
    <3> QED
      BY <2>1, <2>4, <3>2, TalliedStays DEF Lead
  <2> QED
    BY <1>4, <2>2, <2>3, <2>4 DEF Lookup
<1>5. ASSUME NEW s \in Search, Share(s) \/ GiveUp(s) PROVE Tallied'
  <2>1. s \notin OnTheWay
    BY <1>5, FollowerFacts DEF OnTheWay, At, Calling
  <2>2. search'[s].at = "returned"
    <3>1. search'[s] = Behind("returned", search[s].leader)
      BY <1>5, FollowerFacts
    <3> QED
      BY <3>1 DEF Behind
  <2>3. s \notin OnTheWay'
    BY <2>2 DEF OnTheWay, At, Calling, Returned
  <2>4. OnTheWay' = OnTheWay
    BY <1>2, <1>5, <2>1, <2>3, FollowerFacts
  <2> QED
    BY <1>5, <2>4, TalliedStays DEF Share, GiveUp
<1>6. ASSUME NEW s \in Search,
             RefuseQuery(s) \/ WaitCancelled(s) \/ Succeed(s) \/ Fail(s)
      PROVE  Tallied'
  <2>1. search[s].at \in AdapterPlace /\ search[s].leader = s
    BY <1>6, Finishes DEF CallInv, LeadersAsk
  <2>2. PICK result \in Good \cup {"temporary", "permanent"} : Finish(s, result)
    BY <1>6, Finishes
  <2>3. /\ search'[s] = Behind("returned", s)
        /\ \A t \in Search \ {s} : search'[t] = search[t]
    BY <2>1, <2>2, FinishFacts
  <2>4. s \in OnTheWay /\ s \notin OnTheWay'
    BY <2>1, <2>3 DEF OnTheWay, At, Calling, Returned, Behind, AdapterPlace
  <2>5. OnTheWay' = OnTheWay \ {s}
    BY <1>2, <2>3, <2>4
  <2>6. Count({"requests"}) \/ Count({"requests", "errors"})
    BY <2>2 DEF Finish
  <2>7. metrics'["lookups"] = metrics["lookups"] /\ Counted' = Counted + 1
    BY <2>6, CountFacts, CountersAreNumbers DEF CallInv, TypeOK, Counted, Counter
  <2> QED
    BY <2>4, <2>5, <2>7, TalliedEnds
<1>7. ASSUME NEW s \in Search, TakeSlot(s) \/ Send(s) \/ Rest(s) \/ Repeat(s)
      PROVE  Tallied'
  <2>1. s \in OnTheWay /\ s \in OnTheWay'
    BY <1>7, Stays DEF OnTheWay, At, Calling, Returned, AdapterPlace
  <2>2. OnTheWay' = OnTheWay
    BY <1>2, <1>7, <2>1, Stays
  <2> QED
    BY <1>7, <2>2, Stays, TalliedStays
<1> QED
  BY <1>1, <1>3, <1>4, <1>5, <1>6, <1>7 DEF Next, Proceed, Adapter

LEMMA InitTallied == Init => Tallied
<1> SUFFICES ASSUME Init PROVE Tallied
  OBVIOUS
<1>1. OnTheWay = {}
  BY NoneAssumption DEF Init, OnTheWay, At, Calling, Behind
<1>2. metrics["lookups"] = 0 /\ metrics["hits"] = 0 /\ metrics["coalesced"] = 0
      /\ metrics["requests"] = 0
  BY DEF Init, Counter
<1> QED
  BY <1>1, <1>2, FS_EmptySet DEF Tallied, MetricsAddUp

\* The counters account for every lookup, however many searches there are.
THEOREM CountersAddUp == Spec => []MetricsAddUp
<1> DEFINE Inv == CallInv /\ Tallied
<1>1. Init => Inv
  BY InitIInv, InitTallied
<1>2. Inv /\ [Next]_vars => Inv'
  BY NextIInv, NextTallied
<1>3. Inv => MetricsAddUp
  BY DEF Tallied
<1> QED
  BY <1>1, <1>2, <1>3, PTL DEF Spec

-----------------------------------------------------------------------------
(* The slots.                                                              *)

\* What PacedRequests asks of a step.
PacedStep ==
    \A s \in Search :
        /\ s \notin Holders /\ s \in Holders' => search'[s].wakes >= clock
        /\ s \in Holders /\ search'[s].at = "asking" =>
              /\ search[s].wakes <= clock
              /\ \A t \in asked : Apart(t, search[s].wakes)

LEMMA SlotTypes ==
  ASSUME CallInv
  PROVE  /\ clock \in Nat /\ nextRequest \in Nat /\ asked \subseteq Nat
         /\ Interval \in Nat \ {0}
         /\ \A s \in Search : search[s] \in Local /\ search[s].wakes \in Nat
  BY TimeAssumption DEF CallInv, TypeOK, Local

\* A search that has not moved holds the slot it held.
LEMMA Unmoved ==
  ASSUME NEW t \in Search, search'[t] = search[t]
  PROVE  /\ t \in Holders' <=> t \in Holders
         /\ At(t, "sending")' <=> At(t, "sending")
  BY DEF Holders, At

\* A step after which the search that moves holds no slot, and that takes and
\* uses none.
LEMMA SlotsLeft ==
  ASSUME CallInv, SlotsAreApart, NEW s \in Search,
         \A t \in Search \ {s} : search'[t] = search[t],
         search'[s].at \notin {"sending", "queueing", "asking"},
         UNCHANGED <<clock, nextRequest, asked>>
  PROVE  SlotsAreApart' /\ PacedStep
<1>1. s \notin Holders'
  BY DEF Holders, At
<1>2. \A t \in Holders' : t \in Holders /\ t \in Search /\ t # s /\ search'[t] = search[t]
  BY <1>1, Unmoved DEF Holders
<1>3. SlotsAreApart'
  BY <1>2 DEF SlotsAreApart, Apart, At
<1>4. PacedStep
  <2> SUFFICES ASSUME NEW t \in Search, t \in Holders, search'[t].at = "asking"
               PROVE  FALSE
    BY <1>2 DEF PacedStep
  <2>1. t # s /\ search'[t] = search[t]
    OBVIOUS
  <2> QED
    BY <2>1 DEF Holders, At
<1> QED
  BY <1>3, <1>4

\* The slot that is taken comes after every slot held or used, and not before now.
LEMMA SlotTaken ==
  ASSUME CallInv, SlotsAreApart, NEW s \in Search, TakeSlot(s)
  PROVE  SlotsAreApart' /\ PacedStep
<1> DEFINE slot == IF clock < nextRequest THEN nextRequest ELSE clock
<1>1. /\ slot \in Nat /\ slot >= clock /\ slot >= nextRequest
      /\ asked' = asked /\ clock' = clock /\ nextRequest' = slot + Interval
  BY SlotTypes DEF TakeSlot
<1>2. /\ search'[s].wakes = slot
      /\ search'[s].at \in {"sending", "queueing"}
      /\ search'[s].at = "sending" => slot = clock
      /\ \A t \in Search \ {s} : search'[t] = search[t]
  <2>1. Move(s, AtAdapter(s, IF slot = clock THEN "sending" ELSE "queueing",
                          search[s].attempt, slot))
    BY DEF TakeSlot
  <2>2. search'[s] = AtAdapter(s, IF slot = clock THEN "sending" ELSE "queueing",
                               search[s].attempt, slot)
    BY <2>1 DEF Move, CallInv, TypeOK
  <2> HIDE DEF slot
  <2> QED
    BY <2>2, Stays DEF AtAdapter
<1>3. s \notin Holders /\ s \in Holders'
  BY <1>2 DEF TakeSlot, Holders, At
<1>4. \A t \in Holders' \ {s} : t \in Holders /\ t \in Search /\ search'[t] = search[t]
  BY <1>2, Unmoved DEF Holders
<1>5. ASSUME NEW t \in Holders \ {s}
      PROVE  /\ search[t].wakes + Interval <= nextRequest /\ search[t].wakes \in Nat
             /\ \A a \in asked : Apart(a, search[t].wakes)
             /\ \A o \in Holders \ {t} : Apart(search[o].wakes, search[t].wakes)
             /\ At(t, "sending") => search[t].wakes <= clock
  BY <1>5, SlotTypes DEF SlotsAreApart, Holders
<1> HIDE DEF slot
<1>6. ASSUME NEW w \in Nat, w + Interval <= nextRequest
      PROVE  Apart(w, slot) /\ Apart(slot, w) /\ w + Interval <= slot + Interval
  BY <1>1, <1>6, SlotTypes DEF Apart
<1>7. \A a \in asked : a \in Nat /\ a + Interval <= nextRequest
  BY SlotTypes DEF SlotsAreApart
<1>8. ASSUME NEW t \in Holders'
      PROVE  /\ search'[t].wakes + Interval <= nextRequest'
             /\ \A a \in asked : Apart(a, search'[t].wakes)
             /\ \A o \in Holders' \ {t} : Apart(search'[o].wakes, search'[t].wakes)
             /\ At(t, "sending")' => search'[t].wakes <= clock
  <2>1. CASE t = s
    <3>1. \A a \in asked : Apart(a, slot)
      BY <1>6, <1>7
    <3>2. \A o \in Holders' \ {s} : Apart(search'[o].wakes, slot)
      BY <1>4, <1>5, <1>6
    <3>3. slot + Interval <= nextRequest' /\ (At(s, "sending")' => slot <= clock)
      BY <1>1, <1>2, SlotTypes DEF At
    <3> QED
      BY <1>2, <2>1, <3>1, <3>2, <3>3
  <2>2. CASE t # s
    <3>1. t \in Holders /\ t \in Search /\ search'[t] = search[t]
      BY <1>4, <2>2
    <3>2. /\ search[t].wakes + Interval <= nextRequest /\ search[t].wakes \in Nat
          /\ \A a \in asked : Apart(a, search[t].wakes)
          /\ \A o \in Holders \ {t} : Apart(search[o].wakes, search[t].wakes)
          /\ At(t, "sending") => search[t].wakes <= clock
      BY <1>5, <2>2, <3>1
    <3>3. Apart(slot, search[t].wakes) /\ search[t].wakes + Interval <= slot + Interval
      BY <1>6, <3>2
    <3>4. \A o \in Holders' \ {t} : Apart(search'[o].wakes, search[t].wakes)
      BY <1>2, <1>4, <3>2, <3>3
    <3> QED
      BY <1>1, <3>1, <3>2, <3>3, <3>4, Unmoved
  <2> QED
    BY <2>1, <2>2
<1>9. SlotsAreApart'
  <2>1. \A a \in asked' : a + Interval <= nextRequest'
    BY <1>1, <1>6, <1>7
  <2>2. \A t \in Holders' : \A a \in asked' : Apart(a, search'[t].wakes)
    BY <1>1, <1>8
  <2> QED
    BY <1>1, <1>8, <2>1, <2>2 DEF SlotsAreApart, Apart
<1>10. PacedStep
  <2>1. ASSUME NEW t \in Search, t \notin Holders, t \in Holders'
        PROVE  search'[t].wakes >= clock
    <3>1. t = s
      BY <1>4, <2>1
    <3> QED
      BY <1>1, <1>2, <3>1
  <2>2. ASSUME NEW t \in Search, t \in Holders, search'[t].at = "asking"
        PROVE  FALSE
    BY <1>2, <1>3, <2>2 DEF Holders, At
  <2> QED
    BY <2>1, <2>2 DEF PacedStep
<1> QED
  BY <1>9, <1>10

\* The slot that is used has come, and is apart from those used before.
LEMMA SlotUsed ==
  ASSUME CallInv, SlotsAreApart, NEW s \in Search, Send(s)
  PROVE  SlotsAreApart' /\ PacedStep
<1> DEFINE slot == search[s].wakes
<1>1. /\ asked' = asked \cup {slot} /\ clock' = clock /\ nextRequest' = nextRequest
      /\ \A t \in Search \ {s} : search'[t] = search[t]
  BY Stays DEF Send
<1>2. search'[s].at = "asking"
  BY DEF Send, Move, CallInv, TypeOK, AtAdapter
<1>3. s \in Holders /\ s \notin Holders'
  BY <1>2 DEF Send, Ready, Holders, At
<1>4. \A t \in Holders' : t \in Holders /\ t \in Search /\ t # s /\ search'[t] = search[t]
  BY <1>1, <1>3, Unmoved DEF Holders
<1>5. /\ slot + Interval <= nextRequest /\ slot \in Nat /\ slot <= clock
      /\ \A a \in asked : Apart(a, slot)
  BY <1>3, SlotTypes DEF SlotsAreApart, Send, Ready
<1>6. \A t \in Holders \ {s} : Apart(slot, search[t].wakes)
  BY <1>3 DEF SlotsAreApart
<1> HIDE DEF slot
<1>7. SlotsAreApart'
  <2>1. \A a \in asked' : a + Interval <= nextRequest'
    BY <1>1, <1>5 DEF SlotsAreApart
  <2>2. ASSUME NEW t \in Holders'
        PROVE  /\ search'[t].wakes + Interval <= nextRequest'
               /\ \A a \in asked' : Apart(a, search'[t].wakes)
               /\ \A o \in Holders' \ {t} : Apart(search'[o].wakes, search'[t].wakes)
               /\ At(t, "sending")' => search'[t].wakes <= clock'
    BY <1>1, <1>4, <1>6 DEF SlotsAreApart, At
  <2> QED
    BY <2>1, <2>2 DEF SlotsAreApart, Apart
<1>8. PacedStep
  <2>1. ASSUME NEW t \in Search, t \notin Holders PROVE t \notin Holders'
    BY <1>4, <2>1
  <2>2. ASSUME NEW t \in Search, t \in Holders, search'[t].at = "asking"
        PROVE  /\ search[t].wakes <= clock
               /\ \A a \in asked : Apart(a, search[t].wakes)
    <3>1. CASE t = s
      BY <1>5, <3>1 DEF slot
    <3>2. CASE t # s
      BY <1>1, <2>2, <3>2 DEF Holders, At
    <3> QED
      BY <3>1, <3>2
  <2> QED
    BY <2>1, <2>2 DEF PacedStep
<1> QED
  BY <1>7, <1>8

\* No search moves; the time of a slot may come.
LEMMA NoneMoves ==
  ASSUME CallInv, SlotsAreApart, UNCHANGED <<search, nextRequest, asked>>,
         clock' = clock \/ clock' = clock + 1
  PROVE  SlotsAreApart' /\ PacedStep
<1>1. Holders' = Holders /\ clock \in Nat /\ clock' >= clock
  BY SlotTypes DEF Holders, At
<1>2. \A s \in Search : At(s, "sending")' <=> At(s, "sending")
  BY DEF At
<1>3. \A s \in Holders : search[s].wakes <= clock => search[s].wakes <= clock'
  BY <1>1, SlotTypes DEF Holders
<1>4. SlotsAreApart'
  BY <1>1, <1>2, <1>3 DEF SlotsAreApart, Apart, Holders
<1>5. PacedStep
  BY <1>1 DEF PacedStep, Holders, At
<1> QED
  BY <1>4, <1>5

LEMMA NextSlots ==
  ASSUME CallInv, SlotsAreApart, [Next]_vars
  PROVE  SlotsAreApart' /\ PacedStep
<1> DEFINE Kept == SlotsAreApart' /\ PacedStep
<1>1. CASE UNCHANGED vars \/ Tick \/ \E s \in Search : Cancel(s)
  BY <1>1, NoneMoves DEF vars, Tick, Cancel
<1>2. ASSUME NEW s \in Search, Begin(s) PROVE Kept
  <2>1. search'[s].at \notin {"sending", "queueing", "asking"}
    BY <1>2, BeginFacts
  <2> QED
    BY <1>2, <2>1, BeginFacts, SlotsLeft DEF Begin
<1>3. ASSUME NEW s \in Search, Lookup(s) PROVE Kept
  <2>1. search'[s].at \notin {"sending", "queueing", "asking"}
    <3>1. /\ \A leader : Behind("following", leader).at = "following"
          /\ \A leader : Behind("returned", leader).at = "returned"
          /\ AtAdapter(s, "leading", 0, 0).at = "leading"
      BY DEF Behind, AtAdapter
    <3>2. \/ \E leader : search'[s] \in {Behind("following", leader), Behind("returned", leader)}
          \/ search'[s] = AtAdapter(s, "leading", 0, 0)
      BY <1>3, LookupFacts
    <3> QED
      BY <3>1, <3>2
  <2>2. UNCHANGED <<clock, nextRequest, asked>>
    BY <1>3 DEF Lookup, Hit, Follow, Lead
  <2> QED
    BY <1>3, <2>1, <2>2, LookupFacts, SlotsLeft
<1>4. ASSUME NEW s \in Search, Share(s) \/ GiveUp(s) PROVE Kept
  <2>1. search'[s] = Behind("returned", search[s].leader)
    BY <1>4, FollowerFacts
  <2>2. search'[s].at \notin {"sending", "queueing", "asking"}
    BY <2>1 DEF Behind
  <2>3. UNCHANGED <<clock, nextRequest, asked>>
    BY <1>4 DEF Share, GiveUp
  <2> QED
    BY <1>4, <2>2, <2>3, FollowerFacts, SlotsLeft
<1>5. ASSUME NEW s \in Search,
             RefuseQuery(s) \/ WaitCancelled(s) \/ Succeed(s) \/ Fail(s)
      PROVE  Kept
  <2>1. /\ search'[s] = Behind("returned", s)
        /\ \A t \in Search \ {s} : search'[t] = search[t]
        /\ UNCHANGED <<clock, nextRequest, asked>>
    BY <1>5, Finishes, FinishFacts
  <2>2. search'[s].at \notin {"sending", "queueing", "asking"}
    BY <2>1 DEF Behind
  <2> QED
    BY <2>1, <2>2, SlotsLeft
<1>6. ASSUME NEW s \in Search, Rest(s) \/ Repeat(s) PROVE Kept
  <2>1. search'[s].at \in {"resting", "leading"}
    BY <1>6 DEF Rest, Repeat, Move, CallInv, TypeOK, AtAdapter
  <2>2. search'[s].at \notin {"sending", "queueing", "asking"}
    BY <2>1
  <2>3. UNCHANGED <<clock, nextRequest, asked>>
    BY <1>6 DEF Rest, Repeat
  <2> QED
    BY <1>6, <2>2, <2>3, Stays, SlotsLeft
<1> QED
  BY <1>1, <1>2, <1>3, <1>4, <1>5, <1>6, SlotTaken, SlotUsed DEF Next, Proceed, Adapter

LEMMA InitSlots == Init => SlotsAreApart
<1> SUFFICES ASSUME Init PROVE SlotsAreApart
  OBVIOUS
<1>1. Holders = {} /\ asked = {}
  BY DEF Init, Holders, At, Behind
<1> QED
  BY <1>1 DEF SlotsAreApart

\* One request an interval, for every length of it: no slot is taken in the past
\* or used before it comes, and whatever is cancelled, repeated or sent late, no
\* two requests are sent in slots that are less than an interval apart.
THEOREM Pacing == Spec => PacedRequests
<1> DEFINE Inv == CallInv /\ SlotsAreApart
<1>1. Init => Inv
  BY InitIInv, InitSlots
<1>2. Inv /\ [Next]_vars => Inv'
  BY NextIInv, NextSlots
<1>3. Inv /\ [Next]_vars => [PacedStep]_vars
  BY NextSlots
<1>4. Spec => [][PacedStep]_vars
  BY <1>1, <1>2, <1>3, PTL DEF Spec
<1> QED
  BY <1>4 DEF PacedRequests, PacedStep

\* The inductive invariant of the cache and its adapter as a whole.
THEOREM Invariance == Spec => []IInv
<1> DEFINE Inv == CallInv /\ AnswersComeFromAskers /\ SharedAnswer /\ SlotsAreApart
<1>1. Init => Inv
  BY InitIInv, InitAnswers, InitSlots
<1>2. Inv /\ [Next]_vars => Inv'
  BY NextIInv, NextAnswers, NextSharedAnswer, NextSlots
<1>3. Inv => IInv
  BY DEF IInv
<1> QED
  BY <1>1, <1>2, <1>3, PTL DEF Spec
===============================================================================
