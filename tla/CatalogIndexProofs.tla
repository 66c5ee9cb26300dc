-------------------------- MODULE CatalogIndexProofs --------------------------
(* The crawler and the search around the local index, for any providers, sites, *)
(* editions and bounds.                                                         *)
EXTENDS CatalogIndex, SequenceTheorems, FiniteSetTheorems, WellFoundedInduction, TLAPS

-----------------------------------------------------------------------------
(* The search.                                                                 *)

\* What is cached under a key, and what is in flight, asked what the key says.
AnswersAsk ==
    /\ cached = [s \in Scopes |-> cached[s]]
    /\ \A s \in Scopes : cached[s] # NoResponse => cached[s].asked = Asked(s)
    /\ InFlight => search.scope \in Scopes
    /\ WarmSearchAsksAll

LEMMA AnswersInit == Init => AnswersAsk
BY DEF Init, SearchInit, AnswersAsk, WarmSearchAsksAll, InFlight, NoAnswer

LEMMA AnswersStep == AnswersAsk /\ [Next]_vars => AnswersAsk'
<1> SUFFICES ASSUME AnswersAsk, [Next]_vars PROVE AnswersAsk'
  OBVIOUS
<1>1. CASE UNCHANGED searchVars
  BY <1>1 DEF searchVars, AnswersAsk, WarmSearchAsksAll, InFlight
<1>2. CASE AnswerLocally \/ TakeAnswer \/ GatherNothing
  <2>1. cached' = cached /\ (search' = search \/ search' = NoSearch)
    BY <1>2 DEF AnswerLocally, TakeAnswer, GatherNothing
  <2>2. answer' = NoAnswer \/ \E kind, groups : Say(kind, groups)
    BY <1>2 DEF AnswerLocally, TakeAnswer, GatherNothing
  <2>3. ~answer'.warm
    <3>1. ~NoAnswer.warm
      BY DEF NoAnswer
    <3>2. ASSUME NEW kind, NEW groups, Say(kind, groups)
          PROVE  answer'.warm = NoAnswer.warm
      BY <3>2 DEF Say, NoAnswer
    <3> QED BY <2>2, <3>1, <3>2
  <2> QED BY <2>1, <2>3 DEF AnswersAsk, WarmSearchAsksAll, InFlight
<1>3. CASE AnswerFromCache
  <2>1. Scope \in Scopes /\ (ready => Asked(Scope) = Provider)
    BY DEF Scope, Scopes, Asked
  <2>2. cached[Scope].asked = Asked(Scope)
    BY <1>3, <2>1 DEF AnswerFromCache, AnswersAsk, CacheKey
  <2>3. answer'.asked = cached[Scope].asked /\ answer'.warm = ready
    BY <1>3 DEF AnswerFromCache, Deliver, CacheKey
  <2> QED BY <1>3, <2>1, <2>2, <2>3 DEF AnswerFromCache, AnswersAsk, WarmSearchAsksAll, InFlight
<1>4. CASE AskProviders
  BY <1>4 DEF AskProviders, AnswersAsk, WarmSearchAsksAll, InFlight, Scope, Scopes
<1>5. CASE Gather
  <2>1. search.scope \in Scopes
    BY <1>5 DEF Gather, AnswersAsk
  <2>2. PICK resp : /\ resp.asked = Asked(search.scope)
                    /\ cached' = [cached EXCEPT ![search.scope] = resp]
                    /\ Deliver(search.local, resp, search.scope = "all")
    BY <1>5 DEF Gather, CacheKey
  <2>3. answer'.asked = Asked(search.scope) /\ answer'.warm = (search.scope = "all")
    BY <2>2 DEF Deliver
  <2>4. cached' = [s \in Scopes |-> IF s = search.scope THEN resp ELSE cached[s]]
    BY <2>1, <2>2 DEF AnswersAsk
  <2> QED BY <1>5, <2>1, <2>2, <2>3, <2>4 DEF Gather, AnswersAsk, WarmSearchAsksAll, InFlight, Asked
<1>6. CASE TurnUakino \/ CrawlPage
  BY <1>6 DEF TurnUakino, CrawlPage, AnswersAsk, WarmSearchAsksAll, InFlight
<1>7. CASE LapseAnswer
  <2>1. PICK s \in Scopes : cached' = [cached EXCEPT ![s] = NoResponse]
    BY <1>7 DEF LapseAnswer
  <2> QED BY <1>7, <2>1 DEF LapseAnswer, AnswersAsk, WarmSearchAsksAll, InFlight
<1>8. CASE Api
  BY <1>2, <1>3, <1>4, <1>5, <1>6, <1>7, <1>8 DEF Api, SearchNext
<1> QED BY <1>1, <1>8 DEF Next, Crawler, Revise, vars, searchVars

\* A search that begins while uakino is ready is answered by nothing that left it
\* out: not from the cache, and not by the fan-out in flight.
THEOREM WarmAsksAll == Spec => []WarmSearchAsksAll
<1>1. AnswersAsk => WarmSearchAsksAll
  BY DEF AnswersAsk
<1> QED BY <1>1, AnswersInit, AnswersStep, PTL DEF Spec

-----------------------------------------------------------------------------
(* Sets put in a sequence.                                                     *)

\* Every member of a finite set is listed, and nothing else.
LEMMA SetToSeqFacts ==
    ASSUME NEW S, IsFiniteSet(S)
    PROVE  SetToSeq(S) \in Seq(S) /\ ToSet(SetToSeq(S)) = S
<1> DEFINE n == Cardinality(S)
           f == SetToSeq(S)
<1>1. n \in Nat /\ \E g : g \in Bijection(1..n, S)
  BY FS_CardinalityType DEF ExistsBijection
<1>2. PICK g : g \in Bijection(1..n, S)
  BY <1>1
<1>3. g \in [1..n -> S] /\ IsInjective(g)
  BY <1>2 DEF Bijection, Injection
<1>4. f \in [1..n -> S] /\ IsInjective(f)
  BY <1>3 DEF SetToSeq
<1>5. f \in Injection(1..n, S)
  BY <1>4 DEF Injection
<1>6. IsFiniteSet(1..n) /\ Cardinality(1..n) = n
  BY <1>1, FS_Interval
<1>7. f \in Surjection(1..n, S)
  BY <1>5, <1>6, FS_Injection
<1>8. f \in Seq(S) /\ DOMAIN f = 1..n
  BY <1>1, <1>4
<1>9. \A x \in S : \E i \in 1..n : f[i] = x
  BY <1>7 DEF Surjection
<1> HIDE DEF f, n
<1>10. ToSet(f) = S
  BY <1>4, <1>8, <1>9 DEF ToSet
<1> QED BY <1>8, <1>10 DEF f

LEMMA TailMembers ==
    ASSUME NEW S, NEW q \in Seq(S), q # <<>>
    PROVE  /\ ToSet(Tail(q)) \subseteq ToSet(q)
           /\ \A x \in ToSet(q) : x = Head(q) \/ x \in ToSet(Tail(q))
<1>1. /\ Tail(q) \in Seq(S) /\ Len(Tail(q)) = Len(q) - 1 /\ Len(q) \in Nat \ {0}
      /\ DOMAIN q = 1..Len(q) /\ DOMAIN Tail(q) = 1..Len(Tail(q)) /\ Head(q) = q[1]
  OBVIOUS
<1>2. \A i \in 1..Len(Tail(q)) : Tail(q)[i] = q[i + 1] /\ i + 1 \in 1..Len(q)
  BY <1>1
<1>3. ASSUME NEW i \in 1..Len(q), i # 1
      PROVE  i - 1 \in 1..Len(Tail(q)) /\ q[i] = Tail(q)[i - 1]
  <2>1. i - 1 \in 1..Len(Tail(q)) /\ (i - 1) + 1 = i
    BY <1>1, <1>3
  <2> QED BY <1>2, <2>1
<1>4. ToSet(Tail(q)) \subseteq ToSet(q)
  BY <1>1, <1>2 DEF ToSet
<1>5. ASSUME NEW x \in ToSet(q), x # Head(q)
      PROVE  x \in ToSet(Tail(q))
  <2>1. PICK i \in 1..Len(q) : x = q[i]
    BY <1>1 DEF ToSet
  <2>2. i # 1
    BY <1>1, <1>5, <2>1
  <2> QED BY <1>1, <1>3, <2>1, <2>2 DEF ToSet
<1> QED BY <1>4, <1>5

LEMMA ProvidersFinite == IsFiniteSet(Provider)
<1> DEFINE n == Len(Registry)
<1>1. n \in Nat /\ DOMAIN Registry = 1..n /\ Registry \in [1..n -> Provider]
  BY RegistryAssumption DEF IsSequence, Provider
<1>2. \A x \in Provider : \E i \in 1..n : Registry[i] = x
  BY <1>1 DEF Provider, ToSet
<1>3. Registry \in Surjection(1..n, Provider)
  BY <1>1, <1>2 DEF Surjection
<1> QED BY <1>1, <1>3, FS_Surjection, FS_Interval

\* The providers of a run, in some order.
LEMMA TodoFacts ==
    ASSUME NEW S \in SUBSET Provider
    PROVE  SetToSeq(S) \in Seq(Provider) /\ ToSet(SetToSeq(S)) = S
<1>1. SetToSeq(S) \in Seq(S) /\ ToSet(SetToSeq(S)) = S
  BY ProvidersFinite, FS_Subset, SetToSeqFacts
<1> QED BY <1>1, SeqMonotonic

-----------------------------------------------------------------------------
(* The crawl.                                                                  *)

Verdicts == {"ok", "403", "other"}

RunType == [pass: Nat, todo: Seq(Provider), section: Nat, page: Nat,
            stat: UNION {[D -> Verdicts \cup {"none"}] : D \in SUBSET Provider}]

\* A crawl stands on a page that there is.
Placed(r) ==
    /\ r.todo # <<>> /\ Sections(Head(r.todo)) # <<>> =>
          /\ r.section \in DOMAIN Sections(Head(r.todo))
          /\ r.page \in DOMAIN Sections(Head(r.todo))[r.section].pages
    /\ r.todo = <<>> => r.section = 1 /\ r.page = 1

\* Who has no verdict yet is still to be walked.
Pending(r) ==
    /\ ToSet(r.todo) \subseteq DOMAIN r.stat
    /\ \A p \in DOMAIN r.stat : r.stat[p] = "none" => p \in ToSet(r.todo)

StoredAsSent ==
    /\ stored = [u \in Validated |-> stored[u]]
    /\ \A u \in Validated : stored[u].tag = stored[u].body

CrawlInv ==
    /\ site \in Edition
    /\ run \in RunType /\ Placed(run) /\ Pending(run)
    /\ StoredAsSent
    /\ process = "api" => ~Running

LEMMA SectionFacts ==
    ASSUME NEW e \in Edition, NEW p \in Provider
    PROVE  /\ Len(Listing(p, e)) \in Nat
           /\ DOMAIN Listing(p, e) = 1 .. Len(Listing(p, e))
           /\ Listing(p, e) = <<>> <=> Len(Listing(p, e)) = 0
           /\ \A s \in DOMAIN Listing(p, e) :
                 /\ Len(Listing(p, e)[s].pages) \in Nat \ {0}
                 /\ DOMAIN Listing(p, e)[s].pages = 1 .. Len(Listing(p, e)[s].pages)
<1>1. IsSequence(Listing(p, e))
  BY ListingAssumption
<1>2. \A s \in DOMAIN Listing(p, e) :
         IsSequence(Listing(p, e)[s].pages) /\ Listing(p, e)[s].pages # <<>>
  BY ListingAssumption
<1> QED BY <1>1, <1>2 DEF IsSequence

\* Where a walk goes on after a provider that has its verdict.
LEMMA NextFacts ==
    ASSUME site \in Edition, NEW r \in RunType, Placed(r), Pending(r), r.todo # <<>>,
           r.stat[Head(r.todo)] # "none"
    PROVE  /\ NextProvider(r) \in RunType /\ Placed(NextProvider(r)) /\ Pending(NextProvider(r))
           /\ Sections(Head(r.todo)) # <<>> =>
                 NextSection(r) \in RunType /\ Placed(NextSection(r)) /\ Pending(NextSection(r))
<1> DEFINE p == Head(r.todo)
           q == NextProvider(r)
<1>1. /\ r.todo \in Seq(Provider) /\ r.pass \in Nat /\ r.section \in Nat /\ r.page \in Nat
  BY DEF RunType
<1>2. p \in Provider /\ Tail(r.todo) \in Seq(Provider)
  BY <1>1
<1>3. /\ q.todo = Tail(r.todo) /\ q.section = 1 /\ q.page = 1 /\ q.stat = r.stat
      /\ q \in RunType
  BY <1>2 DEF NextProvider, RunType
<1>4. Pending(q)
  BY <1>1, <1>3, TailMembers DEF Pending
<1> HIDE DEF q
<1>5. Placed(q)
  <2> SUFFICES ASSUME q.todo # <<>>
               PROVE  Sections(Head(q.todo)) # <<>> =>
                        /\ 1 \in DOMAIN Sections(Head(q.todo))
                        /\ 1 \in DOMAIN Sections(Head(q.todo))[1].pages
    BY <1>3 DEF Placed
  <2> DEFINE h == Head(q.todo)
  <2>1. h \in Provider
    BY <1>2, <1>3
  <2> HIDE DEF h
  <2>2. Sections(h) # <<>> => 1 \in DOMAIN Sections(h) /\ 1 \in DOMAIN Sections(h)[1].pages
    BY <2>1, SectionFacts DEF Sections
  <2> QED BY <2>2 DEF h
<1>6. ASSUME Sections(p) # <<>>
      PROVE  NextSection(r) \in RunType /\ Placed(NextSection(r)) /\ Pending(NextSection(r))
  <2>1. CASE r.section < Len(Sections(p))
    <3> DEFINE s == [r EXCEPT !.section = @ + 1, !.page = 1]
    <3>1. /\ s.todo = r.todo /\ s.section = r.section + 1 /\ s.page = 1 /\ s.stat = r.stat
          /\ s \in RunType
      <4> DEFINE n == r.section + 1
      <4>1. n \in Nat
        BY <1>1
      <4> HIDE DEF n
      <4>2. [r EXCEPT !.section = n, !.page = 1] \in RunType
        BY <4>1 DEF RunType
      <4>3. s.todo = r.todo /\ s.section = n /\ s.page = 1 /\ s.stat = r.stat
        BY DEF RunType, n
      <4> QED BY <4>2, <4>3 DEF n
    <3> HIDE DEF s
    <3>2. NextSection(r) = s
      <4>1. NextSection(r) = IF r.section < Len(Sections(p)) THEN s ELSE NextProvider(r)
        BY DEF NextSection, s
      <4> QED BY <2>1, <4>1
    <3> HIDE DEF p
    <3>3. r.section + 1 \in DOMAIN Sections(p)
      BY <1>1, <1>2, <2>1, SectionFacts DEF Sections
    <3>4. 1 \in DOMAIN Sections(p)[r.section + 1].pages
      BY <1>2, <3>3, SectionFacts DEF Sections
    <3>5. Placed(s)
      BY <3>1, <3>3, <3>4 DEF Placed, p
    <3> QED BY <3>1, <3>2, <3>5 DEF Pending
  <2>2. CASE ~(r.section < Len(Sections(p)))
    <3>1. NextSection(r) = q
      BY <2>2 DEF NextSection, q
    <3> QED BY <1>3, <1>4, <1>5, <3>1
  <2> QED BY <2>1, <2>2
<1> QED BY <1>3, <1>4, <1>5, <1>6 DEF q

\* Noting a verdict moves nothing.
LEMMA MarkFacts ==
    ASSUME run \in RunType, Placed(run), Pending(run), Walking,
           NEW v \in Verdicts, NEW r, r = [run EXCEPT !.stat[Head(run.todo)] = v]
    PROVE  /\ r \in RunType /\ Placed(r) /\ Pending(r)
           /\ r.todo = run.todo /\ r.section = run.section /\ r.page = run.page
           /\ r.stat[Head(run.todo)] = v
<1> DEFINE p == Head(run.todo)
           D == DOMAIN run.stat
<1>1. run.todo \in Seq(Provider) /\ run.todo # <<>>
  BY DEF RunType, Walking
<1>2. p \in Provider /\ p \in ToSet(run.todo)
  BY <1>1 DEF ToSet
<1>3. D \in SUBSET Provider /\ run.stat \in [D -> Verdicts \cup {"none"}] /\ p \in D
  BY <1>2 DEF RunType, Pending
<1>4. r.todo = run.todo /\ r.section = run.section /\ r.page = run.page /\ r.pass = run.pass
  BY DEF RunType
<1>5. r.stat = [run.stat EXCEPT ![p] = v]
  BY DEF RunType
<1>6. r.stat \in [D -> Verdicts \cup {"none"}] /\ DOMAIN r.stat = D /\ r.stat[p] = v
      /\ \A x \in D : x # p => r.stat[x] = run.stat[x]
  BY <1>3, <1>5
<1>7. r \in RunType
  BY <1>3, <1>6 DEF RunType
<1>8. v # "none"
  BY DEF Verdicts
<1>9. Pending(r)
  BY <1>4, <1>6, <1>8 DEF Pending
<1>10. Placed(r)
  BY <1>4 DEF Placed
<1> QED BY <1>4, <1>6, <1>7, <1>9, <1>10

\* A run that starts or goes round again stands on the first page of its first
\* provider.
LEMMA RoundFacts ==
    ASSUME site \in Edition, NEW S \in SUBSET Provider, NEW r \in RunType,
           r.todo = SetToSeq(S), r.section = 1, r.page = 1
    PROVE  Placed(r) /\ ToSet(r.todo) = S
<1>1. r.todo \in Seq(Provider) /\ ToSet(r.todo) = S
  BY TodoFacts
<1>2. ASSUME r.todo # <<>>
      PROVE  Sections(Head(r.todo)) # <<>> =>
               /\ 1 \in DOMAIN Sections(Head(r.todo))
               /\ 1 \in DOMAIN Sections(Head(r.todo))[1].pages
  <2> DEFINE h == Head(r.todo)
  <2>1. h \in Provider
    BY <1>1, <1>2
  <2> HIDE DEF h
  <2>2. Sections(h) # <<>> => 1 \in DOMAIN Sections(h) /\ 1 \in DOMAIN Sections(h)[1].pages
    BY <2>1, SectionFacts DEF Sections
  <2> QED BY <2>2 DEF h
<1> QED BY <1>1, <1>2 DEF Placed

\* A page is taken, of the section the crawl is in.
LEMMA TakeFacts ==
    ASSUME site \in Edition, run \in RunType, Placed(run), Pending(run), Walking,
           Sections(Head(run.todo)) # <<>>, NEW heard, TakePage(heard)
    PROVE  run' \in RunType /\ Placed(run') /\ Pending(run')
<1> DEFINE p == Head(run.todo)
           m == [run EXCEPT !.stat[p] = "ok"]
<1>1. "ok" \in Verdicts /\ "ok" # "none"
  BY DEF Verdicts
<1>2. /\ m \in RunType /\ Placed(m) /\ Pending(m)
      /\ m.todo = run.todo /\ m.section = run.section /\ m.page = run.page
      /\ m.stat[p] = "ok"
  BY <1>1, MarkFacts
<1>3. run.todo # <<>>
  BY DEF Walking
<1>3a. run' = Onward(m, heard # {} /\ HasNext) \/ run' = NextSection(m)
  BY DEF TakePage
<1> HIDE DEF m
<1>4. NextSection(m) \in RunType /\ Placed(NextSection(m)) /\ Pending(NextSection(m))
  BY <1>1, <1>2, <1>3, NextFacts
<1>5. CASE run' = NextSection(m)
  BY <1>4, <1>5
<1>6. CASE run' = Onward(m, heard # {} /\ HasNext)
  <2>1. CASE (heard # {} /\ HasNext) /\ m.page < PageLimit
    <3> DEFINE n == m.page + 1
               r == [m EXCEPT !.page = n]
    <3>1. run' = r
      BY <1>6, <2>1 DEF Onward
    <3>2. m.page \in Nat /\ n \in Nat
      BY <1>2 DEF RunType
    <3> HIDE DEF n
    <3>3. /\ r \in RunType /\ r.page = n
          /\ r.todo = m.todo /\ r.section = m.section /\ r.stat = m.stat
      BY <1>2, <3>2 DEF RunType
    <3> HIDE DEF r
    <3>4. p \in Provider
      BY <1>3 DEF RunType
    <3>5. m.section \in DOMAIN Sections(p) /\ m.page < Len(Sections(p)[m.section].pages)
      BY <1>2, <1>3, <2>1 DEF HasNext, Placed
    <3>6. n \in DOMAIN Sections(p)[m.section].pages
      <4> DEFINE pages == Sections(p)[m.section].pages
      <4>1. Len(pages) \in Nat /\ DOMAIN pages = 1..Len(pages)
        BY <3>4, <3>5, SectionFacts DEF Sections
      <4> HIDE DEF pages
      <4>2. m.page < Len(pages)
        BY <3>5 DEF pages
      <4>3. n \in DOMAIN pages
        BY <3>2, <4>1, <4>2 DEF n
      <4> QED BY <4>3 DEF pages
    <3>7. r.todo # <<>> /\ Head(r.todo) = p
      BY <1>2, <1>3, <3>3
    <3>8. Placed(r)
      BY <3>3, <3>5, <3>6, <3>7 DEF Placed
    <3> QED BY <1>2, <3>1, <3>3, <3>8 DEF Pending
  <2>2. CASE ~((heard # {} /\ HasNext) /\ m.page < PageLimit)
    <3>1. run' = NextSection(m)
      BY <1>6, <2>2 DEF Onward
    <3> QED BY <1>4, <3>1
  <2> QED BY <2>1, <2>2
<1> QED BY <1>3a, <1>5, <1>6

LEMMA NoRunFacts == NoRun \in RunType /\ Placed(NoRun) /\ Pending(NoRun)
<1>1. NoRun.todo = <<>> /\ NoRun.stat = <<>> /\ NoRun.stat \in [{} -> Verdicts \cup {"none"}]
  BY DEF NoRun
<1>2. <<>> \in Seq(Provider) /\ {} \in SUBSET Provider
  OBVIOUS
<1>3. NoRun \in RunType
  BY <1>1, <1>2 DEF NoRun, RunType
<1>4. Placed(NoRun)
  <2>1. NoRun.section = 1 /\ NoRun.page = 1
    BY DEF NoRun
  <2> QED BY <1>1, <2>1 DEF Placed
<1>5. Pending(NoRun)
  BY <1>1 DEF Pending, ToSet
<1> QED BY <1>3, <1>4, <1>5

\* What passes the store is kept as it was sent.
LEMMA KeptAsSent ==
    ASSUME StoredAsSent, Keep
    PROVE  StoredAsSent'
<1>1. CASE UNCHANGED stored
  BY <1>1 DEF StoredAsSent
<1>2. CASE Here \in Validated /\ \E sends \in BOOLEAN :
               stored' = [stored EXCEPT ![Here] = Store(Here, sends, @)]
  <2> DEFINE h == Here
  <2>1. PICK sends \in BOOLEAN : stored' = [stored EXCEPT ![h] = Store(h, sends, stored[h])]
    BY <1>2
  <2>2. h \in Validated
    BY <1>2
  <2> HIDE DEF h
  <2>3. stored' = [u \in Validated |-> IF u = h THEN Store(h, sends, stored[h]) ELSE stored[u]]
    BY <2>1, <2>2 DEF StoredAsSent
  <2>4. Store(h, sends, stored[h]).tag = Store(h, sends, stored[h]).body
    BY <2>2 DEF Store, StoredAsSent
  <2> QED BY <2>3, <2>4 DEF StoredAsSent
<1> QED BY <1>1, <1>2 DEF Keep

LEMMA RunTaken ==
    ASSUME CrawlInv, CrawlNext
    PROVE  run' \in RunType /\ Placed(run)' /\ Pending(run)' /\ StoredAsSent' /\ site' = site
<1> USE DEF CrawlInv
<1>0. site' = site
  BY DEF CrawlNext, StartRun, Fetch, Revalidate, FailSection, SkipBare, AskAgain, Finish, Die, Midnight, LoseRecord
<1>0a. Placed(run)' <=> Placed(run')
  BY <1>0 DEF Placed, Sections
<1>0b. Pending(run)' <=> Pending(run')
  BY DEF Pending
<1>1. CASE Fetch
  <2>1. run' \in RunType /\ Placed(run') /\ Pending(run')
    BY <1>1, TakeFacts DEF Fetch
  <2>2. StoredAsSent'
    BY <1>1, KeptAsSent DEF Fetch
  <2> QED BY <1>0, <1>0a, <1>0b, <2>1, <2>2
<1>2. CASE Revalidate
  <2>1. run' \in RunType /\ Placed(run') /\ Pending(run')
    BY <1>2, TakeFacts DEF Revalidate
  <2>2. StoredAsSent'
    BY <1>2 DEF Revalidate, StoredAsSent
  <2> QED BY <1>0, <1>0a, <1>0b, <2>1, <2>2
<1>3. CASE FailSection
  <2> DEFINE p == Head(run.todo)
  <2>1. PICK error \in {"403", "other"} :
           run' = NextSection([run EXCEPT !.stat[p] = AfterError(run.stat[p], error)])
    BY <1>3 DEF FailSection
  <2> DEFINE v == AfterError(run.stat[p], error)
             m == [run EXCEPT !.stat[p] = v]
  <2>2. v \in Verdicts /\ v # "none"
    BY DEF AfterError, Verdicts
  <2> HIDE DEF v
  <2>3. /\ m \in RunType /\ Placed(m) /\ Pending(m)
        /\ m.todo = run.todo /\ m.stat[p] = v
    BY <1>3, <2>2, MarkFacts DEF FailSection
  <2>3a. run' = NextSection(m)
    BY <2>1 DEF v
  <2> HIDE DEF m
  <2>4. run.todo # <<>> /\ Sections(p) # <<>>
    BY <1>3 DEF FailSection, Walking
  <2>5. run' \in RunType /\ Placed(run') /\ Pending(run')
    BY <2>2, <2>3, <2>3a, <2>4, NextFacts
  <2>6. StoredAsSent'
    <3>1. CASE Keep
      BY <3>1, KeptAsSent
    <3>2. CASE UNCHANGED stored
      BY <3>2 DEF StoredAsSent
    <3> QED BY <1>3, <3>1, <3>2 DEF FailSection
  <2> QED BY <1>0, <1>0a, <1>0b, <2>5, <2>6
<1>4. CASE SkipBare
  <2> DEFINE p == Head(run.todo)
             m == [run EXCEPT !.stat[p] = "other"]
  <2>1. "other" \in Verdicts /\ "other" # "none" /\ run.todo # <<>>
    BY <1>4 DEF Verdicts, SkipBare, Walking
  <2>2. /\ m \in RunType /\ Placed(m) /\ Pending(m)
        /\ m.todo = run.todo /\ m.stat[p] = "other"
    BY <1>4, <2>1, MarkFacts DEF SkipBare
  <2>3. run' = NextProvider(m)
    BY <1>4 DEF SkipBare
  <2> HIDE DEF m
  <2>4. run' \in RunType /\ Placed(run') /\ Pending(run')
    BY <2>1, <2>2, <2>3, NextFacts
  <2>5. StoredAsSent'
    BY <1>4 DEF SkipBare, StoredAsSent
  <2> QED BY <1>0, <1>0a, <1>0b, <2>4, <2>5
<1>5. CASE \E selection \in (SUBSET Provider) \ {{}} : StartRun(selection)
  <2>1. PICK selection \in SUBSET Provider : StartRun(selection)
    BY <1>5
  <2> DEFINE active == {p \in selection : ~Blocked(guard[p])}
             verdicts == [p \in active |-> "none"]
  <2>2. run' = [NoRun EXCEPT !.pass = 1, !.todo = SetToSeq(active), !.stat = verdicts]
    BY <2>1 DEF StartRun
  <2>3. active \in SUBSET Provider
    OBVIOUS
  <2>4. verdicts \in [active -> Verdicts \cup {"none"}] /\ DOMAIN verdicts = active
    OBVIOUS
  <2>5. StoredAsSent'
    <3>1. PICK gone \in SUBSET Validated :
             stored' = [u \in Validated |-> IF u \in gone THEN NoPage ELSE stored[u]]
      BY <2>1 DEF StartRun
    <3> QED BY <3>1 DEF StoredAsSent, NoPage
  <2> HIDE DEF active, verdicts
  <2>6. SetToSeq(active) \in Seq(Provider) /\ ToSet(SetToSeq(active)) = active
    BY <2>3, TodoFacts
  <2>7. run' = [pass |-> 1, todo |-> SetToSeq(active), section |-> 1, page |-> 1, stat |-> verdicts]
    BY <2>2 DEF NoRun
  <2>8. run' \in RunType
    BY <2>3, <2>4, <2>6, <2>7 DEF RunType
  <2>9. Placed(run') /\ ToSet(run'.todo) = active
    BY <2>3, <2>7, <2>8, RoundFacts
  <2>10. Pending(run')
    BY <2>4, <2>7, <2>9 DEF Pending
  <2> QED BY <1>0, <1>0a, <1>0b, <2>5, <2>8, <2>9, <2>10
<1>6. CASE AskAgain
  <2> DEFINE again == Silent
             verdicts == [p \in DOMAIN run.stat |-> IF p \in Silent THEN "none" ELSE run.stat[p]]
  <2>1. run' = [run EXCEPT !.pass = run.pass + 1, !.todo = SetToSeq(again), !.stat = verdicts]
    BY <1>6 DEF AskAgain
  <2>2. /\ UNCHANGED stored /\ run.section = 1 /\ run.page = 1
        /\ run.pass + 1 \in Nat /\ ToSet(run.todo) = {}
    BY <1>6 DEF AskAgain, RunType, Placed, ToSet
  <2>3. PICK D \in SUBSET Provider : run.stat \in [D -> Verdicts \cup {"none"}]
    BY DEF RunType
  <2>4. again \in SUBSET Provider /\ again \subseteq D /\ DOMAIN run.stat = D
    BY <2>3 DEF Silent
  <2>5. verdicts \in [D -> Verdicts \cup {"none"}] /\ DOMAIN verdicts = D
    BY <2>3, <2>4
  <2>6. \A p \in D : run.stat[p] # "none"
    BY <2>2, <2>4 DEF Pending
  <2>7. \A p \in D : verdicts[p] = "none" => p \in again
    BY <2>4, <2>6
  <2> HIDE DEF again, verdicts
  <2>8. SetToSeq(again) \in Seq(Provider)
    BY <2>4, TodoFacts
  <2>9. run' = [pass |-> run.pass + 1, todo |-> SetToSeq(again), section |-> 1, page |-> 1, stat |-> verdicts]
    BY <2>1, <2>2 DEF RunType
  <2>10. run' \in RunType
    BY <2>2, <2>3, <2>5, <2>8, <2>9 DEF RunType
  <2>11. Placed(run') /\ ToSet(run'.todo) = again
    BY <2>4, <2>9, <2>10, RoundFacts
  <2>12. Pending(run')
    BY <2>4, <2>5, <2>7, <2>9, <2>11 DEF Pending
  <2>13. stored' = stored
    BY <2>2
  <2> QED BY <1>0, <1>0a, <1>0b, <2>10, <2>11, <2>12, <2>13 DEF StoredAsSent
<1>7. CASE Finish \/ Die
  <2>1. run' = NoRun /\ UNCHANGED stored
    BY <1>7 DEF Finish, Die
  <2>2. run' \in RunType /\ Placed(run') /\ Pending(run')
    BY <2>1, NoRunFacts
  <2>3. stored' = stored
    BY <2>1
  <2> QED BY <1>0, <1>0a, <1>0b, <2>2, <2>3 DEF StoredAsSent
<1>8. CASE Midnight \/ LoseRecord
  <2>1. UNCHANGED <<run, stored>>
    BY <1>8 DEF Midnight, LoseRecord
  <2> QED BY <1>0, <1>0a, <1>0b, <2>1 DEF StoredAsSent
<1> QED BY <1>1, <1>2, <1>3, <1>4, <1>5, <1>6, <1>7, <1>8, Zenon DEF CrawlNext

LEMMA CrawlInvInit == Init => CrawlInv
<1> SUFFICES ASSUME Init PROVE CrawlInv
  OBVIOUS
<1>1. run = NoRun /\ site \in Edition /\ stored = [u \in Validated |-> NoPage]
  BY DEF Init, CrawlInit
<1>2. StoredAsSent
  BY <1>1 DEF StoredAsSent, NoPage
<1>3. ~Running
  BY <1>1 DEF Running, NoRun
<1> QED BY <1>1, <1>2, <1>3, NoRunFacts DEF CrawlInv

\* A place on a site is a place on it in every edition.
LEMMA ReviseFacts ==
    ASSUME CrawlInv, Revise
    PROVE  Placed(run)' /\ site' \in Edition
<1>1. site' \in Edition /\ run' = run /\ site \in Edition
  BY DEF Revise, crawlVars, CrawlInv
<1>2. ASSUME run.todo # <<>>, Listing(Head(run.todo), site') # <<>>
      PROVE  /\ run.section \in DOMAIN Listing(Head(run.todo), site')
             /\ run.page \in DOMAIN Listing(Head(run.todo), site')[run.section].pages
  <2> DEFINE p == Head(run.todo)
             was == Listing(p, site)
             is == Listing(p, site')
  <2>1. p \in Provider
    BY <1>2 DEF CrawlInv, RunType
  <2>2. Len(is) = Len(was) /\ \A s \in DOMAIN was : Len(is[s].pages) = Len(was[s].pages)
    BY <1>1, <2>1, ListingAssumption
  <2>3. /\ Len(was) \in Nat /\ DOMAIN was = 1..Len(was) /\ (was = <<>> <=> Len(was) = 0)
        /\ \A s \in DOMAIN was : DOMAIN was[s].pages = 1..Len(was[s].pages)
    BY <1>1, <2>1, SectionFacts
  <2>4. /\ DOMAIN is = 1..Len(is) /\ (is = <<>> <=> Len(is) = 0)
        /\ \A s \in DOMAIN is : DOMAIN is[s].pages = 1..Len(is[s].pages)
    BY <1>1, <2>1, SectionFacts
  <2>5. was # <<>> => run.section \in DOMAIN was /\ run.page \in DOMAIN was[run.section].pages
    BY <1>2 DEF CrawlInv, Placed, Sections
  <2>6. is # <<>>
    BY <1>2
  <2> HIDE DEF was, is
  <2>7. run.section \in DOMAIN is /\ run.page \in DOMAIN is[run.section].pages
    BY <2>2, <2>3, <2>4, <2>5, <2>6
  <2> QED BY <2>7 DEF is
<1>3. run.todo = <<>> => run.section = 1 /\ run.page = 1
  BY DEF CrawlInv, Placed
<1> QED BY <1>1, <1>2, <1>3 DEF Placed, Sections

LEMMA CrawlInvStep == CrawlInv /\ [Next]_vars => CrawlInv'
<1> SUFFICES ASSUME CrawlInv, [Next]_vars PROVE CrawlInv'
  OBVIOUS
<1>1. CASE Crawler
  <2>1. process # "api" /\ process' = process
    BY <1>1 DEF Crawler
  <2> QED BY <1>1, <2>1, RunTaken DEF Crawler, CrawlInv
<1>2. CASE Revise
  <2>1. UNCHANGED <<run, stored, process>>
    BY <1>2 DEF Revise, crawlVars
  <2> QED BY <1>2, <2>1, ReviseFacts DEF CrawlInv, Pending, StoredAsSent, Running
<1>3. CASE Api \/ UNCHANGED vars
  <2>1. UNCHANGED <<run, stored, process>>
    BY <1>3 DEF Api, vars, crawlVars
  <2>2. UNCHANGED site
    BY <1>3 DEF Api, vars, SearchNext, AnswerLocally, AnswerFromCache, AskProviders, Gather,
                GatherNothing, TakeAnswer, TurnUakino, LapseAnswer, CrawlPage
  <2> QED BY <2>1, <2>2 DEF CrawlInv, Placed, Sections, Pending, StoredAsSent, Running
<1> QED BY <1>1, <1>2, <1>3 DEF Next

LEMMA Crawling == Spec => []CrawlInv
BY CrawlInvInit, CrawlInvStep, PTL DEF Spec

\* The page a crawl is on is listed now.
LEMMA HereIsListed ==
    ASSUME CrawlInv, Walking, Sections(Head(run.todo)) # <<>>
    PROVE  PageAt(Here, site) \subseteq ListedNow
<1> DEFINE p == Head(run.todo)
           sections == Sections(p)
           section == sections[run.section]
<1>1. p \in Provider
  BY DEF CrawlInv, RunType, Walking
<1>2. run.section \in DOMAIN sections /\ run.page \in DOMAIN section.pages
  BY DEF CrawlInv, Placed, Walking
<1>3. PageAt(Here, site) = section.pages[run.page]
  BY DEF PageAt, Here, Sections
<1>4. section \in ToSet(sections)
  BY <1>2 DEF ToSet
<1>5. section.pages[run.page] \in ToSet(section.pages)
  BY <1>2 DEF ToSet
<1>6. section \in UNION {ToSet(Sections(q)) : q \in Provider}
  BY <1>1, <1>4
<1> HIDE DEF section
<1> QED BY <1>3, <1>5, <1>6 DEF ListedNow

LEMMA TakenIsHeard ==
    ASSUME NEW heard, TakePage(heard)
    PROVE  rows' \ rows \subseteq heard
<1>1. \A items : rows' = Upsert(rows, items) => rows' \ rows \subseteq items
  BY DEF Upsert
<1> QED BY <1>1 DEF TakePage

\* What a crawl writes is what some site lists at that moment, although it may
\* have come out of the store.
THEOREM WrittenIsListed == Spec => WritesWhatIsListed
<1>1. ASSUME CrawlInv, [Next]_vars
      PROVE  [Running => rows' \ rows \subseteq ListedNow]_<<rows, site, crawlVars>>
  <2> SUFFICES ASSUME Running PROVE rows' \ rows \subseteq ListedNow
    OBVIOUS
  <2>1. CASE Crawler /\ Fetch
    <3>1. TakePage(PageAt(Here, site)) /\ Walking /\ Sections(Head(run.todo)) # <<>>
      BY <2>1 DEF Fetch
    <3> QED BY <1>1, <3>1, TakenIsHeard, HereIsListed
  <2>2. CASE Crawler /\ Revalidate
    <3>1. /\ TakePage(PageAt(Here, stored[Here].body)) /\ Walking
          /\ Sections(Head(run.todo)) # <<>> /\ NotModified(Here)
      BY <2>2 DEF Revalidate
    <3>2. stored[Here].body = site
      BY <1>1, <3>1 DEF NotModified, Conditional, CrawlInv, StoredAsSent
    <3> QED BY <1>1, <3>1, <3>2, TakenIsHeard, HereIsListed
  <2>3. process # "api"
    BY <1>1 DEF CrawlInv
  <2>4. ~(Crawler /\ (Fetch \/ Revalidate)) => rows' = rows
    <3>1. CASE UNCHANGED vars
      BY <3>1 DEF vars
    <3>2. CASE Api \/ Revise
      BY <2>3, <3>2, Zenon DEF Api, Revise
    <3>3. CASE Crawler /\ ~(Fetch \/ Revalidate)
      <4>1. \A selection : StartRun(selection) => rows' = rows
        BY DEF StartRun
      <4>2. FailSection \/ SkipBare \/ AskAgain => rows' = rows
        BY DEF FailSection, SkipBare, AskAgain
      <4>3. Finish \/ Die \/ Midnight \/ LoseRecord => rows' = rows
        BY DEF Finish, Die, Midnight, LoseRecord
      <4> QED BY <3>3, <4>1, <4>2, <4>3 DEF Crawler, CrawlNext
    <3> QED BY <1>1, <3>1, <3>2, <3>3 DEF Next
  <2> QED BY <2>1, <2>2, <2>4
<1> QED BY <1>1, Crawling, PTL DEF Spec, WritesWhatIsListed

-----------------------------------------------------------------------------
(* The record of refusals.                                                     *)

Entries == [nights: 0 .. BlockAfter, left: Nat, today: BOOLEAN]
Walks == [earlier: Seq(Verdicts), today: Verdicts \cup {"none"}]

\* The last m walks of an earlier day ended in refusals.
Refused(walks, m) ==
    /\ Len(walks) >= m
    /\ \A i \in 1 .. m : walks[Len(walks) + 1 - i] = "403"

\* The nights of an entry that earlier days account for; a stand-down needs no
\* more of them than BlockAfter - 1.
EarlierNights(e) ==
    IF e.today THEN e.nights - 1
    ELSE IF e.nights < BlockAfter THEN e.nights ELSE BlockAfter - 1

\* An entry counts what the walks were: its nights are the latest refusals, and
\* today's is one of them only if today ended in one.
Accounted(e, w) ==
    /\ e.today => e.nights >= 1 /\ w.today = "403"
    /\ ~e.today /\ w.today # "none" => e.nights = 0
    /\ Refused(w.earlier, EarlierNights(e))

GuardInv ==
    /\ guard \in [Provider -> Entries]
    /\ lately \in [Refusing -> Walks]
    /\ \A p \in Refusing : Accounted(guard[p], lately[p])

LEMMA RecordType ==
    ASSUME NEW e \in Entries, NEW v \in Verdicts
    PROVE  Record(e, v) \in Entries
<1>1. BlockAfter \in Nat /\ Cooldown \in Nat
  BY CrawlAssumption
<1>2. CASE BlockAfter = 0
  BY <1>2 DEF Record
<1>3. CASE BlockAfter # 0 /\ v = "ok"
  <2>1. Record(e, v) = Clean
    BY <1>3 DEF Record
  <2> QED BY <1>1, <2>1 DEF Clean, Entries
<1>4. CASE BlockAfter # 0 /\ v = "other"
  <2> DEFINE n == 0
  <2>1. Record(e, v) = [e EXCEPT !.nights = n, !.today = FALSE]
    BY <1>4 DEF Record
  <2>2. n \in 0 .. BlockAfter
    BY <1>1
  <2> HIDE DEF n
  <2> QED BY <2>1, <2>2 DEF Entries
<1>5. CASE BlockAfter # 0 /\ v = "403"
  <2> DEFINE n == IF e.today \/ e.nights = BlockAfter THEN e.nights ELSE e.nights + 1
             left == IF n >= BlockAfter THEN Cooldown ELSE e.left
  <2>1. Record(e, v) = [nights |-> n, today |-> TRUE, left |-> left]
    BY <1>5 DEF Record
  <2>2. n \in 0 .. BlockAfter /\ left \in Nat
    BY <1>1 DEF Entries
  <2> HIDE DEF n, left
  <2> QED BY <2>1, <2>2 DEF Entries
<1> QED BY <1>2, <1>3, <1>4, <1>5 DEF Verdicts

\* A verdict recorded is a walk of today's.
LEMMA RecordAccounted ==
    ASSUME NEW e \in Entries, NEW w \in Walks, Accounted(e, w), NEW v \in Verdicts
    PROVE  /\ Accounted(Record(e, v), [w EXCEPT !.today = v])
           /\ Record(e, v).left > e.left => v = "403" /\ Refused(w.earlier, BlockAfter - 1)
<1>1. BlockAfter \in Nat /\ Cooldown \in Nat /\ e.left \in Nat /\ e.nights \in 0 .. BlockAfter
  BY CrawlAssumption DEF Entries
<1>2. Len(w.earlier) \in Nat
  BY DEF Walks
<1> DEFINE x == [w EXCEPT !.today = v]
<1>3. x.today = v /\ x.earlier = w.earlier
  BY DEF Walks
<1> HIDE DEF x
<1>4. CASE BlockAfter = 0
  <2>1. Record(e, v) = e /\ e.nights = 0
    BY <1>1, <1>4 DEF Record
  <2>2. ~e.today
    BY <1>1, <2>1 DEF Accounted
  <2>3. Refused(w.earlier, EarlierNights(e))
    BY DEF Accounted
  <2> QED BY <1>1, <1>3, <2>1, <2>2, <2>3 DEF Accounted, x
<1>5. CASE BlockAfter # 0 /\ v = "ok"
  <2>1. Record(e, v) = Clean
    BY <1>5 DEF Record
  <2>2. Refused(w.earlier, 0)
    BY <1>2 DEF Refused
  <2>3. EarlierNights(Clean) = 0
    BY <1>1, <1>5 DEF EarlierNights, Clean
  <2> QED BY <1>1, <1>3, <2>1, <2>2, <2>3 DEF Accounted, Clean, x
<1>6. CASE BlockAfter # 0 /\ v = "other"
  <2> DEFINE f == Record(e, v)
  <2>1. f = [e EXCEPT !.nights = 0, !.today = FALSE]
    BY <1>6 DEF Record
  <2>2. f.nights = 0 /\ ~f.today /\ f.left = e.left
    BY <2>1 DEF Entries
  <2> HIDE DEF f
  <2>3. Refused(w.earlier, 0)
    BY <1>2 DEF Refused
  <2>4. EarlierNights(f) = 0
    BY <1>1, <1>6, <2>2 DEF EarlierNights
  <2>5. Accounted(f, x)
    BY <1>3, <2>2, <2>3, <2>4 DEF Accounted
  <2>6. ~(f.left > e.left)
    BY <1>1, <2>2
  <2> QED BY <2>5, <2>6 DEF f, x
<1>7. CASE BlockAfter # 0 /\ v = "403"
  <2> DEFINE n == IF e.today \/ e.nights = BlockAfter THEN e.nights ELSE e.nights + 1
             left == IF n >= BlockAfter THEN Cooldown ELSE e.left
             f == Record(e, v)
  <2>1. f = [nights |-> n, today |-> TRUE, left |-> left]
    BY <1>7 DEF Record
  <2>2. f.nights = n /\ f.today /\ f.left = left
    BY <2>1
  <2>3. EarlierNights(f) = EarlierNights(e) /\ n >= 1
    <3>1. CASE e.today
      <4>1. e.nights >= 1 /\ n = e.nights
        BY <3>1 DEF Accounted
      <4> QED BY <2>2, <3>1, <4>1 DEF EarlierNights
    <3>2. CASE ~e.today /\ e.nights = BlockAfter
      BY <1>1, <1>7, <2>2, <3>2 DEF EarlierNights
    <3>3. CASE ~e.today /\ e.nights # BlockAfter
      <4>1. n = e.nights + 1 /\ e.nights < BlockAfter
        BY <1>1, <3>3
      <4> QED BY <1>1, <2>2, <3>3, <4>1 DEF EarlierNights
    <3> QED BY <3>1, <3>2, <3>3
  <2> HIDE DEF f
  <2>4. Accounted(f, x)
    BY <1>3, <1>7, <2>2, <2>3 DEF Accounted
  <2>5. ASSUME f.left > e.left
        PROVE  Refused(w.earlier, BlockAfter - 1)
    <3>1. n >= BlockAfter
      BY <1>1, <2>2, <2>5
    <3>2. EarlierNights(e) = BlockAfter - 1
      <4>1. CASE e.today
        BY <1>1, <3>1, <4>1 DEF EarlierNights
      <4>2. CASE ~e.today
        BY <1>1, <3>1, <4>2 DEF EarlierNights
      <4> QED BY <4>1, <4>2
    <3> QED BY <3>2 DEF Accounted
  <2> QED BY <1>7, <2>4, <2>5 DEF f, x
<1> QED BY <1>4, <1>5, <1>6, <1>7 DEF Verdicts, x

\* What midnight makes of an entry and of the walks.
NextDay(e) == [e EXCEPT !.left = IF @ > 0 THEN @ - 1 ELSE 0, !.today = FALSE]
NextWalks(w) ==
    IF w.today = "none" THEN w
    ELSE LET days == Append(w.earlier, w.today)
         IN  [today |-> "none", earlier |-> IF Len(days) < BlockAfter THEN days ELSE Tail(days)]

\* A day that joins the earlier ones takes its refusal with it, and a walk that
\* is forgotten is one too many to matter.
LEMMA AgeRefused ==
    ASSUME NEW q \in Seq(Verdicts), NEW v \in Verdicts, NEW m \in Int,
           Refused(q, m - 1), m >= 1 => v = "403"
    PROVE  LET days == Append(q, v)
               kept == IF Len(days) < BlockAfter THEN days ELSE Tail(days)
           IN  /\ kept \in Seq(Verdicts)
               /\ Refused(days, m)
               /\ m <= BlockAfter - 1 => Refused(kept, m)
               /\ m = BlockAfter => Refused(kept, m - 1)
<1> DEFINE days == Append(q, v)
           kept == IF Len(days) < BlockAfter THEN days ELSE Tail(days)
           L == Len(q)
<1>1. L \in Nat /\ BlockAfter \in Nat
  BY CrawlAssumption
<1>2. /\ days \in Seq(Verdicts) /\ Len(days) = L + 1 /\ days[L + 1] = v
      /\ \A i \in 1 .. L : days[i] = q[i]
  BY DEF L
<1>3. Tail(days) \in Seq(Verdicts) /\ Len(Tail(days)) = L /\ \A i \in 1 .. L : Tail(days)[i] = days[i + 1]
  BY <1>1, <1>2, HeadTailProperties
<1>4. L >= m - 1 /\ \A i \in 1 .. (m - 1) : q[L + 1 - i] = "403"
  BY DEF Refused
<1> HIDE DEF days, L
<1>5. ASSUME NEW i \in 1 .. m
      PROVE  days[L + 2 - i] = "403" /\ L + 2 - i \in 1 .. (L + 1)
  <2>1. CASE i = 1
    BY <1>1, <1>2, <1>4, <2>1
  <2>2. CASE i # 1
    <3>1. i - 1 \in 1 .. (m - 1) /\ L + 1 - (i - 1) = L + 2 - i /\ L + 2 - i \in 1 .. L
      BY <1>1, <1>4, <2>2
    <3>2. q[L + 1 - (i - 1)] = "403"
      BY <1>4, <3>1
    <3>3. days[L + 2 - i] = q[L + 2 - i]
      BY <1>2, <3>1
    <3>4. L + 2 - i \in 1 .. (L + 1)
      BY <1>1, <3>1
    <3> QED BY <3>1, <3>2, <3>3, <3>4
  <2> QED BY <2>1, <2>2
<1>6. Refused(days, m)
  BY <1>1, <1>2, <1>4, <1>5 DEF Refused
<1>7. ASSUME NEW k \in Int, k <= m, k <= L
      PROVE  Refused(Tail(days), k)
  <2>1. ASSUME NEW i \in 1 .. k
        PROVE  Tail(days)[L + 1 - i] = "403"
    <3>1. i \in 1 .. m /\ L + 1 - i \in 1 .. L /\ (L + 1 - i) + 1 = L + 2 - i
      BY <1>1, <1>7
    <3> QED BY <1>3, <1>5, <3>1
  <2> QED BY <1>3, <1>7, <2>1 DEF Refused
<1>8. ASSUME NEW k \in Int, k <= m, k <= BlockAfter - 1
      PROVE  Refused(kept, k)
  <2>1. CASE Len(days) < BlockAfter
    <3>1. kept = days
      BY <2>1
    <3>2. Refused(days, k)
      BY <1>6, <1>8 DEF Refused
    <3> QED BY <3>1, <3>2
  <2>2. CASE ~(Len(days) < BlockAfter)
    <3>1. kept = Tail(days)
      BY <2>2
    <3>2. k <= L
      BY <1>1, <1>2, <1>8, <2>2
    <3> QED BY <1>7, <1>8, <3>1, <3>2
  <2> QED BY <2>1, <2>2
<1>9. kept \in Seq(Verdicts)
  BY <1>2, <1>3
<1> HIDE DEF kept
<1>10. m <= BlockAfter - 1 => Refused(kept, m)
  BY <1>8
<1>11. m = BlockAfter => Refused(kept, m - 1)
  BY <1>1, <1>8
<1> QED BY <1>6, <1>9, <1>10, <1>11 DEF days, kept

LEMMA NextDayType ==
    ASSUME NEW e \in Entries
    PROVE  NextDay(e) \in Entries
<1> DEFINE n == IF e.left > 0 THEN e.left - 1 ELSE 0
<1>1. n \in Nat
  BY DEF Entries
<1>2. NextDay(e) = [e EXCEPT !.left = n, !.today = FALSE]
  BY DEF NextDay
<1> HIDE DEF n
<1> QED BY <1>1, <1>2 DEF Entries

LEMMA MidnightAccounted ==
    ASSUME NEW e \in Entries, NEW w \in Walks, Accounted(e, w)
    PROVE  /\ NextDay(e) \in Entries /\ NextWalks(w) \in Walks
           /\ Accounted(NextDay(e), NextWalks(w))
           /\ ~(NextDay(e).left > e.left)
<1>1. BlockAfter \in Nat /\ e.left \in Nat /\ e.nights \in 0 .. BlockAfter
  BY CrawlAssumption DEF Entries
<1> DEFINE f == NextDay(e)
           x == NextWalks(w)
<1>2. f.nights = e.nights /\ ~f.today /\ f.left = (IF e.left > 0 THEN e.left - 1 ELSE 0)
  BY DEF NextDay, Entries
<1>3. f \in Entries
  BY NextDayType
<1>4. ~(f.left > e.left)
  BY <1>1, <1>2
<1> HIDE DEF f
<1>5. CASE w.today = "none"
  <2>1. x = w
    BY <1>5 DEF NextWalks
  <2>2. ~e.today
    BY <1>5 DEF Accounted
  <2>3. EarlierNights(f) = EarlierNights(e)
    BY <1>2, <2>2 DEF EarlierNights
  <2> QED BY <1>2, <1>3, <1>4, <1>5, <2>1, <2>3 DEF Accounted, f
<1>6. CASE w.today # "none"
  <2> DEFINE days == Append(w.earlier, w.today)
             kept == IF Len(days) < BlockAfter THEN days ELSE Tail(days)
  <2>1. x = [today |-> "none", earlier |-> kept]
    BY <1>6 DEF NextWalks
  <2>2. w.earlier \in Seq(Verdicts) /\ w.today \in Verdicts
    BY <1>6 DEF Walks
  <2>3. CASE e.today
    <3> DEFINE m == e.nights
    <3>1. m \in Int /\ Refused(w.earlier, m - 1) /\ w.today = "403" /\ m <= BlockAfter
      BY <1>1, <2>3 DEF Accounted, EarlierNights
    <3>2. /\ kept \in Seq(Verdicts)
          /\ m <= BlockAfter - 1 => Refused(kept, m)
          /\ m = BlockAfter => Refused(kept, m - 1)
      BY <2>2, <3>1, AgeRefused
    <3> HIDE DEF kept
    <3>3. EarlierNights(f) = IF m < BlockAfter THEN m ELSE m - 1
      BY <1>1, <1>2, <3>1 DEF EarlierNights
    <3>4. Refused(kept, EarlierNights(f))
      BY <1>1, <3>1, <3>2, <3>3
    <3> QED BY <1>2, <1>3, <1>4, <2>1, <3>2, <3>4 DEF Accounted, Walks, f
  <2>4. CASE ~e.today
    <3>1. e.nights = 0
      BY <1>6, <2>4 DEF Accounted
    <3>2. Refused(w.earlier, 0 - 1)
      BY <2>2 DEF Refused
    <3>3. /\ kept \in Seq(Verdicts)
          /\ 0 <= BlockAfter - 1 => Refused(kept, 0)
          /\ 0 = BlockAfter => Refused(kept, 0 - 1)
      BY <2>2, <3>2, AgeRefused
    <3> HIDE DEF kept
    <3>4. EarlierNights(f) = IF 0 < BlockAfter THEN 0 ELSE 0 - 1
      BY <1>1, <1>2, <3>1 DEF EarlierNights
    <3>5. Refused(kept, EarlierNights(f))
      BY <1>1, <3>3, <3>4
    <3> QED BY <1>2, <1>3, <1>4, <2>1, <3>1, <3>3, <3>5 DEF Accounted, Walks, f
  <2> QED BY <2>3, <2>4
<1> QED BY <1>5, <1>6

LEMMA GuardInit == Init => GuardInv
<1> SUFFICES ASSUME Init PROVE GuardInv
  OBVIOUS
<1>1. guard = [p \in Provider |-> Clean] /\ lately = [p \in Refusing |-> Unwalked]
  BY DEF Init, CrawlInit
<1>2. BlockAfter \in Nat /\ Refusing \subseteq Provider
  BY CrawlAssumption
<1>3. Clean \in Entries /\ Unwalked \in Walks
  BY <1>2 DEF Clean, Entries, Unwalked, Walks
<1>4. Accounted(Clean, Unwalked)
  <2>1. EarlierNights(Clean) \in Int /\ EarlierNights(Clean) <= 0
    BY <1>2 DEF EarlierNights, Clean
  <2>2. Unwalked.earlier = <<>> /\ Unwalked.today = "none"
    BY DEF Unwalked
  <2>3. Refused(<<>>, EarlierNights(Clean))
    BY <2>1 DEF Refused
  <2> QED BY <2>2, <2>3 DEF Accounted, Clean
<1> QED BY <1>1, <1>2, <1>3, <1>4 DEF GuardInv

\* A provider that starts clean again is accounted for whatever its walks were.
LEMMA CleanAccounted ==
    ASSUME NEW w \in Walks
    PROVE  Clean \in Entries /\ Accounted(Clean, w)
<1>1. BlockAfter \in Nat /\ Len(w.earlier) \in Nat
  BY CrawlAssumption DEF Walks
<1>2. Clean \in Entries
  BY <1>1 DEF Clean, Entries
<1>3. EarlierNights(Clean) \in Int /\ EarlierNights(Clean) <= 0
  BY <1>1 DEF EarlierNights, Clean
<1>4. Refused(w.earlier, EarlierNights(Clean))
  BY <1>1, <1>3 DEF Refused
<1> QED BY <1>2, <1>4 DEF Accounted, Clean

\* At the end of a run every provider that was asked has a verdict.
LEMMA FinishedVerdicts ==
    ASSUME CrawlInv, Running, run.todo = <<>>, NEW p \in DOMAIN run.stat
    PROVE  p \in Provider /\ run.stat[p] \in Verdicts
<1>1. PICK D \in SUBSET Provider : run.stat \in [D -> Verdicts \cup {"none"}]
  BY DEF CrawlInv, RunType
<1>2. p \in D /\ run.stat[p] \in Verdicts \cup {"none"}
  BY <1>1
<1>3. run.stat[p] # "none"
  BY DEF CrawlInv, Pending, ToSet
<1> QED BY <1>2, <1>3

\* A night that ends in verdicts.
LEMMA FinishGuard ==
    ASSUME CrawlInv, GuardInv, Finish
    PROVE  /\ GuardInv'
           /\ \A p \in Refusing : guard'[p].left > guard[p].left =>
                 lately'[p].today = "403" /\ Refused(lately[p].earlier, BlockAfter - 1)
<1>1. Refusing \subseteq Provider
  BY CrawlAssumption
<1> DEFINE G(p) == IF p \in DOMAIN run.stat THEN Record(guard[p], run.stat[p]) ELSE guard[p]
           W(p) == IF p \in DOMAIN run.stat THEN [lately[p] EXCEPT !.today = run.stat[p]] ELSE lately[p]
<1>2. guard' = [p \in Provider |-> G(p)] /\ lately' = [p \in Refusing |-> W(p)]
  BY DEF Finish
<1>3. \A p \in DOMAIN run.stat : p \in Provider /\ run.stat[p] \in Verdicts
  BY FinishedVerdicts DEF Finish
<1>4. ASSUME NEW p \in Provider
      PROVE  G(p) \in Entries
  <2>1. guard[p] \in Entries
    BY DEF GuardInv
  <2> QED BY <1>3, <2>1, RecordType
<1>5. ASSUME NEW p \in Refusing
      PROVE  /\ W(p) \in Walks /\ Accounted(G(p), W(p))
             /\ G(p).left > guard[p].left =>
                   W(p).today = "403" /\ Refused(lately[p].earlier, BlockAfter - 1)
  <2>1. guard[p] \in Entries /\ lately[p] \in Walks /\ Accounted(guard[p], lately[p])
    BY <1>1 DEF GuardInv
  <2>2. CASE p \in DOMAIN run.stat
    <3> DEFINE v == run.stat[p]
    <3>1. v \in Verdicts
      BY <1>3, <2>2
    <3>2. W(p) = [lately[p] EXCEPT !.today = v] /\ G(p) = Record(guard[p], v)
      BY <2>2
    <3> HIDE DEF v, G, W
    <3>3. W(p) \in Walks /\ W(p).today = v
      BY <2>1, <3>1, <3>2 DEF Walks
    <3> QED BY <2>1, <3>1, <3>2, <3>3, RecordAccounted
  <2>3. CASE p \notin DOMAIN run.stat
    <3>1. W(p) = lately[p] /\ G(p) = guard[p]
      BY <2>3
    <3>2. guard[p].left \in Nat
      BY <2>1 DEF Entries
    <3> HIDE DEF G, W
    <3> QED BY <2>1, <3>1, <3>2
  <2> QED BY <2>2, <2>3
<1> HIDE DEF G, W
<1>6. \A p \in Refusing : guard'[p] = G(p) /\ lately'[p] = W(p)
  BY <1>1, <1>2
<1>7. guard' \in [Provider -> Entries] /\ lately' \in [Refusing -> Walks]
  BY <1>2, <1>4, <1>5
<1>8. GuardInv'
  BY <1>5, <1>6, <1>7 DEF GuardInv
<1> QED BY <1>5, <1>6, <1>8

\* A day that passes.
LEMMA MidnightGuard ==
    ASSUME GuardInv, Midnight
    PROVE  /\ GuardInv'
           /\ \A p \in Refusing : ~(guard'[p].left > guard[p].left)
<1>1. Refusing \subseteq Provider
  BY CrawlAssumption
<1>2. guard' = [p \in Provider |-> NextDay(guard[p])]
  BY DEF Midnight, NextDay
<1>3. lately' = [p \in Refusing |-> NextWalks(lately[p])]
  BY DEF Midnight, NextWalks
<1>4. \A p \in Provider : NextDay(guard[p]) \in Entries
  BY NextDayType DEF GuardInv
<1>5. ASSUME NEW p \in Refusing
      PROVE  /\ NextWalks(lately[p]) \in Walks
             /\ Accounted(NextDay(guard[p]), NextWalks(lately[p]))
             /\ ~(NextDay(guard[p]).left > guard[p].left)
  BY <1>1, MidnightAccounted DEF GuardInv
<1>6. \A p \in Refusing : guard'[p] = NextDay(guard[p]) /\ lately'[p] = NextWalks(lately[p])
  BY <1>1, <1>2, <1>3
<1>7. guard' \in [Provider -> Entries] /\ lately' \in [Refusing -> Walks]
  BY <1>2, <1>3, <1>4, <1>5
<1>8. GuardInv'
  BY <1>5, <1>6, <1>7 DEF GuardInv
<1> QED BY <1>5, <1>6, <1>8

LEMMA LoseGuard ==
    ASSUME GuardInv, LoseRecord
    PROVE  /\ GuardInv'
           /\ \A p \in Refusing : ~(guard'[p].left > guard[p].left)
<1>1. Refusing \subseteq Provider
  BY CrawlAssumption
<1>2. guard' = [p \in Provider |-> Clean] /\ lately' = lately
  BY DEF LoseRecord
<1>3. \A p \in Refusing : /\ guard[p] \in Entries /\ lately[p] \in Walks
                           /\ Clean \in Entries /\ Accounted(Clean, lately[p])
  BY <1>1, CleanAccounted DEF GuardInv
<1>4. Clean \in Entries
  BY CrawlAssumption DEF Clean, Entries
<1>5. guard' \in [Provider -> Entries]
  BY <1>2, <1>4
<1>6. GuardInv'
  BY <1>1, <1>2, <1>3, <1>5 DEF GuardInv
<1>7. \A p \in Refusing : guard'[p].left = 0 /\ guard[p].left \in Nat
  BY <1>1, <1>2, <1>3 DEF Clean, Entries
<1> QED BY <1>6, <1>7

LEMMA GuardStep ==
    ASSUME CrawlInv, GuardInv, [Next]_vars
    PROVE  /\ GuardInv'
           /\ \A p \in Refusing : guard'[p].left > guard[p].left =>
                 lately'[p].today = "403" /\ Refused(lately[p].earlier, BlockAfter - 1)
<1>1. CASE Crawler /\ Finish
  BY <1>1, FinishGuard
<1>2. CASE Crawler /\ Midnight
  BY <1>2, MidnightGuard
<1>3. CASE Crawler /\ LoseRecord
  BY <1>3, LoseGuard
<1>4. CASE ~(Crawler /\ (Finish \/ Midnight \/ LoseRecord))
  <2>1. UNCHANGED <<guard, lately>>
    BY <1>4 DEF Next, Api, Revise, vars, crawlVars, Crawler, CrawlNext, StartRun, Fetch, Revalidate,
                FailSection, SkipBare, AskAgain, Die
  <2>2. \A p \in Refusing : guard[p].left \in Nat
    BY CrawlAssumption DEF GuardInv, Entries
  <2> QED BY <2>1, <2>2 DEF GuardInv
<1> QED BY <1>1, <1>2, <1>3, <1>4

\* A provider is stood down only for the refusals of as many days as it takes,
\* today's among them.
THEOREM StandDownEarned == Spec => BlockIsEarned
<1>1. ASSUME CrawlInv, GuardInv, [Next]_vars
      PROVE  GuardInv'
  BY <1>1, GuardStep
<1>2. ASSUME CrawlInv, GuardInv, [Next]_vars
      PROVE  [\A p \in Refusing : guard'[p].left > guard[p].left =>
                /\ lately'[p].today = "403"
                /\ Len(lately[p].earlier) >= BlockAfter - 1
                /\ \A i \in 1 .. BlockAfter - 1 :
                      lately[p].earlier[Len(lately[p].earlier) + 1 - i] = "403"]_<<rows, site, crawlVars>>
  BY <1>2, GuardStep DEF Refused
<1> QED BY <1>1, <1>2, GuardInit, Crawling, PTL DEF Spec, BlockIsEarned

-----------------------------------------------------------------------------
(* The merge.                                                                  *)

\* A set of numbers has a least one.
LEMMA LeastFacts ==
    ASSUME NEW S \in SUBSET Nat, S # {}
    PROVE  Least(S) \in S /\ \A y \in S : Least(S) <= y
<1>1. PICK x \in S : \A y \in S : ~(<<y, x>> \in OpToRel(<, Nat))
  BY NatLessThanWellFounded, WFMin, Zenon
<1>2. \A y \in S : ~(y < x)
  BY <1>1 DEF OpToRel
<1>3. \A y \in S : x <= y
  BY <1>2
<1> QED BY <1>3 DEF Least

Partitions(blocks, S) ==
    /\ UNION blocks = S
    /\ {} \notin blocks
    /\ \A a, b \in blocks : a \cap b # {} => a = b

\* A set that takes a whole in where it touches it.
Absorbs(T, join) == join \cap T # {} => join \subseteq T

\* A union keeps the blocks a partition, puts what it unites into one block,
\* breaks none apart, and joins nothing that a set absorbing them all tells apart.
LEMMA UnionFacts ==
    ASSUME NEW S, NEW blocks, Partitions(blocks, S), NEW join \in SUBSET S, join # {}
    PROVE  LET united == Union(blocks, join)
           IN  /\ Partitions(united, S)
               /\ \E u \in united : join \subseteq u
               /\ \A b \in blocks : \E u \in united : b \subseteq u
               /\ \A T : (\A b \in blocks : Absorbs(T, b)) /\ Absorbs(T, join)
                            => \A u \in united : Absorbs(T, u)
<1> DEFINE touched == {b \in blocks : b \cap join # {}}
           whole == UNION touched
           united == Union(blocks, join)
<1>1. united = (blocks \ touched) \cup {whole}
  BY DEF Union
<1>2. join \subseteq whole
  BY DEF Partitions
<1>3. \A b \in blocks : b \in touched => b \subseteq whole
  OBVIOUS
<1>4. \A b \in blocks \ touched : b \cap whole = {}
  BY DEF Partitions
<1>5. UNION united = S
  <2>1. ASSUME NEW u \in united PROVE u \subseteq S
    <3>1. whole \subseteq S
      BY DEF Partitions
    <3>2. CASE u \in blocks
      BY <3>2 DEF Partitions
    <3> QED BY <1>1, <3>1, <3>2
  <2>2. ASSUME NEW x \in S PROVE \E u \in united : x \in u
    <3>1. PICK b \in blocks : x \in b
      BY DEF Partitions
    <3>2. b \in touched \/ b \in united
      BY <1>1
    <3> QED BY <1>1, <1>3, <3>1, <3>2
  <2> HIDE DEF united
  <2> QED BY <2>1, <2>2
<1>6. {} \notin united
  BY <1>1, <1>2 DEF Partitions
<1> HIDE DEF whole
<1>7. \A a, b \in united : a \cap b # {} => a = b
  <2> SUFFICES ASSUME NEW a \in united, NEW b \in united, a \cap b # {} PROVE a = b
    OBVIOUS
  <2>1. CASE a \in blocks \ touched /\ b \in blocks \ touched
    BY <2>1 DEF Partitions
  <2>2. CASE a = whole \/ b = whole
    <3>1. ~(a \in blocks \ touched) /\ ~(b \in blocks \ touched)
      BY <1>4, <2>2
    <3> QED BY <1>1, <3>1
  <2> QED BY <1>1, <2>1, <2>2
<1>8. ASSUME NEW T, \A b \in blocks : Absorbs(T, b), Absorbs(T, join), NEW u \in united
      PROVE  Absorbs(T, u)
  <2>1. CASE u \in blocks
    BY <1>8, <2>1
  <2>2. CASE u = whole
    <3>1. ASSUME NEW x \in whole, x \in T PROVE whole \subseteq T
      <4>1. PICK b \in touched : x \in b
        BY <3>1 DEF whole
      <4>2. b \subseteq T
        BY <1>8, <3>1, <4>1 DEF Absorbs
      <4>3. join \subseteq T
        BY <1>8, <4>1, <4>2 DEF Absorbs
      <4>4. \A c \in touched : c \subseteq T
        BY <1>8, <4>3 DEF Absorbs
      <4> QED BY <4>4 DEF whole
    <3> QED BY <2>2, <3>1 DEF Absorbs
  <2> QED BY <1>1, <2>1, <2>2
<1>9. Partitions(united, S)
  BY <1>5, <1>6, <1>7 DEF Partitions
<1>10. \A b \in blocks : \E u \in united : b \subseteq u
  BY <1>1, <1>3
<1>11. \E u \in united : join \subseteq u
  BY <1>1, <1>2
<1> HIDE DEF united
<1>12. \A T : (\A b \in blocks : Absorbs(T, b)) /\ Absorbs(T, join) => \A u \in united : Absorbs(T, u)
  BY <1>8
<1> QED BY <1>9, <1>10, <1>11, <1>12 DEF united

\* The unions up to each step, as United computes them.
Unions(n, blocks, joins, u) ==
    u = [i \in 0 .. n |-> IF i = 0 THEN blocks ELSE Union(u[i - 1], joins[i])]

\* What a row of steps computes, each from what the one before left, exists.
LEMMA StepsExist ==
    ASSUME NEW D, NEW first \in D, NEW n \in Nat, NEW step \in [1 .. n -> [D -> D]]
    PROVE  \E u \in [0 .. n -> D] : u[0] = first /\ \A i \in 1 .. n : u[i] = step[i][u[i - 1]]
<1> DEFINE Good(m, u) == u \in [0 .. m -> D] /\ u[0] = first /\ \A i \in 1 .. m : u[i] = step[i][u[i - 1]]
           S == {m \in 0 .. n : ~\E u : Good(m, u)}
<1>1. ASSUME S # {} PROVE FALSE
  <2> DEFINE m == Least(S)
  <2>1. m \in S /\ \A y \in S : m <= y
    <3>1. S \in SUBSET Nat
      OBVIOUS
    <3> HIDE DEF S
    <3> QED BY <1>1, <3>1, LeastFacts
  <2> HIDE DEF m
  <2>2. m # 0
    <3>1. Good(0, [i \in 0 .. 0 |-> first])
      OBVIOUS
    <3> QED BY <2>1, <3>1
  <2>3. m \in 1 .. n /\ m - 1 \in 0 .. n /\ ~(m <= m - 1)
    BY <2>1, <2>2
  <2>4. PICK v : Good(m - 1, v)
    BY <2>1, <2>3
  <2> DEFINE u == [i \in 0 .. m |-> IF i = m THEN step[m][v[m - 1]] ELSE v[i]]
  <2>5. m - 1 \in 0 .. m - 1 /\ v[m - 1] \in D
    BY <2>3, <2>4
  <2>6. step[m][v[m - 1]] \in D
    BY <2>3, <2>5
  <2>7. ASSUME NEW i \in 0 .. m, i # m PROVE i \in 0 .. m - 1 /\ u[i] = v[i] /\ u[i] \in D
    BY <2>3, <2>4, <2>7
  <2>8. u[m] = step[m][v[m - 1]] /\ u[m - 1] = v[m - 1] /\ u[0] = first
    BY <2>3, <2>4
  <2>9. u \in [0 .. m -> D]
    BY <2>3, <2>6, <2>7
  <2>10. ASSUME NEW i \in 1 .. m PROVE u[i] = step[i][u[i - 1]]
    <3>1. CASE i = m
      BY <2>8, <3>1
    <3>2. CASE i # m
      <4>1. i \in 1 .. m - 1 /\ i \in 0 .. m /\ i - 1 \in 0 .. m /\ i - 1 # m
        BY <2>3, <3>2
      <4>2. u[i] = v[i] /\ u[i - 1] = v[i - 1]
        BY <2>7, <3>2, <4>1
      <4> QED BY <2>4, <4>1, <4>2
    <3> QED BY <3>1, <3>2
  <2> HIDE DEF u
  <2>11. Good(m, u)
    BY <2>8, <2>9, <2>10
  <2> QED BY <2>1, <2>11
<1>2. n \in 0 .. n
  OBVIOUS
<1> QED BY <1>1, <1>2

LEMMA UnionsExist ==
    ASSUME NEW S, NEW blocks \in SUBSET SUBSET S, NEW joins
    PROVE  \A n \in Nat : \E u : Unions(n, blocks, joins, u)
<1> SUFFICES ASSUME NEW n \in Nat PROVE \E u : Unions(n, blocks, joins, u)
  OBVIOUS
<1> DEFINE D == SUBSET SUBSET S
           step == [i \in 1 .. n |-> [b \in D |-> Union(b, joins[i])]]
<1>1. \A b \in D : \A i \in 1 .. n : Union(b, joins[i]) \in D
  BY DEF Union
<1>b. blocks \in D
  OBVIOUS
<1> HIDE DEF D
<1>2. step \in [1 .. n -> [D -> D]]
  BY <1>1
<1>3. \A b \in D : \A i \in 1 .. n : step[i][b] = Union(b, joins[i])
  OBVIOUS
<1> HIDE DEF step
<1>4. PICK u \in [0 .. n -> D] : u[0] = blocks /\ \A i \in 1 .. n : u[i] = step[i][u[i - 1]]
  BY <1>b, <1>2, StepsExist
<1>5. ASSUME NEW i \in 0 .. n PROVE u[i] = IF i = 0 THEN blocks ELSE Union(u[i - 1], joins[i])
  <2>1. CASE i = 0
    BY <1>4, <2>1
  <2>2. CASE i # 0
    <3>1. i \in 1 .. n /\ i - 1 \in 0 .. n
      BY <2>2
    <3>2. u[i - 1] \in D
      BY <1>4, <3>1
    <3> QED BY <1>3, <1>4, <2>2, <3>1, <3>2
  <2> QED BY <2>1, <2>2
<1>6. u = [i \in 0 .. n |-> u[i]]
  BY <1>4
<1> QED BY <1>5, <1>6 DEF Unions

LEMMA UnitedFacts ==
    ASSUME NEW S, NEW blocks, Partitions(blocks, S), NEW joins \in Seq((SUBSET S) \ {{}})
    PROVE  LET united == United(blocks, joins)
           IN  /\ Partitions(united, S)
               /\ \A i \in 1 .. Len(joins) : \E u \in united : joins[i] \subseteq u
               /\ \A b \in blocks : \E u \in united : b \subseteq u
               /\ \A T : (\A b \in blocks : Absorbs(T, b)) /\ (\A i \in 1 .. Len(joins) : Absorbs(T, joins[i]))
                            => \A u \in united : Absorbs(T, u)
<1> DEFINE n == Len(joins)
<1>1. PICK u : Unions(n, blocks, joins, u) /\ United(blocks, joins) = u[n]
  <2> DEFINE v == CHOOSE v : Unions(n, blocks, joins, v)
  <2>1. Unions(n, blocks, joins, v)
    <3>1. blocks \in SUBSET SUBSET S /\ n \in Nat
      BY DEF Partitions
    <3>2. \E w : Unions(n, blocks, joins, w)
      BY <3>1, UnionsExist
    <3> QED BY <3>2
  <2>2. United(blocks, joins) = v[n]
    BY DEF United, Unions
  <2> HIDE DEF v
  <2> QED BY <2>1, <2>2
<1>2. n \in Nat /\ \A i \in 1 .. n : joins[i] \in SUBSET S /\ joins[i] # {}
  OBVIOUS
<1> DEFINE Known(i) ==
             /\ Partitions(u[i], S)
             /\ \A j \in 1 .. i : \E b \in u[i] : joins[j] \subseteq b
             /\ \A b \in blocks : \E c \in u[i] : b \subseteq c
             /\ \A T : (\A b \in blocks : Absorbs(T, b)) /\ (\A j \in 1 .. n : Absorbs(T, joins[j]))
                          => \A b \in u[i] : Absorbs(T, b)
           Fail == {i \in 0 .. n : ~Known(i)}
<1>3. u[0] = blocks /\ \A i \in 1 .. n : u[i] = Union(u[i - 1], joins[i])
  <2>1. u[0] = blocks
    BY <1>1, <1>2 DEF Unions
  <2>2. \A i \in 1 .. n : i \in 0 .. n /\ i # 0
    BY <1>2
  <2> HIDE DEF n
  <2> QED BY <1>1, <2>1, <2>2 DEF Unions
<1> HIDE DEF n
<1>4. ASSUME Fail # {} PROVE FALSE
  <2> DEFINE m == Least(Fail)
  <2>1. m \in Fail /\ \A y \in Fail : m <= y
    <3>1. Fail \in SUBSET Nat
      BY <1>2
    <3> HIDE DEF Fail
    <3> QED BY <1>4, <3>1, LeastFacts
  <2> HIDE DEF m
  <2>2. m # 0
    <3>1. Known(0)
      BY <1>3
    <3> QED BY <2>1, <3>1
  <2>3. m \in 1 .. n /\ m - 1 \in 0 .. n /\ ~(m <= m - 1)
    BY <1>2, <2>1, <2>2
  <2>4. Known(m - 1)
    BY <2>1, <2>3
  <2>5. u[m] = Union(u[m - 1], joins[m]) /\ joins[m] \in SUBSET S /\ joins[m] # {}
    BY <1>2, <1>3, <2>3
  <2>6. /\ Partitions(u[m], S)
        /\ \E b \in u[m] : joins[m] \subseteq b
        /\ \A b \in u[m - 1] : \E c \in u[m] : b \subseteq c
        /\ \A T : (\A b \in u[m - 1] : Absorbs(T, b)) /\ Absorbs(T, joins[m]) => \A b \in u[m] : Absorbs(T, b)
    BY <2>4, <2>5, UnionFacts
  <2>7. ASSUME NEW j \in 1 .. m PROVE \E b \in u[m] : joins[j] \subseteq b
    <3>1. j = m \/ j \in 1 .. m - 1
      BY <2>3
    <3>2. CASE j \in 1 .. m - 1
      <4>1. PICK b \in u[m - 1] : joins[j] \subseteq b
        BY <2>4, <3>2
      <4>2. PICK c \in u[m] : b \subseteq c
        BY <2>6
      <4> QED BY <4>1, <4>2
    <3> QED BY <2>6, <3>1, <3>2
  <2>8. ASSUME NEW b \in blocks PROVE \E c \in u[m] : b \subseteq c
    <3>1. PICK c \in u[m - 1] : b \subseteq c
      BY <2>4
    <3>2. PICK d \in u[m] : c \subseteq d
      BY <2>6
    <3> QED BY <3>1, <3>2
  <2>9. Known(m)
    BY <2>3, <2>4, <2>6, <2>7, <2>8
  <2> QED BY <2>1, <2>9
<1>5. n \in 0 .. n
  BY <1>2
<1>6. Known(n)
  BY <1>4, <1>5
<1> QED BY <1>1, <1>6 DEF n

LEMMA SameTitleBack ==
    ASSUME NEW c, NEW d
    PROVE  SameTitle(c, d) => SameTitle(d, c)
BY DEF SameTitle, YearsMatch

Related(c, d) == SameTitle(c, d) \/ SameTitle(d, c) \/ SameWork(c, d)

\* No chain that starts at a card leaves the set.
Chained(cards, c, S) == c \in S /\ \A x \in S : \A y \in cards : Related(x, y) => y \in S

LEMMA ChainFacts ==
    ASSUME NEW cards, NEW c, NEW d
    PROVE  d \in Connected(cards, c) <=>
              d \in cards /\ \A S \in SUBSET cards : Chained(cards, c, S) => d \in S
BY DEF Connected, Chained, Related

\* In whatever order cards are listed, the merge finds the works among them.
LEMMA BlocksAreWorks ==
    ASSUME NEW cards, NEW items \in Seq(cards), ToSet(items) = cards
    PROVE  /\ Partitions(Blocks(items), cards)
           /\ Blocks(items) = {Connected(cards, c) : c \in cards}
<1> DEFINE n == Len(items)
           singles == {{items[i]} : i \in DOMAIN items}
           titled == [i \in DOMAIN items |-> {items[i]} \cup Partners(items, i)]
           asserted == [i \in DOMAIN items |-> {items[i]} \cup Assertors(items, i)]
           twos == United(singles, titled)
           blocks == United(twos, asserted)
           NonEmpty == (SUBSET cards) \ {{}}
<1>1. /\ n \in Nat /\ DOMAIN items = 1 .. n
      /\ \A i \in 1 .. n : items[i] \in cards
      /\ \A c \in cards : \E i \in 1 .. n : items[i] = c
  BY DEF ToSet
<1>2. Blocks(items) = blocks
  BY DEF Blocks
<1>3. Partitions(singles, cards)
  BY <1>1 DEF Partitions
<1>4. /\ \A i \in 1 .. n : titled[i] = {items[i]} \cup Partners(items, i)
      /\ \A i \in 1 .. n : asserted[i] = {items[i]} \cup Assertors(items, i)
  BY <1>1
<1>5. /\ titled \in Seq(NonEmpty) /\ Len(titled) = n
      /\ asserted \in Seq(NonEmpty) /\ Len(asserted) = n
  <2>1. ASSUME NEW i \in 1 .. n
        PROVE  /\ {items[i]} \cup Partners(items, i) \in NonEmpty
               /\ {items[i]} \cup Assertors(items, i) \in NonEmpty
    <3>1. \A k \in 1 .. i - 1 : k \in 1 .. n
      BY <1>1
    <3> QED BY <1>1, <3>1 DEF Partners, Assertors
  <2> HIDE DEF NonEmpty, n
  <2>2. titled \in [1 .. n -> NonEmpty] /\ asserted \in [1 .. n -> NonEmpty]
    BY <1>1, <2>1
  <2> HIDE DEF titled, asserted
  <2> QED BY <1>1, <2>2
<1> HIDE DEF titled, asserted, singles, n
<1>6. /\ Partitions(twos, cards)
      /\ \A i \in 1 .. n : \E u \in twos : titled[i] \subseteq u
      /\ \A T : (\A b \in singles : Absorbs(T, b)) /\ (\A i \in 1 .. n : Absorbs(T, titled[i]))
                   => \A u \in twos : Absorbs(T, u)
  BY <1>3, <1>5, UnitedFacts
<1> HIDE DEF twos
<1>6a. Partitions(twos, cards)
  BY <1>6
<1>7. /\ Partitions(blocks, cards)
      /\ \A i \in 1 .. n : \E u \in blocks : asserted[i] \subseteq u
      /\ \A b \in twos : \E u \in blocks : b \subseteq u
      /\ \A T : (\A b \in twos : Absorbs(T, b)) /\ (\A i \in 1 .. n : Absorbs(T, asserted[i]))
                   => \A u \in blocks : Absorbs(T, u)
  BY <1>5, <1>6a, UnitedFacts
<1> HIDE DEF blocks
<1>8. \A i \in 1 .. n : \E u \in blocks : titled[i] \subseteq u
  BY <1>6, <1>7
<1>9. ASSUME NEW i \in 1 .. n, NEW k \in 1 .. i - 1, Related(items[i], items[k])
      PROVE  \E u \in blocks : items[i] \in u /\ items[k] \in u
  <2>1. CASE SameTitle(items[i], items[k])
    <3>1. items[i] \in titled[i] /\ items[k] \in titled[i]
      BY <1>4, <2>1 DEF Partners
    <3> QED BY <1>8, <3>1
  <2>2. CASE SameWork(items[i], items[k])
    <3>1. items[i] \in asserted[i] /\ items[k] \in asserted[i]
      BY <1>4, <2>2 DEF Assertors
    <3> QED BY <1>7, <3>1
  <2> QED BY <1>9, <2>1, <2>2, SameTitleBack DEF Related
<1>10. ASSUME NEW c \in cards, NEW d \in cards, Related(c, d)
       PROVE  \E u \in blocks : c \in u /\ d \in u
  <2>1. PICK i \in 1 .. n, k \in 1 .. n : items[i] = c /\ items[k] = d
    BY <1>1
  <2>2. Related(d, c)
    BY <1>10 DEF Related, SameWork
  <2>3. i = k \/ k \in 1 .. i - 1 \/ i \in 1 .. k - 1
    BY <1>1
  <2>4. CASE i = k
    <3>1. \E u \in blocks : c \in u
      BY <1>7 DEF Partitions
    <3> QED BY <2>1, <2>4, <3>1
  <2> QED BY <1>9, <1>10, <2>1, <2>2, <2>3, <2>4
\* No set that a chain cannot leave is entered by a block from outside.
<1>11. ASSUME NEW T \in SUBSET cards, \A x \in T : \A y \in cards : Related(x, y) => y \in T
       PROVE  \A u \in blocks : Absorbs(T, u)
  <2>1. \A b \in singles : Absorbs(T, b)
    BY DEF singles, Absorbs
  <2>2. ASSUME NEW i \in 1 .. n PROVE Absorbs(T, titled[i]) /\ Absorbs(T, asserted[i])
    <3>0. \A k \in 1 .. i - 1 : items[k] \in cards /\ items[i] \in cards
      BY <1>1
    <3>1. \A z \in titled[i] : z = items[i] \/ (Related(items[i], z) /\ z \in cards)
      BY <1>4, <3>0 DEF Partners, Related
    <3>2. \A z \in asserted[i] : z = items[i] \/ (Related(items[i], z) /\ z \in cards)
      BY <1>4, <3>0 DEF Assertors, Related
    <3>3. \A x, y : Related(x, y) => Related(y, x)
      BY DEF Related, SameWork
    <3>4. items[i] \in cards
      BY <1>1
    <3> QED BY <1>11, <3>1, <3>2, <3>3, <3>4 DEF Absorbs
  <2> QED BY <1>6, <1>7, <2>1, <2>2
<1>12. ASSUME NEW u \in blocks, NEW c \in u
       PROVE  u = Connected(cards, c)
  <2>1. u \in SUBSET cards /\ c \in cards
    BY <1>7 DEF Partitions
  <2>2. \A x \in u : \A y \in cards : Related(x, y) => y \in u
    <3> SUFFICES ASSUME NEW x \in u, NEW y \in cards, Related(x, y) PROVE y \in u
      OBVIOUS
    <3>1. PICK v \in blocks : x \in v /\ y \in v
      BY <1>10, <2>1
    <3> QED BY <1>7, <3>1 DEF Partitions
  <2>3. ASSUME NEW d \in Connected(cards, c) PROVE d \in u
    BY <2>1, <2>2, ChainFacts DEF Chained
  <2>4. ASSUME NEW d \in u PROVE d \in Connected(cards, c)
    <3>1. ASSUME NEW S \in SUBSET cards, Chained(cards, c, S) PROVE d \in S
      <4>1. Absorbs(S, u)
        BY <1>11, <3>1 DEF Chained
      <4> QED BY <3>1, <4>1 DEF Absorbs, Chained
    <3> QED BY <2>1, <3>1, ChainFacts
  <2> QED BY <2>3, <2>4
<1>13. ASSUME NEW u \in blocks PROVE \E c \in cards : u = Connected(cards, c)
  <2>0. u # {}
    BY <1>7 DEF Partitions
  <2>1. PICK c : c \in u
    BY <2>0
  <2>2. c \in cards
    BY <1>7, <2>1 DEF Partitions
  <2> QED BY <1>12, <2>1, <2>2
<1>14. ASSUME NEW c \in cards PROVE Connected(cards, c) \in blocks
  <2>1. PICK u \in blocks : c \in u
    BY <1>7 DEF Partitions
  <2> QED BY <1>12, <2>1
<1>15. blocks = {Connected(cards, c) : c \in cards}
  BY <1>13, <1>14
<1> QED BY <1>2, <1>7, <1>15

-----------------------------------------------------------------------------
(* The cards of an answer. *)

\* Two sequences joined hold the members of both.
LEMMA JoinMembers ==
    ASSUME NEW S, NEW s \in Seq(S), NEW t \in Seq(S)
    PROVE  s \o t \in Seq(S) /\ ToSet(s \o t) = ToSet(s) \cup ToSet(t)
<1> DEFINE q == s \o t
           n == Len(s)
           m == Len(t)
<1>1. /\ q \in Seq(S) /\ Len(q) = n + m
      /\ \A i \in 1 .. n + m : q[i] = IF i <= n THEN s[i] ELSE t[i - n]
  BY ConcatProperties
<1>2. /\ n \in Nat /\ m \in Nat
      /\ DOMAIN s = 1 .. n /\ DOMAIN t = 1 .. m /\ DOMAIN q = 1 .. n + m
  BY <1>1
<1> HIDE DEF q, n, m
<1>3. ASSUME NEW i \in 1 .. n + m PROVE q[i] \in ToSet(s) \cup ToSet(t)
  <2>1. CASE i <= n
    <3>1. i \in 1 .. n
      BY <1>2, <2>1
    <3> QED BY <1>1, <1>2, <2>1, <3>1 DEF ToSet
  <2>2. CASE ~(i <= n)
    <3>1. i - n \in 1 .. m
      BY <1>2, <2>2
    <3> QED BY <1>1, <1>2, <2>2, <3>1 DEF ToSet
  <2> QED BY <2>1, <2>2
<1>4. ASSUME NEW i \in 1 .. n PROVE s[i] \in ToSet(q)
  <2>1. i \in 1 .. n + m /\ i <= n
    BY <1>2
  <2> QED BY <1>1, <1>2, <2>1 DEF ToSet
<1>5. ASSUME NEW i \in 1 .. m PROVE t[i] \in ToSet(q)
  <2>1. i + n \in 1 .. n + m /\ ~(i + n <= n) /\ (i + n) - n = i
    BY <1>2
  <2>2. q[i + n] = t[i]
    BY <1>1, <2>1
  <2> QED BY <1>2, <2>1, <2>2 DEF ToSet
<1>6. ToSet(q) \subseteq ToSet(s) \cup ToSet(t)
  BY <1>2, <1>3 DEF ToSet
<1>7. ToSet(s) \subseteq ToSet(q) /\ ToSet(t) \subseteq ToSet(q)
  BY <1>2, <1>4, <1>5 DEF ToSet
<1> QED BY <1>1, <1>6, <1>7 DEF q

\* The lanes up to each, as Listed lays them out.
Listings(cards, u) ==
    u = [k \in 0 .. Len(Registry) |->
            IF k = 0 THEN <<>> ELSE u[k - 1] \o SetToSeq({c \in cards : c.provider = Registry[k]})]

LEMMA LaneListed ==
    ASSUME NEW cards, IsFiniteSet(cards), NEW p
    PROVE  LET lane == SetToSeq({c \in cards : c.provider = p})
           IN  lane \in Seq(cards) /\ ToSet(lane) = {c \in cards : c.provider = p}
<1> DEFINE S == {c \in cards : c.provider = p}
           lane == SetToSeq(S)
<1>1. S \in SUBSET cards /\ IsFiniteSet(S)
  BY FS_Subset
<1>2. lane \in Seq(S) /\ ToSet(lane) = S
  BY <1>1, SetToSeqFacts
<1>3. Seq(S) \subseteq Seq(cards)
  BY <1>1
<1> HIDE DEF lane
<1>4. lane \in Seq(cards)
  BY <1>2, <1>3
<1> QED BY <1>2, <1>4 DEF lane

LEMMA ListingsExist ==
    ASSUME NEW cards, IsFiniteSet(cards)
    PROVE  \E u \in [0 .. Len(Registry) -> Seq(cards)] : Listings(cards, u)
<1> DEFINE n == Len(Registry)
           D == Seq(cards)
           lane(k) == SetToSeq({c \in cards : c.provider = Registry[k]})
           step == [k \in 1 .. n |-> [q \in D |-> q \o lane(k)]]
<1>0. n \in Nat
  BY RegistryAssumption DEF IsSequence
<1>1. \A k \in 1 .. n : lane(k) \in D
  BY LaneListed
<1> HIDE DEF lane, n
<1>2. step \in [1 .. n -> [D -> D]]
  <2>1. \A k \in 1 .. n : \A q \in D : q \o lane(k) \in D
    BY <1>1
  <2> HIDE DEF D
  <2> QED BY <2>1
<1>b. <<>> \in D
  OBVIOUS
<1> HIDE DEF D
<1>3. \A q \in D : \A k \in 1 .. n : step[k][q] = q \o lane(k)
  OBVIOUS
<1> HIDE DEF step
<1>4. PICK u \in [0 .. n -> D] : u[0] = <<>> /\ \A k \in 1 .. n : u[k] = step[k][u[k - 1]]
  BY <1>0, <1>b, <1>2, StepsExist
<1>5. ASSUME NEW k \in 0 .. n PROVE u[k] = IF k = 0 THEN <<>> ELSE u[k - 1] \o lane(k)
  <2>1. CASE k = 0
    BY <1>4, <2>1
  <2>2. CASE k # 0
    <3>1. k \in 1 .. n /\ k - 1 \in 0 .. n
      BY <1>0, <2>2
    <3>2. u[k - 1] \in D
      BY <1>4, <3>1
    <3> QED BY <1>3, <1>4, <2>2, <3>1, <3>2
  <2> QED BY <2>1, <2>2
<1>6. u = [k \in 0 .. n |-> IF k = 0 THEN <<>> ELSE u[k - 1] \o lane(k)]
  <2>1. u = [k \in 0 .. n |-> u[k]]
    BY <1>4
  <2> QED BY <1>5, <2>1
<1> QED BY <1>4, <1>6 DEF Listings, n, lane, D

\* Every card of a registered provider is listed, and nothing else.
LEMMA ListedFacts ==
    ASSUME NEW cards, IsFiniteSet(cards), \A c \in cards : c.provider \in Provider
    PROVE  Listed(cards) \in Seq(cards) /\ ToSet(Listed(cards)) = cards
<1> DEFINE n == Len(Registry)
           lane(k) == SetToSeq({c \in cards : c.provider = Registry[k]})
<1>0. /\ n \in Nat /\ DOMAIN Registry = 1 .. n
      /\ \A c \in cards : \E k \in 1 .. n : c.provider = Registry[k]
  BY RegistryAssumption DEF IsSequence, Provider, ToSet
<1>1. PICK u : Listings(cards, u) /\ Listed(cards) = u[n]
  <2> DEFINE v == CHOOSE v : Listings(cards, v)
  <2>1. Listings(cards, v)
    BY ListingsExist
  <2>2. Listed(cards) = v[n]
    BY DEF Listed, Listings
  <2> HIDE DEF v
  <2> QED BY <2>1, <2>2
<1>2. \A k \in 1 .. n : lane(k) \in Seq(cards) /\ ToSet(lane(k)) = {c \in cards : c.provider = Registry[k]}
  BY LaneListed
<1>3. u[0] = <<>> /\ \A k \in 1 .. n : u[k] = u[k - 1] \o lane(k)
  <2>1. u[0] = <<>>
    BY <1>0, <1>1 DEF Listings
  <2>2. \A k \in 1 .. n : k \in 0 .. n /\ k # 0
    BY <1>0
  <2> HIDE DEF n
  <2> QED BY <1>1, <2>1, <2>2 DEF Listings, n
<1> HIDE DEF n, lane
<1> DEFINE Known(k) == u[k] \in Seq(cards) /\ \A c \in cards : (\E j \in 1 .. k : c.provider = Registry[j]) => c \in ToSet(u[k])
           Fail == {k \in 0 .. n : ~Known(k)}
<1>4. ASSUME Fail # {} PROVE FALSE
  <2> DEFINE m == Least(Fail)
  <2>1. m \in Fail /\ \A y \in Fail : m <= y
    <3>1. Fail \in SUBSET Nat
      BY <1>0
    <3> HIDE DEF Fail
    <3> QED BY <1>4, <3>1, LeastFacts
  <2> HIDE DEF m
  <2>2. m # 0
    <3>1. Known(0)
      BY <1>3
    <3> QED BY <2>1, <3>1
  <2>3. m \in 1 .. n /\ m - 1 \in 0 .. n /\ ~(m <= m - 1)
    BY <1>0, <2>1, <2>2
  <2>4. Known(m - 1)
    BY <2>1, <2>3
  <2> DEFINE q == u[m - 1]
             t == lane(m)
  <2>5. u[m] = q \o t /\ q \in Seq(cards) /\ t \in Seq(cards)
    BY <1>2, <1>3, <2>3, <2>4
  <2>6. u[m] \in Seq(cards) /\ ToSet(u[m]) = ToSet(q) \cup ToSet(t)
    <3> HIDE DEF q, t
    <3> QED BY <2>5, JoinMembers
  <2>7. ASSUME NEW c \in cards, NEW j \in 1 .. m, c.provider = Registry[j] PROVE c \in ToSet(u[m])
    <3>1. j = m \/ j \in 1 .. m - 1
      BY <2>3
    <3>2. CASE j = m
      BY <1>2, <2>3, <2>6, <2>7, <3>2
    <3>3. CASE j \in 1 .. m - 1
      BY <2>4, <2>6, <2>7, <3>3
    <3> QED BY <3>1, <3>2, <3>3
  <2>8. Known(m)
    BY <2>6, <2>7
  <2> QED BY <2>1, <2>8
<1>5. n \in 0 .. n
  BY <1>0
<1>6. Known(n)
  BY <1>4, <1>5
<1>7. ToSet(u[n]) \subseteq cards
  BY <1>6 DEF ToSet
<1> QED BY <1>0, <1>1, <1>6, <1>7

-----------------------------------------------------------------------------
(* The groups of an answer.                                                    *)

\* Cards that providers answer with, each wire id once.
Fit(cards) ==
    /\ IsFiniteSet(cards)
    /\ cards \subseteq Answerable
    /\ \A c, d \in cards : c.id = d.id => c = d

LEMMA CardFacts ==
    ASSUME NEW c \in Answerable
    PROVE  /\ c.provider \in Provider
           /\ c.aliases \in SUBSET Nat /\ c.aliases # {}
           /\ c.imdb \in Nat
           /\ Least(c.aliases) \in c.aliases
<1>1. c.provider \in Provider
  BY HitsAssumption DEF Answerable
<1>2. c.aliases \in SUBSET Nat /\ c.aliases # {} /\ c.imdb \in Nat
  BY HitsAssumption
<1>3. Least(c.aliases) \in c.aliases
  BY <1>2, LeastFacts
<1> QED BY <1>1, <1>2, <1>3

\* A card has a key of its own, or shares it with a card of the same work.
LEMMA KeysMeet ==
    ASSUME NEW c \in Answerable, NEW d \in Answerable, ItemKey(c) = ItemKey(d)
    PROVE  Related(c, d)
<1> DEFINE a == Least(c.aliases)
           b == Least(d.aliases)
<1>1. a \in c.aliases /\ b \in d.aliases
  BY CardFacts
<1> HIDE DEF a, b
<1>2. CASE c.imdb # 0 /\ d.imdb # 0
  <2>1. c.imdb = d.imdb
    BY <1>2 DEF ItemKey, ImdbKey
  <2> QED BY <1>2, <2>1 DEF Related, SameWork
<1>3. CASE c.imdb = 0 /\ d.imdb = 0
  <2>1. Digest(a, c.form, EffectiveYear(c)) = Digest(b, d.form, EffectiveYear(d))
    BY <1>3 DEF ItemKey, a, b
  <2>2. a = b /\ c.form = d.form /\ EffectiveYear(c) = EffectiveYear(d)
    BY <1>1, <2>1, DigestAssumption
  <2>3. SameTitle(c, d)
    BY <1>1, <2>2 DEF SameTitle, YearsMatch
  <2> QED BY <2>3 DEF Related
<1>4. CASE ~(c.imdb = 0 <=> d.imdb = 0)
  BY <1>4 DEF ItemKey, ImdbKey
<1> QED BY <1>2, <1>3, <1>4

\* The key of a group is the key of one of its members.
LEMMA KeyIsOfMember ==
    ASSUME NEW members \in SUBSET Answerable, members # {}
    PROVE  \E m \in members : GroupKey(members) = ItemKey(m)
<1> DEFINE asserted == {c.imdb : c \in {m \in members : m.imdb # 0}}
           yearful == {m \in members : EffectiveYear(m) # 0}
           preferred == IF yearful # {} THEN yearful ELSE members
           hashes == {ItemKey(m)[2] : m \in preferred}
<1>1. CASE asserted # {}
  <2>1. asserted \in SUBSET Nat
    BY CardFacts
  <2>2. Least(asserted) \in asserted
    <3> HIDE DEF asserted
    <3> QED BY <1>1, <2>1, LeastFacts
  <2>3. GroupKey(members) = ImdbKey(Least(asserted))
    BY <1>1 DEF GroupKey
  <2>4. PICK m \in members : m.imdb # 0 /\ m.imdb = Least(asserted)
    BY <2>2
  <2>5. ItemKey(m) = ImdbKey(m.imdb)
    BY <2>4 DEF ItemKey
  <2> QED BY <2>3, <2>4, <2>5
<1>2. CASE asserted = {}
  <2>1. \A m \in members : m.imdb = 0
    BY <1>2
  <2>2. \A m \in members : /\ ItemKey(m) = <<"g2", ItemKey(m)[2]>>
                           /\ ItemKey(m)[2] \in Nat
    <3> SUFFICES ASSUME NEW m \in members
                 PROVE  ItemKey(m) = <<"g2", ItemKey(m)[2]>> /\ ItemKey(m)[2] \in Nat
      OBVIOUS
    <3>1. ItemKey(m) = <<"g2", Digest(Least(m.aliases), m.form, EffectiveYear(m))>>
      BY <2>1 DEF ItemKey
    <3>2. Digest(Least(m.aliases), m.form, EffectiveYear(m)) \in Nat
      BY CardFacts, DigestAssumption
    <3> QED BY <3>1, <3>2
  <2>3. preferred \in SUBSET members /\ preferred # {}
    OBVIOUS
  <2>4. hashes \in SUBSET Nat /\ hashes # {}
    <3> HIDE DEF preferred
    <3> QED BY <2>2, <2>3
  <2>5. GroupKey(members) = <<"g2", Least(hashes)>>
    BY <1>2 DEF GroupKey
  <2>6. PICK m \in preferred : ItemKey(m)[2] = Least(hashes)
    <3>1. Least(hashes) \in hashes
      <4> HIDE DEF hashes
      <4> QED BY <2>4, LeastFacts
    <3> QED BY <3>1
  <2> QED BY <2>2, <2>3, <2>5, <2>6
<1> QED BY <1>1, <1>2

\* What GroupsAreWorks says, of any groups.
Works(groups) ==
    LET cards == UNION {g.sources : g \in groups}
    IN  /\ {g.sources : g \in groups} = {Connected(cards, c) : c \in cards}
        /\ \A c, d \in cards : c.id = d.id => c = d
        /\ \A g, h \in groups : g # h => g.keys \cap h.keys = {}
        /\ \A g \in groups : g.key \in g.keys

\* The groups made of such cards are the works among them.
LEMMA GroupsFacts ==
    ASSUME NEW cards, Fit(cards)
    PROVE  /\ UNION {g.sources : g \in GroupsFromSources(cards)} = cards
           /\ Works(GroupsFromSources(cards))
<1> DEFINE blocks == Blocks(Listed(cards))
           groups == GroupsFromSources(cards)
<1>1. Partitions(blocks, cards) /\ blocks = {Connected(cards, c) : c \in cards}
  <2>1. \A c \in cards : c.provider \in Provider
    BY CardFacts DEF Fit
  <2>2. Listed(cards) \in Seq(cards) /\ ToSet(Listed(cards)) = cards
    BY <2>1, ListedFacts DEF Fit
  <2> QED BY <2>2, BlocksAreWorks
<1>2. groups = {Project(b) : b \in blocks}
  BY DEF GroupsFromSources
<1>3. \A b : /\ Project(b).sources = b
             /\ Project(b).key = GroupKey(b)
             /\ Project(b).keys = {ItemKey(m) : m \in b}
  BY DEF Project
<1> HIDE DEF blocks, groups
<1>4. {g.sources : g \in groups} = blocks
  BY <1>2, <1>3
<1>5. UNION {g.sources : g \in groups} = cards
  BY <1>1, <1>4 DEF Partitions
<1>6. \A b \in blocks : b \in SUBSET Answerable /\ b \subseteq cards /\ b # {}
  BY <1>1 DEF Partitions, Fit
<1>7. ASSUME NEW g \in groups, NEW h \in groups, g # h PROVE g.keys \cap h.keys = {}
  <2>1. PICK a \in blocks, b \in blocks : g = Project(a) /\ h = Project(b)
    BY <1>2
  <2>2. ASSUME NEW k \in g.keys, k \in h.keys PROVE FALSE
    <3>1. PICK c \in a : k = ItemKey(c)
      BY <1>3, <2>1, <2>2
    <3>2. PICK d \in b : k = ItemKey(d)
      BY <1>3, <2>1, <2>2
    <3>3. Related(c, d) /\ c \in cards /\ d \in cards
      BY <1>6, <3>1, <3>2, KeysMeet
    <3>4. PICK e \in cards : a = Connected(cards, e)
      BY <1>1
    <3>5. d \in a
      BY <3>1, <3>3, <3>4, ChainFacts DEF Chained
    <3>6. a = b
      BY <1>1, <3>2, <3>5 DEF Partitions
    <3> QED BY <1>7, <2>1, <3>6
  <2> QED BY <2>2
<1>8. ASSUME NEW g \in groups PROVE g.key \in g.keys
  <2>1. PICK b \in blocks : g = Project(b)
    BY <1>2
  <2>2. \E m \in b : GroupKey(b) = ItemKey(m)
    BY <1>6, <2>1, KeyIsOfMember
  <2> QED BY <1>3, <2>1, <2>2
<1>9. \A c, d \in cards : c.id = d.id => c = d
  BY DEF Fit
<1>10. Works(groups)
  <2> DEFINE whole == UNION {g.sources : g \in groups}
  <2>1. whole = cards
    BY <1>5
  <2>2. {g.sources : g \in groups} = {Connected(whole, c) : c \in whole}
    BY <1>1, <1>4, <2>1
  <2>3. \A c, d \in whole : c.id = d.id => c = d
    BY <1>9, <2>1
  <2> QED BY <1>7, <1>8, <2>2, <2>3 DEF Works
<1> QED BY <1>5, <1>10 DEF groups

LEMMA NoGroups == Works({})
<1>1. {g.sources : g \in {}} = {}
  OBVIOUS
<1> QED BY <1>1 DEF Works

-----------------------------------------------------------------------------
(* What an answer is made of. *)

LEMMA NothingFits == Fit({})
BY FS_EmptySet DEF Fit

LEMMA SomeFit ==
    ASSUME NEW cards, Fit(cards), NEW some \in SUBSET cards
    PROVE  Fit(some)
BY FS_Subset DEF Fit

\* The cards of some providers, at one time.
LEMMA HitsFit ==
    ASSUME NEW e \in Edition, NEW well \in SUBSET Provider
    PROVE  Fit(UNION {Hits(p, e) : p \in well})
<1> DEFINE answers == {Hits(p, e) : p \in well}
<1>1. IsFiniteSet(answers)
  <2>1. IsFiniteSet(well)
    BY ProvidersFinite, FS_Subset
  <2> DEFINE f == [p \in well |-> Hits(p, e)]
  <2>2. f \in Surjection(well, answers)
    BY DEF Surjection
  <2> HIDE DEF f, answers
  <2> QED BY <2>1, <2>2, FS_Surjection
<1>2. \A a \in answers : IsFiniteSet(a)
  BY HitsAssumption
<1>3. IsFiniteSet(UNION answers)
  <2> HIDE DEF answers
  <2> QED BY <1>1, <1>2, FS_UNION
<1>4. UNION answers \subseteq Answerable
  BY DEF Answerable
<1>5. \A c, d \in UNION answers : c.id = d.id => c = d
  BY HitsAssumption
<1> QED BY <1>3, <1>4, <1>5 DEF Fit

LEMMA HitsOneFit ==
    ASSUME NEW e \in Edition, NEW p \in Provider
    PROVE  Fit(Hits(p, e))
<1>1. UNION {Hits(q, e) : q \in {p}} = Hits(p, e)
  OBVIOUS
<1> QED BY <1>1, HitsFit

LEMMA UpsertFits ==
    ASSUME NEW held, Fit(held), NEW cards, Fit(cards)
    PROVE  Fit(Upsert(held, cards))
<1> DEFINE kept == {r \in held : r.id \notin {c.id : c \in cards}}
<1>1. IsFiniteSet(kept) /\ kept \subseteq held
  BY FS_Subset DEF Fit
<1>2. IsFiniteSet(kept \cup cards)
  BY <1>1, FS_Union DEF Fit
<1>3. \A c, d \in kept \cup cards : c.id = d.id => c = d
  BY DEF Fit
<1> HIDE DEF kept
<1>4. Fit(kept \cup cards)
  BY <1>1, <1>2, <1>3 DEF Fit
<1> QED BY <1>4 DEF Upsert, kept

LEMMA UniqueFits ==
    ASSUME NEW local, Fit(local), NEW live, Fit(live)
    PROVE  Fit(Unique(local, live))
<1> DEFINE new == {c \in live : c.id \notin {l.id : l \in local}}
<1>1. IsFiniteSet(new) /\ new \subseteq live
  BY FS_Subset DEF Fit
<1>2. IsFiniteSet(local \cup new)
  BY <1>1, FS_Union DEF Fit
<1>3. \A c, d \in local \cup new : c.id = d.id => c = d
  BY DEF Fit
<1> HIDE DEF new
<1>4. Fit(local \cup new)
  BY <1>1, <1>2, <1>3 DEF Fit
<1> QED BY <1>4 DEF Unique, new

LEMMA DeliverFits ==
    ASSUME Fit(rows), NEW local, Fit(local), NEW resp, Fit(resp.cards), NEW warm,
           Deliver(local, resp, warm)
    PROVE  Fit(rows') /\ Works(answer'.groups)
<1> DEFINE cards == Unique(local, resp.cards)
<1>1. Fit(cards)
  BY UniqueFits
<1>2. answer'.groups = GroupsFromSources(cards)
  BY DEF Deliver
<1>3. Remember(UNION {g.sources : g \in GroupsFromSources(cards)})
  BY DEF Deliver
<1> HIDE DEF cards
<1>4. rows' = rows \/ rows' = Upsert(rows, cards)
  BY <1>1, <1>3, GroupsFacts DEF Remember
<1> QED BY <1>1, <1>2, <1>4, GroupsFacts, UpsertFits

\* Every card a search may use fits, wherever it is kept, and an answer's groups
\* were made of such cards.
WorksInv ==
    /\ site \in Edition
    /\ process = "api" =>
          /\ Fit(rows)
          /\ cached = [s \in Scopes |-> cached[s]]
          /\ \A s \in Scopes : Fit(cached[s].cards)
          /\ Fit(search.local)
    /\ Works(answer.groups)

LEMMA WorksInit == Init => WorksInv
<1> SUFFICES ASSUME Init PROVE WorksInv
  OBVIOUS
<1>1. NoResponse.cards = {} /\ NoSearch.local = {} /\ NoAnswer.groups = {}
  BY DEF NoResponse, NoSearch, NoAnswer
<1> QED BY <1>1, NothingFits, NoGroups DEF Init, SearchInit, WorksInv

LEMMA LocalFits ==
    ASSUME Fit(rows)
    PROVE  Fit(Local) /\ \A local \in TooFew : Fit(local)
<1>1. Fit(Local)
  BY SomeFit DEF Local
<1> QED BY <1>1, NothingFits DEF TooFew

LEMMA WorksStep == WorksInv /\ [Next]_vars => WorksInv'
<1> SUFFICES ASSUME WorksInv, [Next]_vars PROVE WorksInv'
  OBVIOUS
<1>1. CASE UNCHANGED vars
  BY <1>1 DEF vars, searchVars, WorksInv
<1>2. CASE Crawler
  <2>1. process = "crawler" /\ UNCHANGED <<searchVars, process>>
    BY <1>2 DEF Crawler
  <2>2. site' = site
    BY <1>2 DEF Crawler, CrawlNext, StartRun, Fetch, Revalidate, FailSection, SkipBare, AskAgain, Finish, Midnight, Die, LoseRecord
  <2> QED BY <2>1, <2>2 DEF WorksInv, searchVars
<1>3. CASE Revise
  <2>1. site' \in Edition /\ UNCHANGED <<rows, searchVars, process>>
    BY <1>3 DEF Revise
  <2> QED BY <2>1 DEF WorksInv, searchVars
<1>4. CASE Api
  <2>1. process = "api" /\ process' = process
    BY <1>4 DEF Api
  <2> DEFINE Sound == /\ Fit(rows)
                      /\ cached = [s \in Scopes |-> cached[s]]
                      /\ \A s \in Scopes : Fit(cached[s].cards)
                      /\ Fit(search.local)
  <2>2. Sound /\ Works(answer.groups) /\ site \in Edition
    BY <2>1 DEF WorksInv
  <2>3. SUFFICES Sound' /\ Works(answer'.groups) /\ site' = site
    BY <2>1, <2>2 DEF WorksInv
  <2>4. CASE AnswerLocally
    <3>1. Works(GroupsFromSources(Local))
      BY <2>2, LocalFits, GroupsFacts
    <3>2. answer'.groups = GroupsFromSources(Local)
      BY <2>4 DEF AnswerLocally, Say, NoAnswer
    <3> QED BY <2>2, <2>4, <3>1, <3>2 DEF AnswerLocally
  <2>5. CASE AnswerFromCache
    <3>1. CacheKey(Scope) \in Scopes
      BY DEF CacheKey, Scope, Scopes
    <3>2. PICK local \in TooFew : Deliver(local, cached[CacheKey(Scope)], ready)
      BY <2>5 DEF AnswerFromCache
    <3>3. Fit(rows') /\ Works(answer'.groups)
      BY <2>2, <3>1, <3>2, LocalFits, DeliverFits
    <3> QED BY <2>2, <2>5, <3>3 DEF AnswerFromCache
  <2>6. CASE AskProviders
    <3>1. PICK local \in TooFew : search' = [scope |-> Scope, local |-> local]
      BY <2>6 DEF AskProviders
    <3>2. Fit(search'.local)
      BY <2>2, <3>1, LocalFits
    <3> QED BY <2>2, <2>6, <3>2 DEF AskProviders
  <2>7. CASE Gather
    <3>1. PICK well \in SUBSET Asked(search.scope), swept \in BOOLEAN :
             LET cards == UNION {Hits(p, site) : p \in well}
                 resp == [cards |-> {c \in cards : swept => c.id \notin Gated},
                          failures |-> Asked(search.scope) \ well, asked |-> Asked(search.scope)]
             IN  /\ cached' = [cached EXCEPT ![CacheKey(search.scope)] = resp]
                 /\ Deliver(search.local, resp, search.scope = "all")
      BY <2>7 DEF Gather
    <3> DEFINE cards == UNION {Hits(p, site) : p \in well}
               resp == [cards |-> {c \in cards : swept => c.id \notin Gated},
                        failures |-> Asked(search.scope) \ well, asked |-> Asked(search.scope)]
               key == CacheKey(search.scope)
    <3>2. cached' = [cached EXCEPT ![key] = resp] /\ Deliver(search.local, resp, search.scope = "all")
      BY <3>1
    <3>3. well \in SUBSET Provider
      BY DEF Asked
    <3>4. Fit(cards)
      BY <2>2, <3>3, HitsFit
    <3>5. Fit(resp.cards)
      <4> HIDE DEF cards
      <4>1. resp.cards \in SUBSET cards
        OBVIOUS
      <4> QED BY <3>4, <4>1, SomeFit
    <3> HIDE DEF resp, key
    <3>6. Fit(rows') /\ Works(answer'.groups)
      BY <2>2, <3>2, <3>5, DeliverFits
    <3>7. /\ cached' = [s \in Scopes |-> cached'[s]]
          /\ \A s \in Scopes : cached'[s] = cached[s] \/ cached'[s] = resp
      BY <2>2, <3>2
    <3>8. \A s \in Scopes : Fit(cached'[s].cards)
      BY <2>2, <3>5, <3>7
    <3>9. search' = NoSearch /\ site' = site
      BY <2>7 DEF Gather
    <3>10. Fit(search'.local)
      BY <3>9, NothingFits DEF NoSearch
    <3> QED BY <3>6, <3>7, <3>8, <3>9, <3>10
  <2>8. CASE GatherNothing
    <3>1. Works(GroupsFromSources(search.local))
      BY <2>2, GroupsFacts
    <3>2. answer'.groups = GroupsFromSources(search.local)
      BY <2>8 DEF GatherNothing, Say, NoAnswer
    <3>3. Fit(search'.local)
      BY <2>8, NothingFits DEF GatherNothing, NoSearch
    <3> QED BY <2>2, <2>8, <3>1, <3>2, <3>3 DEF GatherNothing
  <2>9. CASE TakeAnswer
    <3>1. answer'.groups = {}
      BY <2>9 DEF TakeAnswer, NoAnswer
    <3> QED BY <2>2, <2>9, <3>1, NoGroups DEF TakeAnswer
  <2>10. CASE TurnUakino
    BY <2>2, <2>10 DEF TurnUakino
  <2>11. CASE LapseAnswer
    <3>1. PICK t \in Scopes : cached' = [cached EXCEPT ![t] = NoResponse]
      BY <2>11 DEF LapseAnswer
    <3>2. /\ cached' = [s \in Scopes |-> cached'[s]]
          /\ \A s \in Scopes : cached'[s] = cached[s] \/ cached'[s] = NoResponse
      BY <2>2, <3>1
    <3>3. Fit(NoResponse.cards)
      BY NothingFits DEF NoResponse
    <3>4. \A s \in Scopes : Fit(cached'[s].cards)
      BY <2>2, <3>2, <3>3
    <3> QED BY <2>2, <2>11, <3>2, <3>4 DEF LapseAnswer
  <2>12. CASE CrawlPage
    <3>1. PICK p \in Provider : rows' = Upsert(rows, Hits(p, site))
      BY <2>12 DEF CrawlPage
    <3>2. Fit(rows')
      BY <2>2, <3>1, HitsOneFit, UpsertFits
    <3> QED BY <2>2, <2>12, <3>2 DEF CrawlPage
  <2> QED BY <1>4, <2>4, <2>5, <2>6, <2>7, <2>8, <2>9, <2>10, <2>11, <2>12 DEF Api, SearchNext
<1> QED BY <1>1, <1>2, <1>3, <1>4 DEF Next

\* However an answer's cards came together, its groups are the works among them:
\* nothing is shown twice, and every key leads to one group.
THEOREM EveryGroupIsAWork == Spec => []GroupsAreWorks
<1>1. WorksInv => GroupsAreWorks
  BY DEF WorksInv, Works, GroupsAreWorks
<1> QED BY WorksInit, WorksStep, <1>1, PTL DEF Spec
===============================================================================
