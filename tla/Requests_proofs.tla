--------------------------- MODULE Requests_proofs ---------------------------
(***************************************************************************)
(* Proofs about what a request meets on its way: its quota (Admission),    *)
(* the catalogue (Catalog), and the payload and the answer made of it      *)
(* (Payload).                                                              *)
(***************************************************************************)
EXTENDS Admission, Catalog, Payload, Induction

-----------------------------------------------------------------------------
(* Admission, for days and seconds of any length, every quota and every    *)
(* order in which the clock, the other requests and this one go on.        *)

(* What \div gives, as bounds.                                             *)
LEMMA DivBounds ==
  ASSUME NEW a \in Nat, NEW b \in Nat \ {0}
  PROVE  /\ a \div b \in Nat
         /\ (a \div b) * b <= a
         /\ a < (a \div b) * b + b
<1>1. (a \div b) \in Int /\ a % b \in 0..(b - 1) /\ a = b * (a \div b) + (a % b)
  OBVIOUS
<1>2. b * (a \div b) = (a \div b) * b
  BY <1>1
<1> QED BY <1>1, <1>2

LEMMA DayType ==
  ASSUME NEW t \in Nat
  PROVE  /\ TicksPerDay \in Nat \ {0}
         /\ Day(t) \in Nat
         /\ MidnightAfter(Day(t)) \in Nat
<1>1. TicksPerDay \in Nat \ {0}
  BY AdmissionAssumption, InstantsAssumption DEF TicksPerDay
<1>2. Day(t) \in Nat
  BY <1>1, DivBounds DEF Day
<1>3. MidnightAfter(Day(t)) \in Nat
  BY <1>1, <1>2 DEF MidnightAfter
<1> QED BY <1>1, <1>2, <1>3

(* int() of a difference of instants, as bounds: it is less than a second  *)
(* off, and off towards zero.                                              *)
LEMMA TruncateBounds ==
  ASSUME NEW x \in Int
  PROVE  /\ Truncate(x) \in Int
         /\ (Truncate(x) + 1) * Second > x
         /\ Truncate(x) > 0 => Truncate(x) * Second <= x
<1>1. Second \in Nat \ {0}
  BY InstantsAssumption
<1>2. CASE x >= 0
  <2>1. x \in Nat /\ Truncate(x) = x \div Second
    BY <1>2 DEF Truncate
  <2> DEFINE q == x \div Second
  <2>2. q \in Nat /\ q * Second <= x /\ x < q * Second + Second
    BY <2>1, <1>1, DivBounds
  <2> HIDE DEF q
  <2>3. (q + 1) * Second = q * Second + Second
    BY <2>2, <1>1
  <2>4. q * Second \in Int
    BY <2>2, <1>1
  <2>5. (q + 1) * Second > x
    BY <2>2, <2>3, <2>4, <1>1
  <2> QED BY <2>1, <2>2, <2>5 DEF q
<1>3. CASE x < 0
  <2>1. - x \in Nat /\ Truncate(x) = - ((- x) \div Second)
    BY <1>3 DEF Truncate
  <2> DEFINE q == (- x) \div Second
  <2>2. q \in Nat /\ q * Second <= - x
    BY <2>1, <1>1, DivBounds
  <2> HIDE DEF q
  <2>3. (- q + 1) * Second = Second - q * Second
    BY <2>2, <1>1
  <2>4. q * Second \in Int
    BY <2>2, <1>1
  <2>5. (- q + 1) * Second > x
    BY <2>2, <2>3, <2>4, <1>1
  <2>6. ~ (- q > 0)
    BY <2>2
  <2>7. Truncate(x) = - q
    BY <2>1 DEF q
  <2> QED BY <2>2, <2>5, <2>6, <2>7
<1> QED BY <1>2, <1>3

-----------------------------------------------------------------------------
(* The day of a request under way is a day, and a refusal was given at an  *)
(* instant and says what is left of that day.                              *)
AdmissionInv ==
  /\ clock \in Nat
  /\ admission.at \in {"querying", "counted"} => admission.day \in Nat
  /\ admission.at = "refused" =>
       /\ admission.day \in Nat
       /\ admission.since \in Nat
       /\ admission.retry =
            RetryAfter(Truncate(MidnightAfter(admission.day) - admission.since))

LEMMA AdmissionInvInit == AdmissionInit => AdmissionInv
BY DEF AdmissionInit, AdmissionInv

LEMMA AdmissionInvStep ==
  AdmissionInv /\ [AdmissionNext]_<<clock, admissionVars>> => AdmissionInv'
<1> SUFFICES ASSUME AdmissionInv, [AdmissionNext]_<<clock, admissionVars>>
             PROVE  AdmissionInv'
  OBVIOUS
<1>1. CASE ReadDay
  <2>1. Day(clock) \in Nat
    BY DayType DEF AdmissionInv
  <2> QED BY <1>1, <2>1 DEF AdmissionInv, ReadDay
<1>2. CASE Query
  BY <1>2 DEF AdmissionInv, Query
<1>3. CASE AdmitOrRefuse
  BY <1>3 DEF AdmissionInv, AdmitOrRefuse, Wait
<1>4. CASE RecordTokens
  BY <1>4 DEF AdmissionInv, RecordTokens
<1>5. CASE AdmissionTick
  BY <1>5 DEF AdmissionInv, AdmissionTick, ClockTick, admissionVars
<1>6. CASE UNCHANGED <<clock, admissionVars>>
  BY <1>6 DEF AdmissionInv, admissionVars
<1> QED BY <1>1, <1>2, <1>3, <1>4, <1>5, <1>6 DEF AdmissionNext

LEMMA AdmissionInvAlways == AdmissionSpec => []AdmissionInv
<1> QED BY AdmissionInvInit, AdmissionInvStep, PTL DEF AdmissionSpec

-----------------------------------------------------------------------------
(* The Retry-After of the quota: whoever waits it out, and a second more,  *)
(* is past the midnight of the day that was full, and who waits it out     *)
(* exactly is not, whenever midnight passes between the two readings of    *)
(* the clock.                                                              *)
THEOREM RetryAfterIsTheRestOfTheDay == AdmissionSpec => []WaitEndsAtMidnight
<1>1. AdmissionInv => WaitEndsAtMidnight
  <2> SUFFICES ASSUME AdmissionInv, admission.at = "refused"
               PROVE  LET wait == IF admission.retry = Null THEN 0
                                  ELSE admission.retry
                          midnight == MidnightAfter(admission.day)
                      IN  /\ admission.since + (wait + 1) * Second > midnight
                          /\ wait > 0 =>
                               admission.since + wait * Second <= midnight
    BY DEF WaitEndsAtMidnight
  <2> DEFINE midnight == MidnightAfter(admission.day)
             x == midnight - admission.since
             wait == IF admission.retry = Null THEN 0 ELSE admission.retry
  <2>1. /\ Second \in Nat \ {0} /\ Null \notin Int
        /\ admission.since \in Nat /\ admission.day \in Nat
    BY InstantsAssumption DEF AdmissionInv
  <2>2. midnight \in Int
    BY <2>1, AdmissionAssumption DEF MidnightAfter, TicksPerDay
  <2>3. x \in Int
    BY <2>1, <2>2
  <2>4. Truncate(x) \in Int
    BY <2>3, TruncateBounds
  <2>5. admission.retry = RetryAfter(Truncate(x))
    BY DEF AdmissionInv
  <2>6. wait = Truncate(x)
    BY <2>1, <2>4, <2>5 DEF RetryAfter
  <2>7. (wait + 1) * Second > x /\ (wait > 0 => wait * Second <= x)
    BY <2>3, <2>6, TruncateBounds
  <2>8. wait * Second \in Int /\ (wait + 1) * Second \in Int
    BY <2>1, <2>4, <2>6
  <2> HIDE DEF wait
  <2>9. /\ admission.since + (wait + 1) * Second > midnight
        /\ wait > 0 => admission.since + wait * Second <= midnight
    BY <2>1, <2>2, <2>7, <2>8
  <2> QED BY <2>9 DEF wait
<1> QED BY <1>1, AdmissionInvAlways, PTL

-----------------------------------------------------------------------------
(* Catalog, for any models, seeds and edits.                               *)

(* What the table, a run of the script and a request may be.               *)
CatalogTypeOK ==
  /\ llmModels \in [Models -> ModelRows \cup {NoModel}]
  /\ seeds \in [Seeds -> [at : {"idle", "inserting", "done", "failed"},
                          overtaken : BOOLEAN]]
  /\ chat \in [at : {"idle"}] \cup
              [at : {"resolved", "called", "refused"}, model : Models,
               provider : ProviderModels \cup {NoModel},
               catalogue : SUBSET Models]

(* A run of the script that found no row, and that nobody has overtaken,   *)
(* still finds none.                                                       *)
SeedsUpToDate ==
  \A s \in Seeds :
    ~ seeds[s].overtaken =>
      /\ seeds[s].at # "failed"
      /\ seeds[s].at = "inserting" => llmModels[SeededModel] = NoModel

CatalogInv == CatalogTypeOK /\ SeedsUpToDate

-----------------------------------------------------------------------------
(* A model is found by its id exactly when its row is active.              *)
LEMMA FoundIfActive ==
  ASSUME CatalogTypeOK, NEW m \in Models
  PROVE  /\ GetById(m) \in ProviderModels \cup {NoModel}
         /\ Active(m) <=> GetById(m) # NoModel
         /\ Active(m) => /\ llmModels[m] # NoModel
                         /\ llmModels[m].active
                         /\ GetById(m) = llmModels[m].provider
BY CatalogAssumption DEF CatalogTypeOK, GetById, Active, ModelRows

(* What a request is resolved to.                                          *)
LEMMA ResolvedTyped ==
  ASSUME CatalogTypeOK, NEW m \in Models
  PROVE  ResolveModel(m) \in ProviderModels \cup {NoModel}
BY FoundIfActive, CatalogAssumption DEF ResolveModel

LEMMA CatalogInvInit == CatalogInit => CatalogInv
BY DEF CatalogInit, CatalogInv, CatalogTypeOK, SeedsUpToDate

LEMMA CatalogInvStep ==
  CatalogInv /\ [CatalogNext]_catalogVars => CatalogInv'
<1> SUFFICES ASSUME CatalogInv, [CatalogNext]_catalogVars
             PROVE  CatalogInv'
  OBVIOUS
<1> USE DEF CatalogInv
<1>1. CASE AskModel
  <2>1. UNCHANGED <<llmModels, seeds>>
    BY <1>1 DEF AskModel
  <2>2. SeedsUpToDate'
    BY <2>1 DEF SeedsUpToDate
  <2>3. PICK m \in Models :
          chat' = [at |-> IF ResolveModel(m) = NoModel THEN "refused"
                          ELSE "resolved",
                   model |-> m, provider |-> ResolveModel(m),
                   catalogue |-> ListAll]
    BY <1>1 DEF AskModel
  <2>4. ListAll \subseteq Models
    BY DEF ListAll
  <2>5. CatalogTypeOK'
    BY <2>1, <2>3, <2>4, ResolvedTyped DEF CatalogTypeOK
  <2> QED BY <2>2, <2>5
<1>2. CASE CallModel
  <2>1. UNCHANGED <<llmModels, seeds>> /\ chat.at = "resolved"
        /\ chat' = [chat EXCEPT !.at = "called"]
    BY <1>2 DEF CallModel
  <2>2. SeedsUpToDate'
    BY <2>1 DEF SeedsUpToDate
  <2>3. chat' \in [at : {"called"}, model : Models,
                   provider : ProviderModels \cup {NoModel},
                   catalogue : SUBSET Models]
    BY <2>1 DEF CatalogTypeOK
  <2>4. CatalogTypeOK'
    BY <2>1, <2>3 DEF CatalogTypeOK
  <2> QED BY <2>2, <2>4
<1>3. CASE OperatorEdits
  <2>1. PICK m \in Models, row \in ModelRows \cup {NoModel} :
          llmModels' = [llmModels EXCEPT ![m] = row]
    BY <1>3 DEF OperatorEdits
  <2>2. UNCHANGED chat
        /\ seeds' = [s \in Seeds |-> [seeds[s] EXCEPT !.overtaken =
             seeds[s].overtaken \/ llmModels'[SeededModel] # llmModels[SeededModel]]]
    BY <1>3 DEF OperatorEdits
  <2>3. CatalogTypeOK'
    BY <2>1, <2>2 DEF CatalogTypeOK
  <2>4. ASSUME NEW s \in Seeds, ~ seeds'[s].overtaken
        PROVE  /\ ~ seeds[s].overtaken /\ seeds'[s].at = seeds[s].at
               /\ llmModels'[SeededModel] = llmModels[SeededModel]
    BY <2>2, <2>4 DEF CatalogTypeOK
  <2>5. SeedsUpToDate'
    BY <2>4 DEF SeedsUpToDate
  <2> QED BY <2>3, <2>5
<1>4. ASSUME NEW s \in Seeds, SeedSelect(s)
      PROVE  CatalogInv'
  <2>1. /\ UNCHANGED <<llmModels, chat>>
        /\ seeds' = [seeds EXCEPT ![s] =
             [at |-> IF SeedFound THEN "done" ELSE "inserting",
              overtaken |-> FALSE]]
    BY <1>4 DEF SeedSelect
  <2>2. CatalogTypeOK'
    BY <2>1 DEF CatalogTypeOK
  <2>3. SeedsUpToDate'
    BY <2>1 DEF SeedsUpToDate, SeedFound, CatalogTypeOK
  <2> QED BY <2>2, <2>3
<1>5. ASSUME NEW s \in Seeds, SeedCommit(s)
      PROVE  CatalogInv'
  <2>1. UNCHANGED chat /\ seeds[s].at = "inserting"
    BY <1>5 DEF SeedCommit
  <2>2. CASE llmModels[SeededModel] = NoModel
    <3>1. /\ llmModels' = [llmModels EXCEPT ![SeededModel] =
                             ModelRow(SeededModel, TRUE)]
          /\ seeds' = [t \in Seeds |->
               IF t = s THEN [seeds[t] EXCEPT !.at = "done"]
               ELSE [seeds[t] EXCEPT !.overtaken = TRUE]]
      BY <1>5, <2>2 DEF SeedCommit
    <3>2. ModelRow(SeededModel, TRUE) \in ModelRows
      BY CatalogAssumption DEF ModelRow, ModelRows
    <3>3. CatalogTypeOK'
      BY <2>1, <3>1, <3>2 DEF CatalogTypeOK
    <3>4. SeedsUpToDate'
      BY <3>1 DEF SeedsUpToDate, CatalogTypeOK
    <3> QED BY <3>3, <3>4
  <2>3. CASE llmModels[SeededModel] # NoModel
    <3>1. UNCHANGED llmModels /\ seeds' = [seeds EXCEPT ![s].at = "failed"]
      BY <1>5, <2>3 DEF SeedCommit
    <3>2. seeds[s].overtaken
      BY <2>1, <2>3 DEF SeedsUpToDate
    <3>3. CatalogTypeOK'
      BY <2>1, <3>1 DEF CatalogTypeOK
    <3>4. SeedsUpToDate'
      BY <3>1, <3>2 DEF SeedsUpToDate, CatalogTypeOK
    <3> QED BY <3>3, <3>4
  <2> QED BY <2>2, <2>3
<1>6. CASE UNCHANGED catalogVars
  BY <1>6 DEF catalogVars, CatalogTypeOK, SeedsUpToDate
<1> QED BY <1>1, <1>2, <1>3, <1>4, <1>5, <1>6 DEF CatalogNext

LEMMA CatalogInvAlways == CatalogSpec => []CatalogInv
<1> QED BY CatalogInvInit, CatalogInvStep, PTL DEF CatalogSpec

-----------------------------------------------------------------------------
(* The list, the cards and the resolution of models agree in every state   *)
(* of the table and with every setting: no model is listed that a client   *)
(* could not look at or ask for.                                           *)
THEOREM EveryListedModelIsServed == CatalogSpec => []ListedIsServed
<1>1. CatalogInv => ListedIsServed
  <2> SUFFICES ASSUME CatalogInv, NEW m \in ListModels
               PROVE  RetrieveModel(m) # NoModel /\ ResolveModel(m) # NoModel
    BY DEF ListedIsServed
  <2>1. CASE m \in ListAll
    <3>1. m \in Models /\ Active(m)
      BY <2>1 DEF ListAll
    <3>2. GetById(m) # NoModel
      BY <3>1, FoundIfActive DEF CatalogInv
    <3> QED BY <3>2 DEF RetrieveModel, ResolveModel
  <2>2. CASE m \in AllowedModels
    BY <2>2, CatalogAssumption DEF RetrieveModel, ResolveModel
  <2> QED BY <2>1, <2>2 DEF ListModels
<1> QED BY <1>1, CatalogInvAlways, PTL

(* The script fails only on a row that someone changed under it, however   *)
(* many runs of it there are at once.                                      *)
THEOREM SeedsFailOnlyWhenOvertaken == CatalogSpec => []SeedingIsRepeatable
<1>1. CatalogInv => SeedingIsRepeatable
  BY DEF CatalogInv, SeedsUpToDate, SeedingIsRepeatable
<1> QED BY <1>1, CatalogInvAlways, PTL

-----------------------------------------------------------------------------
(* Payload, for any texts, numbers and lengths of lists.                   *)

(* What stands in for the payloads and the answers of a request.           *)
Bodies == Generation \cup Embedding

SentAsValid ==
  sent # None => /\ body \in Bodies
                 /\ Valid(body)
                 /\ sent = SentPayload(body)

RefusedAsInvalid ==
  answer.status = 422 => body \in Bodies /\ ~ Valid(body)

(* A recording that failed, and the two that did not.                      *)
Failed ==
  charged = [status |-> 502, usage |-> NoUsage] /\ answer.status \in {500, 502}

Embedded ==
  /\ body \in Embedding
  /\ \E report \in EmbeddingReports :
       /\ report.vectors # 0
       /\ charged = Recording(report, 200)
       /\ answer = [status |-> 200, report |-> report, usage |-> charged.usage,
                    total |-> TotalOf(charged.usage)]

Generated ==
  /\ body \in Generation
  /\ \E report \in GenerationReports :
       /\ charged = Recording(report, 200)
       /\ answer = [status |-> 200, report |-> report, finish |-> Finish(report),
                    usage |-> charged.usage, total |-> TotalOf(charged.usage)]

ChargedAsAnswered ==
  \/ charged = NotYet /\ (sent = None \/ answer = NotYet)
  \/ sent # None /\ (Failed \/ Embedded \/ Generated)

PayloadInv ==
  /\ body \in Bodies \cup {NoBody}
  /\ body = NoBody => sent = None /\ answer = NotYet
  /\ SentAsValid /\ RefusedAsInvalid /\ ChargedAsAnswered

-----------------------------------------------------------------------------
(* The texts of a list that are not empty, as the fold keeps them.         *)
LEMMA KeptTexts ==
  ASSUME NEW stop, stop # None, NEW n \in Nat,
         stop.texts \in [1..n -> Nat]
  PROVE  \E kept \in Seq(Nat) :
           /\ NormalizeStop(stop) = IF kept = <<>> THEN None ELSE kept
           /\ Len(kept) <= n
           /\ ToSet(kept) = ToSet(stop.texts) \ {0}
<1> DEFINE text == stop.texts
           V == Seq(Nat)
           empty == <<>>
           keep(v, t) == IF t = 0 THEN v ELSE Append(v, t)
           step == [i \in 1..n |-> [v \in V |-> keep(v, text[i])]]
<1>1. DOMAIN text = 1..n /\ \A i \in 1..n : text[i] \in Nat
  OBVIOUS
<1>2. empty \in V
  OBVIOUS
<1>3. \A v \in V, t \in Nat : keep(v, t) \in V
  OBVIOUS
<1>4. /\ step \in [1..n -> [V -> V]]
      /\ \A i \in 1..n : \A v \in V : step[i][v] = keep(v, text[i])
  <2> HIDE DEF text, V, keep
  <2> QED BY <1>1, <1>3
<1>5. PICK f \in [SUBSET (1..n) -> V] : Folds(f, n, V, empty, step)
  <2> HIDE DEF V, empty, step
  <2> QED BY <1>2, <1>4, FoldExists
<1>6. \A T \in SUBSET (1..n) :
        T # {} => Max(T) \in 1..n /\ T \ {Max(T)} \in SUBSET (1..n)
  BY MaxOfInterval
<1> DEFINE Right(g) ==
      g = [T \in SUBSET (1..n) |->
             IF T = {} THEN <<>> ELSE keep(g[T \ {Max(T)}], text[Max(T)])]
<1>7. Right(f)
  <2>1. f[{}] = <<>> /\ f = [T \in SUBSET (1..n) |-> f[T]]
    BY <1>5 DEF Folds
  <2> HIDE DEF text, V, keep, step
  <2>2. \A T \in SUBSET (1..n) :
          T # {} => f[T] = keep(f[T \ {Max(T)}], text[Max(T)])
    BY <1>4, <1>5, <1>6 DEF Folds
  <2> QED BY <2>1, <2>2
<1> DEFINE iter == CHOOSE g : Right(g)
<1>8. Right(iter)
  <2> HIDE DEF Right
  <2> QED BY <1>7
<1>9. NormalizeStop(stop) = IF iter[1..n] = <<>> THEN None ELSE iter[1..n]
  BY <1>1 DEF NormalizeStop, FoldLeft, MapThenFoldSet
<1>10. Folds(iter, n, V, empty, step)
  <2>1. {} \in SUBSET (1..n)
    OBVIOUS
  <2> HIDE DEF text, keep, iter, step, V
  <2>2. /\ iter[{}] = empty
        /\ \A T \in SUBSET (1..n) :
             T # {} => iter[T] = keep(iter[T \ {Max(T)}], text[Max(T)])
    BY <1>8, <2>1
  <2> QED BY <1>4, <1>6, <2>2 DEF Folds
<1>11. PICK kept \in [0..n -> V] :
         Chain(kept, n, empty, step) /\ kept[n] = iter[1..n]
  <2>1. step \in [1..n -> [V -> V]]
    BY <1>4
  <2> HIDE DEF V, empty, step, iter, keep, text
  <2>2. PICK kept : FoldedUp(kept, n, V, empty, step, iter[1..n])
    BY <1>2, <1>10, <2>1, FoldIsChain
  <2> QED BY <2>2 DEF FoldedUp
<1> HIDE DEF iter, step
<1> DEFINE S == {i \in Nat : i <= n =>
                   /\ Len(kept[i]) <= i
                   /\ ToSet(kept[i]) = {text[j] : j \in 1..i} \ {0}}
<1>12. \A i \in Nat : i \in S
  <2>1. 0 \in S
    <3>1. kept[0] = <<>>
      BY <1>11 DEF Chain
    <3>2. Len(<<>>) = 0 /\ ToSet(<<>>) = {} /\ 1..0 = {}
      BY DEF ToSet
    <3> QED BY <3>1, <3>2
  <2>2. ASSUME NEW i \in Nat, i \in S
        PROVE  i + 1 \in S
    <3> SUFFICES ASSUME i + 1 <= n
                 PROVE  /\ Len(kept[i + 1]) <= i + 1
                        /\ ToSet(kept[i + 1]) =
                             {text[j] : j \in 1..(i + 1)} \ {0}
      OBVIOUS
    <3> DEFINE v == kept[i]
               t == text[i + 1]
    <3>1. /\ i + 1 \in 1..n /\ v \in Seq(Nat) /\ t \in Nat
          /\ Len(v) <= i /\ ToSet(v) = {text[j] : j \in 1..i} \ {0}
      <4>1. v \in Seq(Nat) /\ t \in Nat
        BY <1>1, <1>11
      <4>2. Len(v) <= i /\ ToSet(v) = {text[j] : j \in 1..i} \ {0}
        <5> HIDE DEF text
        <5> QED BY <2>2
      <4> QED BY <4>1, <4>2
    <3>2. kept[i + 1] = keep(v, t)
      <4>1. i + 1 \in 1..n /\ (i + 1) - 1 = i
        BY <3>1
      <4> HIDE DEF keep, step
      <4> QED BY <1>4, <1>11, <3>1, <4>1 DEF Chain
    <3>3. {text[j] : j \in 1..(i + 1)} = {text[j] : j \in 1..i} \cup {t}
      <4>1. 1..(i + 1) = (1..i) \cup {i + 1}
        OBVIOUS
      <4> QED BY <4>1
    <3>4. CASE t = 0
      BY <3>1, <3>2, <3>3, <3>4
    <3>5. CASE t # 0
      <4>1. kept[i + 1] = Append(v, t)
        BY <3>2, <3>5
      <4> DEFINE Before == {text[j] : j \in 1..i}
                 After == {text[j] : j \in 1..(i + 1)}
      <4> HIDE DEF v, t, Before, After, text
      <4>2. Len(Append(v, t)) = Len(v) + 1 /\ ToSet(Append(v, t)) = ToSet(v) \cup {t}
        <5>1. /\ Len(Append(v, t)) = Len(v) + 1
              /\ \A j \in 1..Len(v) : Append(v, t)[j] = v[j]
              /\ Append(v, t)[Len(v) + 1] = t
              /\ DOMAIN Append(v, t) = 1..(Len(v) + 1)
              /\ DOMAIN v = 1..Len(v) /\ Len(v) \in Nat
          BY <3>1
        <5>2. 1..(Len(v) + 1) = (1..Len(v)) \cup {Len(v) + 1}
          BY <5>1
        <5> QED BY <5>1, <5>2 DEF ToSet
      <4>3. Len(v) \in Nat
        BY <3>1
      <4>4. ToSet(v) = Before \ {0} /\ After = Before \cup {t} /\ t # 0
        BY <3>1, <3>3, <3>5 DEF Before, After
      <4>5. ToSet(kept[i + 1]) = After \ {0}
        BY <4>1, <4>2, <4>4
      <4>6. Len(kept[i + 1]) <= i + 1
        BY <3>1, <4>1, <4>2, <4>3
      <4> QED BY <4>5, <4>6 DEF After
    <3> QED BY <3>1, <3>4, <3>5
  <2> HIDE DEF S
  <2> QED BY <2>1, <2>2, SetInduction
<1>13. /\ kept[n] \in Seq(Nat) /\ Len(kept[n]) <= n
       /\ ToSet(kept[n]) = ToSet(text) \ {0}
  <2>1. ToSet(text) = {text[j] : j \in 1..n}
    BY <1>1 DEF ToSet
  <2>2. kept[n] \in Seq(Nat)
    BY <1>11
  <2>3. n \in S
    <3> HIDE DEF S
    <3> QED BY <1>12
  <2> HIDE DEF text
  <2> QED BY <2>1, <2>2, <2>3
<1> QED BY <1>9, <1>11, <1>13

-----------------------------------------------------------------------------
(* The fields of a body are what the checks expect.                        *)
LEMMA BodyTyped ==
  /\ \A b \in Embedding : b.endpoint = "embeddings"
  /\ \A b \in Generation :
       /\ b.endpoint \in {"chat", "completions"}
       /\ b.n \in {None, 0, 1, 2}
       /\ b.options \in [DOMAIN Bounds -> Int \cup {None}]
       /\ b.stop # None =>
            \E n \in 0..(MaxStop + 1) :
              /\ b.stop.texts \in [1..n -> Nat]
              /\ Len(b.stop.texts) = n
              /\ ~ b.stop.list => n = 1
<1>1. \A b \in Embedding : b.endpoint = "embeddings"
  BY DEF Embedding
<1>2. ASSUME NEW stop \in TextOrList(MaxStop + 1)
      PROVE  \E n \in 0..(MaxStop + 1) :
               /\ stop.texts \in [1..n -> Nat]
               /\ Len(stop.texts) = n
               /\ ~ stop.list => n = 1
  <2>1. PICK n \in 0..(MaxStop + 1) :
          /\ stop.texts \in [1..n -> Texts]
          /\ ~ stop.list => n = 1
    <3>1. CASE stop \in [list : {FALSE}, texts : [1..1 -> Texts]]
      <4>1. 1 \in 0..(MaxStop + 1)
        BY PayloadAssumption
      <4>2. stop.texts \in [1..1 -> Texts]
        BY <3>1
      <4> QED BY <4>1, <4>2
    <3>2. CASE stop \in [list : {TRUE},
                         texts : UNION {[1..n -> Texts] : n \in 0..(MaxStop + 1)}]
      BY <3>2
    <3> QED BY <3>1, <3>2 DEF TextOrList
  <2>2. stop.texts \in [1..n -> Nat] /\ n \in Nat
    <3>1. n \in Nat
      BY PayloadAssumption
    <3>2. stop.texts \in [1..n -> Texts] /\ Texts \subseteq Nat
      BY <2>1, PayloadAssumption
    <3> QED BY <3>1, <3>2
  <2>3. Len(stop.texts) = n
    BY <2>2
  <2> QED BY <2>1, <2>2, <2>3
<1>3. ASSUME NEW b \in Generation
      PROVE  /\ b.endpoint \in {"chat", "completions"}
             /\ b.n \in {None, 0, 1, 2}
             /\ b.options \in [DOMAIN Bounds -> Int \cup {None}]
             /\ b.stop \in {None} \cup TextOrList(MaxStop + 1)
  BY PayloadAssumption DEF Generation
<1> QED BY <1>1, <1>2, <1>3

(* What an invalid generation is refused for.                              *)
LEMMA InvalidGeneration ==
  ASSUME NEW b \in Generation, ~ GenerationValid(b)
  PROVE  \/ b.n = 0
         \/ \E field \in DOMAIN Bounds :
              b.options[field] \notin Bounds[field] \cup {None}
         \/ b.stop # None /\ b.stop.list /\ Len(b.stop.texts) > MaxStop
<1>1. CASE b.n # None /\ ~ (b.n >= 1)
  BY <1>1, BodyTyped
<1>2. CASE \E field \in DOMAIN Bounds :
             b.options[field] # None /\ b.options[field] \notin Bounds[field]
  BY <1>2
<1>3. CASE ~ StopValid(b.stop)
  <2>1. b.stop # None /\ b.stop.list /\ ~ (Len(b.stop.texts) <= MaxStop)
    BY <1>3 DEF StopValid
  <2>2. Len(b.stop.texts) \in Nat
    BY <2>1, BodyTyped, PayloadAssumption
  <2> QED BY <2>1, <2>2, PayloadAssumption
<1> QED BY <1>1, <1>2, <1>3 DEF GenerationValid

(* The numeric options, under the names of Ollama.                         *)
LEMMA FieldOfOption ==
  /\ "stop" \notin OllamaOptions
  /\ \A o \in OllamaOptions : Field(o) \in DOMAIN Bounds
BY DEF OllamaOptions, Field, Bounds

(* The options of a valid one: an option that was given is there, and a    *)
(* text too, unless it is empty.                                           *)
LEMMA ValidOptions ==
  ASSUME NEW b \in Generation, GenerationValid(b),
         NEW options, options = BuildOptions(b.options, NormalizeStop(b.stop))
  PROVE  /\ \A o \in OllamaOptions :
              IF b.options[Field(o)] = None THEN o \notin DOMAIN options
              ELSE /\ o \in DOMAIN options
                   /\ options[o] = b.options[Field(o)]
                   /\ options[o] \in Bounds[Field(o)]
         /\ IF "stop" \in DOMAIN options
            THEN /\ Len(options.stop) \in 1..MaxStop
                 /\ ToSet(options.stop) = ToSet(b.stop.texts) \ {0}
            ELSE b.stop = None \/ ToSet(b.stop.texts) \subseteq {0}
<1> DEFINE stop == NormalizeStop(b.stop)
           Given == {x \in OllamaOptions : b.options[Field(x)] # None}
           Stops == {x \in {"stop"} : stop # None}
           value(o) == IF o = "stop" THEN stop ELSE b.options[Field(o)]
<1>1. options = [o \in Given \cup Stops |-> value(o)]
  BY DEF BuildOptions
<1>2. ASSUME NEW o \in OllamaOptions
      PROVE  IF b.options[Field(o)] = None THEN o \notin DOMAIN options
             ELSE /\ o \in DOMAIN options
                  /\ options[o] = b.options[Field(o)]
                  /\ options[o] \in Bounds[Field(o)]
  <2>1. o # "stop" /\ Field(o) \in DOMAIN Bounds
    BY FieldOfOption
  <2>2. o \in Given \cup Stops <=> b.options[Field(o)] # None
    BY <2>1
  <2>3. value(o) = b.options[Field(o)]
    BY <2>1
  <2>4. b.options[Field(o)] # None => b.options[Field(o)] \in Bounds[Field(o)]
    BY <2>1 DEF GenerationValid
  <2> HIDE DEF Given, Stops, value
  <2>5. DOMAIN options = Given \cup Stops
    BY <1>1
  <2>6. o \in DOMAIN options => options[o] = value(o)
    BY <1>1
  <2> QED BY <2>2, <2>3, <2>4, <2>5, <2>6
<1>3. /\ "stop" \in DOMAIN options <=> stop # None
      /\ stop # None => options.stop = stop
  <2>1. "stop" \in Given \cup Stops <=> stop # None
    BY FieldOfOption
  <2>2. value("stop") = stop
    OBVIOUS
  <2> HIDE DEF Given, Stops, value, stop
  <2>3. DOMAIN options = Given \cup Stops
    BY <1>1
  <2>4. "stop" \in DOMAIN options => options["stop"] = value("stop")
    BY <1>1
  <2> QED BY <2>1, <2>2, <2>3, <2>4
<1> HIDE DEF value, Given, Stops
<1>4. IF "stop" \in DOMAIN options
      THEN /\ Len(options.stop) \in 1..MaxStop
           /\ ToSet(options.stop) = ToSet(b.stop.texts) \ {0}
      ELSE b.stop = None \/ ToSet(b.stop.texts) \subseteq {0}
  <2>1. CASE b.stop = None
    <3>1. stop = None
      BY <2>1 DEF NormalizeStop
    <3> HIDE DEF stop
    <3> QED BY <1>3, <2>1, <3>1
  <2>2. CASE b.stop # None
    <3>1. PICK n \in 0..(MaxStop + 1) :
            /\ b.stop.texts \in [1..n -> Nat]
            /\ Len(b.stop.texts) = n
            /\ ~ b.stop.list => n = 1
      BY <2>2, BodyTyped
    <3>2. n \in Nat /\ n <= MaxStop /\ MaxStop \in Nat
      BY <2>2, <3>1, PayloadAssumption DEF GenerationValid, StopValid
    <3>3. PICK kept \in Seq(Nat) :
            /\ stop = IF kept = <<>> THEN None ELSE kept
            /\ Len(kept) <= n
            /\ ToSet(kept) = ToSet(b.stop.texts) \ {0}
      BY <2>2, <3>1, <3>2, KeptTexts
    <3> HIDE DEF stop
    <3>4. CASE kept = <<>>
      <4>1. ToSet(kept) = {}
        BY <3>4 DEF ToSet
      <4>2. ToSet(b.stop.texts) \subseteq {0}
        BY <3>3, <4>1
      <4> QED BY <1>3, <3>3, <3>4, <4>2
    <3>5. CASE kept # <<>>
      <4>1. stop = kept /\ stop # None
        BY <3>3, <3>5, PayloadAssumption
      <4>2. Len(kept) \in 1..MaxStop
        BY <3>2, <3>3, <3>5
      <4> QED BY <1>3, <3>3, <4>1, <4>2
    <3> QED BY <3>4, <3>5
  <2> QED BY <2>1, <2>2
<1> QED BY <1>2, <1>4

-----------------------------------------------------------------------------
(* One step of a request at a time.                                       *)
LEMMA PayloadInvInit == PayloadInit => PayloadInv
BY PayloadAssumption
   DEF PayloadInit, PayloadInv, SentAsValid, RefusedAsInvalid,
       ChargedAsAnswered, NotYet

LEMMA PayloadInvStep == PayloadInv /\ [PayloadNext]_payloadVars => PayloadInv'
<1> SUFFICES ASSUME PayloadInv, [PayloadNext]_payloadVars PROVE PayloadInv'
  OBVIOUS
<1> USE DEF PayloadInv
<1>a. NotYet.status # 422 /\ NotYet.status # 502 /\ NotYet.status # 200
  BY PayloadAssumption DEF NotYet
<1>b. answer = NotYet => charged = NotYet
  <2>1. NotYet.status \notin Int
    BY PayloadAssumption DEF NotYet
  <2>2. Failed \/ Embedded \/ Generated => answer.status \in Int
    BY DEF Failed, Embedded, Generated
  <2> QED BY <2>1, <2>2 DEF ChargedAsAnswered
<1>1. CASE Receive
  <2>1. /\ body' \in Bodies
        /\ sent' = None /\ charged' = charged /\ answer' = NotYet
    BY <1>1 DEF Receive, Bodies
  <2>2. charged = NotYet
    BY <1>1, <1>b DEF Receive
  <2> QED BY <1>a, <2>1, <2>2
          DEF SentAsValid, RefusedAsInvalid, ChargedAsAnswered
<1>2. CASE RefuseBody
  <2>1. /\ body' = body /\ sent' = sent /\ sent = None /\ body \in Bodies
        /\ charged' = charged /\ charged = NotYet
    BY <1>2, <1>b DEF RefuseBody
  <2>2. SentAsValid' /\ ChargedAsAnswered'
    BY <2>1 DEF SentAsValid, ChargedAsAnswered
  <2>3. RefusedAsInvalid'
    BY <1>2, <2>1 DEF RefuseBody, RefusedAsInvalid
  <2> QED BY <1>2, <2>1, <2>2, <2>3 DEF RefuseBody
<1>3. CASE Send
  <2>1. /\ body \in Bodies /\ body' = body /\ body # NoBody
        /\ charged' = charged /\ answer' = NotYet /\ Valid(body)
        /\ sent' = SentPayload(body) /\ charged = NotYet
    BY <1>3, <1>b DEF Send
  <2>2. SentAsValid'
    BY <2>1 DEF SentAsValid
  <2> QED BY <1>a, <2>1, <2>2 DEF RefusedAsInvalid, ChargedAsAnswered
<1>4. CASE ModelReports
  <2>1. /\ body' = body /\ sent' = sent /\ sent # None
        /\ body \in Bodies /\ body # NoBody
    BY <1>4 DEF ModelReports, SentAsValid
  <2>2. SentAsValid'
    BY <2>1 DEF SentAsValid
  <2>3. (Failed \/ Embedded \/ Generated)'
    <3>1. CASE body.endpoint = "embeddings"
      <4>1. body' \in Embedding /\ ReportEmbedding
        BY <1>4, <2>1, <3>1, BodyTyped DEF Bodies, ModelReports
      <4>2. PICK report \in EmbeddingReports :
              IF report.vectors = 0
              THEN /\ charged' = Recording(report, 502)
                   /\ answer' = [status |-> 502, report |-> report]
              ELSE /\ charged' = Recording(report, 200)
                   /\ answer' = [status |-> 200, report |-> report,
                                 usage |-> charged'.usage,
                                 total |-> TotalOf(charged'.usage)]
        BY <4>1 DEF ReportEmbedding
      <4>3. CASE report.vectors = 0
        BY <4>2, <4>3 DEF Failed, Recording
      <4>4. CASE report.vectors # 0
        BY <4>1, <4>2, <4>4 DEF Embedded
      <4> QED BY <4>3, <4>4
    <3>2. CASE body.endpoint # "embeddings"
      <4>1. body' \in Generation /\ ReportGeneration
        BY <1>4, <2>1, <3>2, BodyTyped DEF Bodies, ModelReports
      <4> QED BY <4>1 DEF ReportGeneration, Generated
    <3> QED BY <3>1, <3>2
  <2>4. answer'.status # 422
    BY <2>3 DEF Failed, Embedded, Generated
  <2> QED BY <2>1, <2>2, <2>3, <2>4 DEF RefusedAsInvalid, ChargedAsAnswered
<1>5. CASE ModelFails
  <2>1. /\ body' = body /\ sent' = sent /\ sent # None /\ body # NoBody
        /\ answer'.status \in {500, 502} /\ Failed'
    BY <1>5 DEF ModelFails, Failed
  <2> QED BY <2>1 DEF SentAsValid, RefusedAsInvalid, ChargedAsAnswered
<1>6. CASE NextBody
  BY <1>6, <1>a DEF NextBody, SentAsValid, RefusedAsInvalid, ChargedAsAnswered
<1>7. CASE UNCHANGED payloadVars
  BY <1>7 DEF payloadVars, SentAsValid, RefusedAsInvalid, ChargedAsAnswered,
              Failed, Embedded, Generated
<1> QED BY <1>1, <1>2, <1>3, <1>4, <1>5, <1>6, <1>7 DEF PayloadNext

(* PayloadInv is an invariant.                                            *)
LEMMA PayloadInvariant == PayloadSpec => []PayloadInv
BY PayloadInvInit, PayloadInvStep, PTL DEF PayloadSpec

(* For every body of the set that a client may send, whatever its texts,   *)
(* its numbers and their bounds: what goes to Ollama is what was asked for,*)
(* within what the schema admits, and a 422 has its reason.                *)
THEOREM OptionsGoAsAsked == PayloadSpec => []OptionsAsAsked
<1>1. PayloadInv => OptionsAsAsked
  <2> SUFFICES ASSUME PayloadInv PROVE OptionsAsAsked
    OBVIOUS
  <2>1. ASSUME sent # None, body.endpoint # "embeddings"
        PROVE  /\ body \in Generation /\ GenerationValid(body)
               /\ sent.options =
                    BuildOptions(body.options, NormalizeStop(body.stop))
    <3>1. body \in Bodies /\ Valid(body) /\ sent = SentPayload(body)
      BY <2>1 DEF PayloadInv, SentAsValid
    <3>2. body \in Generation
      BY <2>1, <3>1, BodyTyped DEF Bodies
    <3> QED BY <2>1, <3>1, <3>2 DEF Valid, SentPayload
  <2>2. ASSUME body.endpoint # "embeddings", answer.status = 422
        PROVE  body \in Generation /\ ~ GenerationValid(body)
    <3>1. body \in Bodies /\ ~ Valid(body)
      BY <2>2 DEF PayloadInv, RefusedAsInvalid
    <3> QED BY <2>2, <3>1, BodyTyped DEF Bodies, Valid
  <2> QED BY <2>1, <2>2, ValidOptions, InvalidGeneration DEF OptionsAsAsked
<1> QED BY <1>1, PayloadInvariant, PTL

(* Whatever the model reports, zero or nothing: what the client is told is *)
(* what it is charged, and what failed is charged nothing.                 *)
THEOREM AnswersAsReported == PayloadSpec => []AnswerAsReported
<1>1. PayloadInv => AnswerAsReported
  <2> SUFFICES ASSUME PayloadInv PROVE AnswerAsReported
    OBVIOUS
  <2>a. NotYet.status = None /\ None \notin Int
    BY PayloadAssumption DEF NotYet
  <2>1. CASE charged = NotYet /\ (sent = None \/ answer = NotYet)
    BY <2>1 DEF AnswerAsReported
  <2>2. CASE sent # None /\ Failed
    <3>1. charged.status = 502 /\ TotalOf(charged.usage) = 0
      BY <2>2 DEF Failed, NoUsage, TotalOf
    <3>2. charged # NotYet /\ answer # NotYet /\ answer.status # 200
      BY <2>2, <2>a, <3>1 DEF Failed
    <3> QED BY <2>2, <3>1, <3>2 DEF AnswerAsReported
  <2>3. CASE sent # None /\ Embedded
    <3>1. PICK report \in EmbeddingReports :
            /\ report.vectors # 0
            /\ charged = Recording(report, 200)
            /\ answer = [status |-> 200, report |-> report,
                         usage |-> charged.usage,
                         total |-> TotalOf(charged.usage)]
      BY <2>3 DEF Embedded
    <3>2. body.endpoint = "embeddings" /\ report.vectors \in Nat
      BY <2>3, BodyTyped, PayloadAssumption DEF Embedded, EmbeddingReports
    <3>3. /\ charged.status = 200 /\ charged.usage = Usage(report)
          /\ answer.status = 200 /\ answer.usage = charged.usage
          /\ answer.report = report
          /\ answer.total = TotalOf(charged.usage)
      BY <3>1 DEF Recording
    <3>4. "eval" \notin DOMAIN report
      BY DEF EmbeddingReports
    <3>5. /\ charged.usage.completion = 0
          /\ report.prompt # None => charged.usage.prompt = report.prompt
      BY <3>3, <3>4 DEF Usage, OrZero
    <3>6. charged # NotYet /\ answer # NotYet
      BY <2>a, <3>3
    <3> QED BY <2>3, <3>1, <3>2, <3>3, <3>5, <3>6 DEF AnswerAsReported, TotalOf
  <2>4. CASE sent # None /\ Generated
    <3>1. PICK report \in GenerationReports :
            /\ charged = Recording(report, 200)
            /\ answer = [status |-> 200, report |-> report,
                         finish |-> Finish(report), usage |-> charged.usage,
                         total |-> TotalOf(charged.usage)]
      BY <2>4 DEF Generated
    <3>2. body.endpoint # "embeddings"
      BY <2>4, BodyTyped DEF Generated
    <3>3. /\ charged.status = 200 /\ charged.usage = Usage(report)
          /\ answer.status = 200 /\ answer.usage = charged.usage
          /\ answer.report = report /\ answer.finish = Finish(report)
          /\ answer.total = TotalOf(charged.usage)
      BY <3>1 DEF Recording
    <3>4. "eval" \in DOMAIN report
      BY DEF GenerationReports
    <3>5. /\ report.prompt # None => charged.usage.prompt = report.prompt
          /\ report.eval # None => charged.usage.completion = report.eval
      BY <3>3, <3>4 DEF Usage, OrZero
    <3>6. charged # NotYet /\ answer # NotYet
      BY <2>a, <3>3
    <3>7. answer.finish = "length" <=> report.done = "length"
      BY <3>3 DEF Finish
    <3> QED BY <2>4, <3>2, <3>3, <3>5, <3>6, <3>7 DEF AnswerAsReported, TotalOf
  <2> QED BY <2>1, <2>2, <2>3, <2>4 DEF PayloadInv, ChargedAsAnswered
<1> QED BY <1>1, PayloadInvariant, PTL

=============================================================================
