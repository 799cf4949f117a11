------------------------ MODULE NodeLifecycleProofs ------------------------
(***************************************************************************)
(* Theorems about NodeLifecycle and the service check inside it, for every *)
(* set of models, every assignment of providers and every list of models.  *)
(***************************************************************************)
EXTENDS NodeLifecycle, ModelMatchingProofs

(***************************************************************************)
(* Subsequences.                                                           *)
(***************************************************************************)

\* s is taken, in order, from the first n elements of t.
Embeds(s, t, n) ==
    \E f \in [1 .. Len(s) -> 1 .. n] :
        /\ \A i, j \in 1 .. Len(s) : i < j => f[i] < f[j]
        /\ \A i \in 1 .. Len(s) : s[i] = t[f[i]]

\* Nothing is taken from nothing.
LEMMA EmbedsEmpty ==
    ASSUME NEW t, NEW n \in Nat
    PROVE  Embeds(<<>>, t, n)
<1> DEFINE f == [i \in {} |-> 1]
<1>1. 1 .. Len(<<>>) = {}
  OBVIOUS
<1>2. f \in [{} -> 1 .. n]
  OBVIOUS
<1> HIDE DEF f
<1> QED
  BY <1>1, <1>2 DEF Embeds

\* One element of t further, which is taken or not.
LEMMA EmbedsNext ==
    ASSUME NEW S, NEW s \in Seq(S), NEW t \in Seq(S), NEW n \in Nat, n < Len(t),
           Embeds(s, t, n)
    PROVE  Embeds(s, t, n + 1) /\ Embeds(Append(s, t[n + 1]), t, n + 1)
<1>1. Len(s) \in Nat
  BY LenProperties
<1>2. PICK f \in [1 .. Len(s) -> 1 .. n] :
        /\ \A i, j \in 1 .. Len(s) : i < j => f[i] < f[j]
        /\ \A i \in 1 .. Len(s) : s[i] = t[f[i]]
  BY DEF Embeds
<1>3. Embeds(s, t, n + 1)
  <2>1. f \in [1 .. Len(s) -> 1 .. n + 1]
    BY <1>2
  <2> QED
    BY <1>2, <2>1 DEF Embeds
<1>4. Embeds(Append(s, t[n + 1]), t, n + 1)
  <2> DEFINE u == Append(s, t[n + 1])
             g == [i \in 1 .. Len(s) + 1 |-> IF i = Len(s) + 1 THEN n + 1 ELSE f[i]]
  <2>1. t[n + 1] \in S
    BY LenProperties, ElementOfSeq
  <2>2. /\ Len(u) = Len(s) + 1 /\ u[Len(s) + 1] = t[n + 1]
        /\ \A i \in 1 .. Len(s) : u[i] = s[i]
    BY <2>1, AppendProperties
  <2>3. g \in [1 .. Len(s) + 1 -> 1 .. n + 1]
    BY <1>1, <1>2
  <2>4. /\ g[Len(s) + 1] = n + 1
        /\ \A i \in 1 .. Len(s) : g[i] = f[i] /\ f[i] < n + 1
    BY <1>1, <1>2, SMTT(30)
  <2> HIDE DEF u, g
  <2>5. \A i, j \in 1 .. Len(u) : i < j => g[i] < g[j]
    <3>1. TAKE i \in 1 .. Len(u), j \in 1 .. Len(u)
    <3>2. HAVE i < j
    <3>3. i \in 1 .. Len(s)
      BY <1>1, <2>2, <3>2
    <3>4. CASE j = Len(s) + 1
      BY <2>4, <3>3, <3>4
    <3>5. CASE j \in 1 .. Len(s)
      BY <1>2, <2>4, <3>2, <3>3, <3>5
    <3> QED
      BY <1>1, <2>2, <3>4, <3>5
  <2>6. \A i \in 1 .. Len(u) : u[i] = t[g[i]]
    <3>1. TAKE i \in 1 .. Len(u)
    <3>2. CASE i = Len(s) + 1
      BY <2>2, <2>4, <3>2
    <3>3. CASE i \in 1 .. Len(s)
      BY <1>2, <2>2, <2>4, <3>3
    <3> QED
      BY <1>1, <2>2, <3>2, <3>3
  <2>7. Embeds(u, t, n + 1)
    BY <2>2, <2>3, <2>5, <2>6 DEF Embeds
  <2> QED
    BY <2>7 DEF u
<1> QED
  BY <1>3, <1>4

\* What is taken from n elements has no more than n.
LEMMA EmbedsLen ==
    ASSUME NEW S, NEW s \in Seq(S), NEW t, NEW n \in Nat, Embeds(s, t, n)
    PROVE  Len(s) <= n
<1>1. Len(s) \in Nat
  BY LenProperties
<1>2. PICK f \in [1 .. Len(s) -> 1 .. n] : \A i, j \in 1 .. Len(s) : i < j => f[i] < f[j]
  BY DEF Embeds
<1> DEFINE T == {k \in Nat : k \in 1 .. Len(s) => k <= f[k]}
<1>3. 0 \in T
  OBVIOUS
<1>4. ASSUME NEW k \in T
      PROVE  k + 1 \in T
  <2>1. SUFFICES ASSUME k + 1 \in 1 .. Len(s) PROVE k + 1 <= f[k + 1]
    OBVIOUS
  <2>2. f[k + 1] \in 1 .. n
    BY <1>2, <2>1
  <2>3. CASE k = 0
    BY <2>2, <2>3
  <2>4. CASE k # 0
    <3>1. k \in 1 .. Len(s) /\ k < k + 1
      BY <1>1, <2>1, <2>4
    <3>2. k <= f[k] /\ f[k] < f[k + 1] /\ f[k] \in 1 .. n
      BY <1>2, <2>1, <3>1
    <3> QED
      BY <2>2, <3>2
  <2> QED
    BY <2>3, <2>4
<1>5. T = Nat
  <2> HIDE DEF T
  <2>1. T \subseteq Nat
    BY DEF T
  <2> QED
    BY <1>3, <1>4, <2>1, InductionOnNat
<1>6. CASE Len(s) = 0
  BY <1>6
<1>7. CASE Len(s) # 0
  <2>1. Len(s) \in 1 .. Len(s)
    BY <1>1, <1>7
  <2>2. Len(s) <= f[Len(s)] /\ f[Len(s)] \in 1 .. n
    BY <1>1, <1>2, <1>5, <2>1
  <2> QED
    BY <1>1, <2>2
<1> QED
  BY <1>6, <1>7

\* What is taken from a part of t is a subsequence of t.
LEMMA EmbedsIsSubsequence ==
    ASSUME NEW S, NEW s \in Seq(S), NEW t \in Seq(S), NEW n \in Nat, n <= Len(t),
           Embeds(s, t, n)
    PROVE  IsSubsequence(s, t)
<1>1. DOMAIN s = 1 .. Len(s) /\ DOMAIN t = 1 .. Len(t) /\ Len(t) \in Nat
  BY LenProperties
<1>2. PICK f \in [1 .. Len(s) -> 1 .. n] :
        /\ \A i, j \in 1 .. Len(s) : i < j => f[i] < f[j]
        /\ \A i \in 1 .. Len(s) : s[i] = t[f[i]]
  BY DEF Embeds
<1>3. f \in [DOMAIN s -> DOMAIN t]
  BY <1>1, <1>2
<1> QED
  BY <1>1, <1>2, <1>3 DEF IsSubsequence

\* The elements of a sequence with one put before it.
LEMMA PrependIs ==
    ASSUME NEW S, NEW a \in S, NEW s \in Seq(S)
    PROVE  /\ <<a>> \o s \in Seq(S) /\ <<a>> \o s # <<>>
           /\ Head(<<a>> \o s) = a /\ Tail(<<a>> \o s) = s
<1> DEFINE h == <<a>>
           u == h \o s
<1>1. h \in Seq(S) /\ Len(h) = 1 /\ h[1] = a
  OBVIOUS
<1>2. Len(s) \in Nat
  BY LenProperties
<1> HIDE DEF h
<1>3. /\ u \in Seq(S) /\ Len(u) = Len(h) + Len(s)
      /\ \A i \in 1 .. Len(h) + Len(s) :
             u[i] = IF i <= Len(h) THEN h[i] ELSE s[i - Len(h)]
  BY <1>1, ConcatProperties
<1> HIDE DEF u
<1>4. u # <<>> /\ u[1] = a
  BY <1>1, <1>2, <1>3
<1>5. /\ Tail(u) \in Seq(S) /\ Len(Tail(u)) = Len(s)
      /\ \A i \in 1 .. Len(s) : Tail(u)[i] = u[i + 1]
  <2>1. /\ Tail(u) \in Seq(S) /\ Len(Tail(u)) = Len(u) - 1
        /\ \A i \in 1 .. Len(Tail(u)) : Tail(u)[i] = u[i + 1]
    BY <1>3, <1>4, HeadTailProperties
  <2> QED
    BY <1>1, <1>2, <1>3, <2>1
<1>6. \A i \in 1 .. Len(s) : Tail(u)[i] = s[i]
  BY <1>1, <1>2, <1>3, <1>5
<1>7. Tail(u) = s
  BY <1>5, <1>6, SeqEqual
<1>8. Head(u) = u[1]
  BY <1>3, <1>4
<1> QED
  BY <1>3, <1>4, <1>7, <1>8 DEF u, h


(***************************************************************************)
(* The service check.                                                      *)
(***************************************************************************)

\* The providers whose turn is still to come at each stage.
Ahead(s) ==
    CASE s \in {"idle", "serper", "jina"} -> Providers
      [] s = "ollama"                     -> {"openai", "gemini", "openrouter"}
      [] s = "openai"                     -> {"gemini", "openrouter"}
      [] s = "gemini"                     -> {"openrouter"}
      [] OTHER                            -> {}

\* The next stage is another one, and the providers it leaves ahead were ahead.
LEMMA AfterStage ==
    ASSUME NEW s \in {"idle"} \cup SearchAPIs \cup Providers
    PROVE  /\ After[s] \in Stages \ {"idle", "done", "failed"}
           /\ Ahead(After[s]) \cup ({After[s]} \cap Providers) = Ahead(s)
<1>1. s \in {"idle", "serper", "jina", "ollama", "openai", "gemini", "openrouter"}
  BY DEF SearchAPIs, Providers
<1>2. CASE s = "idle"
  BY <1>2 DEF After, Stages, Ahead, Providers
<1>3. CASE s = "serper"
  BY <1>3 DEF After, Stages, Ahead, Providers
<1>4. CASE s = "jina"
  BY <1>4 DEF After, Stages, Ahead, Providers
<1>5. CASE s = "ollama"
  BY <1>5 DEF After, Stages, Ahead, Providers
<1>6. CASE s = "openai"
  BY <1>6 DEF After, Stages, Ahead, Providers
<1>7. CASE s = "gemini"
  BY <1>7 DEF After, Stages, Ahead, Providers
<1>8. CASE s = "openrouter"
  BY <1>8 DEF After, Stages, Ahead, Providers
<1> QED
  BY <1>1, <1>2, <1>3, <1>4, <1>5, <1>6, <1>7, <1>8

\* The check is not over.
Underway == stage \notin {"done", "failed"}

\* A provider's loop over its models runs.
Looping == call \notin {"none", "search", "list", "fetch"}

\* Which request can be waited for where, and for which model.
Calling ==
    /\ stage \in Stages /\ call \in Calls
    /\ call # "none" => stage \in SearchAPIs \cup Providers
    /\ call = "search" => stage \in SearchAPIs
    /\ call \notin {"none", "search"} => stage \in Providers
    /\ todo \in Seq(Model \cup {Hardcoded}) /\ listed \subseteq Model \cup {Hardcoded}
    /\ call \in {"pull", "embed", "generate", "dummy"} => todo # <<>>
    /\ call \in {"embed", "generate"} => Head(todo) # Hardcoded
    /\ call = "dummy" => stage # "ollama"

\* The loop of a provider with these models is through with the first n of them.
ThroughWith(wanted, n) ==
    /\ Len(todo) = Len(wanted) - n
    /\ \A j \in 1 .. Len(todo) : todo[j] = wanted[n + j]

\* It is at the model that every node needs.
AtHardcoded(wanted) ==
    stage = "ollama" /\ todo # <<>> /\ Head(todo) = Hardcoded /\ Tail(todo) = wanted

\* Of a provider's models, the good ones are taken, in order, from those its loop is
\* through with: none before its turn, any after it.
Progress(p) ==
    LET wanted == ModelsFor(models, p)
    IN  \E n \in 0 .. Len(wanted) :
          /\ Embeds(ModelsFor(good, p), wanted, n)
          /\ p \in Ahead(stage) \/ (stage = p /\ ~Looping) => n = 0
          /\ stage = p /\ Looping => ThroughWith(wanted, n) \/ (n = 0 /\ AtHardcoded(wanted))

\* A provider whose turn is over has no model its loop was not done with, and one whose
\* loop runs has none that the loop has not still before it.
LookedAt(p) ==
    LET wanted == Range(ModelsFor(models, p))
    IN  /\ p \notin Ahead(stage) /\ stage # p => wanted \subseteq seen
        /\ stage = p /\ Looping => wanted \subseteq seen \cup Range(todo)

\* A model has been taken as often as it is among the good.
Counted == \A m \in Model : passes[m] = Occurrences(good, m)

\* The inductive invariant of the check.
CheckInv ==
    /\ models \in SeqOf(Model, MaxModels) /\ good \in SeqOf(Model, MaxModels)
    /\ passes \in [Model -> 0 .. MaxModels]
    /\ Calling
    /\ seen \subseteq Model \cup {Hardcoded}
    /\ Underway => Counted /\ \A p \in Providers : Progress(p) /\ LookedAt(p)

\* What it is for.
LEMMA CheckInvType == CheckInv => CheckTypeOK
<1> SUFFICES ASSUME CheckInv PROVE CheckTypeOK
  OBVIOUS
<1>1. Range(todo) \subseteq Model \cup {Hardcoded}
  BY LenProperties DEF CheckInv, Calling, Range
<1> QED
  BY <1>1 DEF CheckInv, Calling, CheckTypeOK

\* A list whose models of each provider are taken from those of another list has no more.
LEMMA GoodBounded ==
    ASSUME NEW s \in Seq(Model), NEW t \in Seq(Model),
           \A p \in Providers : \E n \in 0 .. Len(ModelsFor(t, p)) :
               Embeds(ModelsFor(s, p), ModelsFor(t, p), n)
    PROVE  Len(s) <= Len(t)
<1>1. ASSUME NEW p \in Providers
      PROVE  /\ Len(ModelsFor(s, p)) \in Nat /\ Len(ModelsFor(t, p)) \in Nat
             /\ Len(ModelsFor(s, p)) <= Len(ModelsFor(t, p))
  <2> DEFINE wanted == ModelsFor(t, p)
             kept   == ModelsFor(s, p)
  <2>1. kept \in Seq(Model) /\ Len(kept) \in Nat /\ Len(wanted) \in Nat
    BY ModelsForType
  <2>2. PICK n \in 0 .. Len(wanted) : Embeds(kept, wanted, n)
    OBVIOUS
  <2> HIDE DEF wanted, kept
  <2>3. n \in Nat /\ n <= Len(wanted)
    BY <2>1, <2>2
  <2>4. Len(kept) <= n
    BY <2>1, <2>2, <2>3, EmbedsLen
  <2>5. Len(kept) <= Len(wanted)
    BY <2>1, <2>3, <2>4
  <2> QED
    BY <2>1, <2>5 DEF wanted, kept
<1>2. {"ollama", "openai", "gemini", "openrouter"} = Providers
  BY DEF Providers
<1> QED
  BY <1>1, <1>2, LenByProvider, SMTT(30)

\* A stage follows another: those whose turn is still to come have nothing yet.
LEMMA StageProgress ==
    ASSUME NEW p \in Providers, Progress(p), UNCHANGED <<models, good>>,
           Ahead(stage') \cup ({stage'} \cap Providers) \subseteq Ahead(stage), call' = "none"
    PROVE  Progress(p)'
<1> DEFINE wanted == ModelsFor(models, p)
           kept   == ModelsFor(good, p)
<1>1. PICK n \in 0 .. Len(wanted) :
        Embeds(kept, wanted, n) /\ (p \in Ahead(stage) => n = 0)
  BY DEF Progress
<1>2. wanted' = wanted /\ kept' = kept
  OBVIOUS
<1> HIDE DEF wanted, kept
<1>3. p \in Ahead(stage') \/ stage' = p => n = 0
  BY <1>1
<1>4. ~Looping'
  BY DEF Looping
<1>5. /\ n \in 0 .. Len(wanted') /\ Embeds(kept', wanted', n)
      /\ p \in Ahead(stage') \/ (stage' = p /\ ~Looping') => n = 0
      /\ stage' = p /\ Looping'
           => ThroughWith(wanted, n)' \/ (n = 0 /\ AtHardcoded(wanted)')
  BY <1>1, <1>2, <1>3, <1>4
<1> QED
  BY <1>5 DEF Progress, wanted, kept

\* A request is sent, at the same place of the same loop.
LEMMA AskProgress ==
    ASSUME NEW p \in Providers, Progress(p), UNCHANGED <<models, good, stage>>,
           Looping' <=> Looping, Looping => UNCHANGED todo
    PROVE  Progress(p)'
<1> DEFINE wanted == ModelsFor(models, p)
           kept   == ModelsFor(good, p)
<1>1. PICK n \in 0 .. Len(wanted) :
        /\ Embeds(kept, wanted, n)
        /\ p \in Ahead(stage) \/ (stage = p /\ ~Looping) => n = 0
        /\ stage = p /\ Looping => ThroughWith(wanted, n) \/ (n = 0 /\ AtHardcoded(wanted))
  BY DEF Progress
<1>2. wanted' = wanted /\ kept' = kept
  OBVIOUS
<1>3. Looping => /\ ThroughWith(wanted, n) => ThroughWith(wanted, n)'
                 /\ AtHardcoded(wanted) => AtHardcoded(wanted)'
  BY <1>2 DEF ThroughWith, AtHardcoded
<1> HIDE DEF wanted, kept
<1>5. /\ n \in 0 .. Len(wanted') /\ Embeds(kept', wanted', n)
      /\ p \in Ahead(stage') \/ (stage' = p /\ ~Looping') => n = 0
      /\ stage' = p /\ Looping'
           => ThroughWith(wanted, n)' \/ (n = 0 /\ AtHardcoded(wanted)')
  BY <1>1, <1>2, <1>3
<1> QED
  BY <1>5 DEF Progress, wanted, kept

\* A loop begins, with the models of its provider or with the one every node needs.
LEMMA EnterProgress ==
    ASSUME NEW p \in Providers, Progress(p), models \in Seq(Model),
           UNCHANGED <<models, good, stage>>, ~Looping, Looping',
           stage = p => \/ todo' = ModelsFor(models, p)
                        \/ stage = "ollama" /\ todo' = <<Hardcoded>> \o ModelsFor(models, p)
    PROVE  Progress(p)'
<1> DEFINE wanted == ModelsFor(models, p)
           kept   == ModelsFor(good, p)
<1>1. PICK n \in 0 .. Len(wanted) :
        Embeds(kept, wanted, n) /\ (p \in Ahead(stage) \/ stage = p => n = 0)
  BY DEF Progress
<1>2. wanted' = wanted /\ kept' = kept
  OBVIOUS
<1>3. wanted \in Seq(Model) /\ Len(wanted) \in Nat
  BY ModelsForType
<1>4. ASSUME todo' = wanted
      PROVE  ThroughWith(wanted, 0)'
  BY <1>2, <1>3, <1>4 DEF ThroughWith
<1>5. ASSUME stage = "ollama", todo' = <<Hardcoded>> \o wanted
      PROVE  AtHardcoded(wanted)'
  <2>1. wanted \in Seq(Model \cup {Hardcoded}) /\ Hardcoded \in Model \cup {Hardcoded}
    BY <1>3, SeqMonotonic
  <2>2. todo' # <<>> /\ Head(todo') = Hardcoded /\ Tail(todo') = wanted
    BY <1>5, <2>1, PrependIs
  <2> QED
    BY <1>2, <1>5, <2>2 DEF AtHardcoded
<1>6. stage' = p => n = 0 /\ (ThroughWith(wanted, n)' \/ (n = 0 /\ AtHardcoded(wanted)'))
  BY <1>1, <1>4, <1>5
<1> HIDE DEF wanted, kept
<1>7. /\ n \in 0 .. Len(wanted') /\ Embeds(kept', wanted', n)
      /\ p \in Ahead(stage') \/ (stage' = p /\ ~Looping') => n = 0
      /\ stage' = p /\ Looping'
           => ThroughWith(wanted, n)' \/ (n = 0 /\ AtHardcoded(wanted)')
  BY <1>1, <1>2, <1>6
<1> QED
  BY <1>7 DEF Progress, wanted, kept

\* The loop is through with one model more.
LEMMA TailThrough ==
    ASSUME todo \in Seq(Model \cup {Hardcoded}), todo # <<>>, todo' = Tail(todo),
           NEW wanted \in Seq(Model), NEW n \in 0 .. Len(wanted), ThroughWith(wanted, n)
    PROVE  /\ n + 1 \in 0 .. Len(wanted) /\ Head(todo) = wanted[n + 1]
           /\ Len(todo') = Len(wanted) - (n + 1)
           /\ \A j \in 1 .. Len(todo') : todo'[j] = wanted[(n + 1) + j]
<1>1. /\ Len(todo) \in Nat /\ Len(wanted) \in Nat /\ Len(todo) # 0
      /\ Len(todo) = Len(wanted) - n
  BY LenProperties, EmptySeq DEF ThroughWith
<1>2. /\ Len(todo') = Len(todo) - 1
      /\ \A j \in 1 .. Len(todo') : todo'[j] = todo[j + 1]
  BY HeadTailProperties
<1>3. Head(todo) = todo[1]
  OBVIOUS
<1>4. todo[1] = wanted[n + 1]
  BY <1>1 DEF ThroughWith
<1>5. ASSUME NEW j \in 1 .. Len(todo')
      PROVE  todo'[j] = wanted[(n + 1) + j]
  <2>1. todo'[j] = todo[j + 1] /\ j + 1 \in 1 .. Len(todo)
    BY <1>1, <1>2
  <2>2. todo[j + 1] = wanted[n + (j + 1)]
    BY <2>1 DEF ThroughWith
  <2>3. n + (j + 1) = (n + 1) + j
    BY <1>1, <1>2
  <2> QED
    BY <2>1, <2>2, <2>3
<1> QED
  BY <1>1, <1>2, <1>3, <1>4, <1>5


\* A model is passed over.
LEMMA DropProgress ==
    ASSUME NEW p \in Providers, Progress(p), models \in Seq(Model), good \in Seq(Model),
           todo \in Seq(Model \cup {Hardcoded}), todo # <<>>, Looping, Drop
    PROVE  Progress(p)'
<1> DEFINE wanted == ModelsFor(models, p)
           kept   == ModelsFor(good, p)
<1>1. PICK n \in 0 .. Len(wanted) :
        /\ Embeds(kept, wanted, n)
        /\ p \in Ahead(stage) \/ (stage = p /\ ~Looping) => n = 0
        /\ stage = p /\ Looping => ThroughWith(wanted, n) \/ (n = 0 /\ AtHardcoded(wanted))
  BY DEF Progress
<1>2. wanted' = wanted /\ kept' = kept
  BY DEF Drop
<1>3. wanted \in Seq(Model) /\ kept \in Seq(Model) /\ Len(wanted) \in Nat
  BY ModelsForType
<1>4. stage' = stage /\ todo' = Tail(todo) /\ Looping'
  BY DEF Drop, Looping
<1> HIDE DEF wanted, kept
<1>5. CASE stage # p
  <2>1. /\ n \in 0 .. Len(wanted') /\ Embeds(kept', wanted', n)
        /\ p \in Ahead(stage') \/ (stage' = p /\ ~Looping') => n = 0
        /\ stage' = p /\ Looping'
             => ThroughWith(wanted, n)' \/ (n = 0 /\ AtHardcoded(wanted)')
    BY <1>1, <1>2, <1>4, <1>5
  <2> QED
    BY <2>1 DEF Progress, wanted, kept
<1>6. CASE stage = p /\ ThroughWith(wanted, n)
  <2>1. /\ n + 1 \in 0 .. Len(wanted)
        /\ Len(todo') = Len(wanted) - (n + 1)
        /\ \A j \in 1 .. Len(todo') : todo'[j] = wanted[(n + 1) + j]
    <3>1. /\ todo' = Tail(todo) /\ wanted \in Seq(Model) /\ n \in 0 .. Len(wanted)
          /\ ThroughWith(wanted, n)
      BY <1>3, <1>4, <1>6
    <3> QED
      BY <3>1, TailThrough
  <2>2. Embeds(kept, wanted, n + 1)
    <3>1. n \in Nat /\ n < Len(wanted)
      BY <1>3, <2>1
    <3> QED
      BY <1>1, <1>3, <3>1, EmbedsNext
  <2>3. ThroughWith(wanted, n + 1)'
    BY <1>2, <2>1 DEF ThroughWith
  <2>4. p \notin Ahead(stage')
    BY <1>4, <1>6 DEF Ahead, Providers
  <2>5. /\ n + 1 \in 0 .. Len(wanted') /\ Embeds(kept', wanted', n + 1)
        /\ p \in Ahead(stage') \/ (stage' = p /\ ~Looping') => n + 1 = 0
        /\ stage' = p /\ Looping'
             => ThroughWith(wanted, n + 1)' \/ (n + 1 = 0 /\ AtHardcoded(wanted)')
    BY <1>2, <1>4, <2>1, <2>2, <2>3, <2>4
  <2> QED
    BY <2>5 DEF Progress, wanted, kept
<1>7. CASE stage = p /\ n = 0 /\ AtHardcoded(wanted)
  <2>1. todo' = wanted
    BY <1>4, <1>7 DEF AtHardcoded
  <2>2. ThroughWith(wanted, n)'
    BY <1>2, <1>3, <1>7, <2>1 DEF ThroughWith
  <2>3. /\ n \in 0 .. Len(wanted') /\ Embeds(kept', wanted', n)
        /\ p \in Ahead(stage') \/ (stage' = p /\ ~Looping') => n = 0
        /\ stage' = p /\ Looping'
             => ThroughWith(wanted, n)' \/ (n = 0 /\ AtHardcoded(wanted)')
    BY <1>1, <1>2, <1>7, <2>2
  <2> QED
    BY <2>3 DEF Progress, wanted, kept
<1> QED
  BY <1>1, <1>5, <1>6, <1>7

\* The model at the head of a provider's loop is one of its models, in the list.
LEMMA HeadOfLoop ==
    ASSUME CheckInv, Looping, todo # <<>>, Head(todo) # Hardcoded \/ stage # "ollama"
    PROVE  /\ stage \in Providers /\ Head(todo) \in Model /\ ProviderOf[Head(todo)] = stage
           /\ \E n \in 0 .. Len(ModelsFor(models, stage)) :
                 /\ Embeds(ModelsFor(good, stage), ModelsFor(models, stage), n)
                 /\ ThroughWith(ModelsFor(models, stage), n)
<1> DEFINE wanted == ModelsFor(models, stage)
           kept   == ModelsFor(good, stage)
<1>1. stage \in Providers /\ Underway
  BY DEF CheckInv, Calling, Looping, Underway, Providers
<1>2. models \in Seq(Model) /\ good \in Seq(Model) /\ todo \in Seq(Model \cup {Hardcoded})
  BY MaxModelsAssumption, BoundedIsSeq DEF CheckInv, Calling
<1>3. wanted \in Seq(Model) /\ Range(wanted) \subseteq Of(stage) /\ Len(wanted) \in Nat
  BY <1>2, ModelsForType
<1>4. Progress(stage)
  BY <1>1 DEF CheckInv
<1>5. PICK n \in 0 .. Len(wanted) : Embeds(kept, wanted, n) /\ ThroughWith(wanted, n)
  BY <1>4 DEF Progress, AtHardcoded
<1> HIDE DEF wanted, kept
<1>6. n + 1 \in 0 .. Len(wanted) /\ Head(todo) = wanted[n + 1]
  <2>1. /\ Len(todo) \in Nat /\ Len(todo) # 0 /\ Len(todo) = Len(wanted) - n
    BY <1>2, <1>5, LenProperties, EmptySeq DEF ThroughWith
  <2>2. Head(todo) = todo[1] /\ todo[1] = wanted[n + 1]
    BY <1>2, <1>5, <2>1 DEF ThroughWith
  <2> QED
    BY <1>3, <2>1, <2>2
<1>7. Head(todo) \in Range(wanted)
  <2>1. DOMAIN wanted = 1 .. Len(wanted) /\ n + 1 \in 1 .. Len(wanted)
    BY <1>3, <1>6, LenProperties
  <2> QED
    BY <1>6, <2>1 DEF Range
<1>8. Head(todo) \in Model /\ ProviderOf[Head(todo)] = stage
  BY <1>3, <1>7 DEF Of
<1> QED
  BY <1>1, <1>5, <1>8 DEF wanted, kept

\* A model passes.
LEMMA PassProgress ==
    ASSUME NEW p \in Providers, CheckInv, Progress(p), Looping, todo # <<>>,
           Head(todo) # Hardcoded \/ stage # "ollama", Pass
    PROVE  Progress(p)'
<1> DEFINE wanted == ModelsFor(models, p)
           kept   == ModelsFor(good, p)
<1>1. models \in Seq(Model) /\ good \in Seq(Model) /\ todo \in Seq(Model \cup {Hardcoded})
  BY MaxModelsAssumption, BoundedIsSeq DEF CheckInv, Calling
<1>2. PICK h : h = Head(todo)
  OBVIOUS
<1>3. h \in Model /\ ProviderOf[h] = stage
  BY <1>2, HeadOfLoop
<1>4. /\ good' = Append(good, h) /\ models' = models /\ stage' = stage
      /\ todo' = Tail(todo) /\ Looping'
  BY <1>2 DEF Pass, Looping
<1>5. wanted' = wanted
  BY <1>4
<1>6. /\ stage = p => kept' = Append(kept, h)
      /\ stage # p => kept' = kept
  BY <1>1, <1>3, <1>4, ModelsForAppend
<1>7. wanted \in Seq(Model) /\ kept \in Seq(Model) /\ Len(wanted) \in Nat
  BY <1>1, ModelsForType
<1>8. CASE stage # p
  <2>1. PICK n \in 0 .. Len(wanted) :
          /\ Embeds(kept, wanted, n)
          /\ p \in Ahead(stage) \/ (stage = p /\ ~Looping) => n = 0
    BY DEF Progress
  <2> HIDE DEF wanted, kept
  <2>2. /\ n \in 0 .. Len(wanted') /\ Embeds(kept', wanted', n)
        /\ p \in Ahead(stage') \/ (stage' = p /\ ~Looping') => n = 0
        /\ stage' = p /\ Looping'
             => ThroughWith(wanted, n)' \/ (n = 0 /\ AtHardcoded(wanted)')
    BY <1>4, <1>5, <1>6, <1>8, <2>1
  <2> QED
    BY <2>2 DEF Progress, wanted, kept
<1>9. CASE stage = p
  <2>1. PICK n \in 0 .. Len(wanted) : Embeds(kept, wanted, n) /\ ThroughWith(wanted, n)
    BY <1>9, HeadOfLoop
  <2> HIDE DEF wanted, kept
  <2>2. /\ n + 1 \in 0 .. Len(wanted) /\ h = wanted[n + 1]
        /\ Len(todo') = Len(wanted) - (n + 1)
        /\ \A j \in 1 .. Len(todo') : todo'[j] = wanted[(n + 1) + j]
    <3>1. /\ todo \in Seq(Model \cup {Hardcoded}) /\ todo # <<>> /\ todo' = Tail(todo)
          /\ wanted \in Seq(Model) /\ n \in 0 .. Len(wanted) /\ ThroughWith(wanted, n)
      BY <1>1, <1>4, <1>7, <2>1
    <3>2. /\ n + 1 \in 0 .. Len(wanted) /\ Head(todo) = wanted[n + 1]
          /\ Len(todo') = Len(wanted) - (n + 1)
          /\ \A j \in 1 .. Len(todo') : todo'[j] = wanted[(n + 1) + j]
      BY <3>1, TailThrough
    <3> QED
      BY <1>2, <3>2
  <2>3. Embeds(Append(kept, h), wanted, n + 1)
    <3>1. n \in Nat /\ n < Len(wanted)
      BY <1>7, <2>2
    <3> QED
      BY <1>7, <2>1, <2>2, <3>1, EmbedsNext
  <2>4. ThroughWith(wanted, n + 1)'
    BY <1>5, <2>2 DEF ThroughWith
  <2>5. p \notin Ahead(stage')
    BY <1>4, <1>9 DEF Ahead, Providers
  <2>6. /\ n + 1 \in 0 .. Len(wanted') /\ Embeds(kept', wanted', n + 1)
        /\ p \in Ahead(stage') \/ (stage' = p /\ ~Looping') => n + 1 = 0
        /\ stage' = p /\ Looping'
             => ThroughWith(wanted, n + 1)' \/ (n + 1 = 0 /\ AtHardcoded(wanted)')
    BY <1>4, <1>5, <1>6, <1>9, <2>2, <2>3, <2>4, <2>5
  <2> QED
    BY <2>6 DEF Progress, wanted, kept
<1> QED
  BY <1>8, <1>9


\* How often models occur in a list, and when there is one more.
LEMMA OccurrencesIs ==
    ASSUME NEW s \in Seq(Model), NEW m
    PROVE  /\ Occurrences(s, m) \in Nat /\ Occurrences(s, m) <= Len(s)
           /\ \A h \in Model :
                 /\ h = m => Occurrences(Append(s, h), m) = Occurrences(s, m) + 1
                 /\ h # m => Occurrences(Append(s, h), m) = Occurrences(s, m)
<1> DEFINE R == {m}
           Q == Model \ {m}
<1>1. R \cap Q = {} /\ Range(s) \subseteq R \cup Q /\ \A h : h \in R <=> h = m
  BY LenProperties DEF Range
<1> HIDE DEF R, Q
<1>2. Only(s, R \cup Q) = s /\ Len(Only(s, R \cup Q)) = Len(Only(s, R)) + Len(Only(s, Q))
  BY <1>1, OnlyAll, OnlyLen
<1>3. Only(s, R) \in Seq(Model) /\ Only(s, Q) \in Seq(Model)
  BY OnlyInSeq
<1>4. Len(Only(s, R)) \in Nat /\ Len(Only(s, Q)) \in Nat
  BY <1>3, LenProperties
<1>5. ASSUME NEW h \in Model
      PROVE  /\ h = m => Len(Only(Append(s, h), R)) = Len(Only(s, R)) + 1
             /\ h # m => Len(Only(Append(s, h), R)) = Len(Only(s, R))
  <2>1. CASE h \in R
    <3>1. Only(Append(s, h), R) = Append(Only(s, R), h)
      BY <2>1, OnlyAppend
    <3>2. Len(Append(Only(s, R), h)) = Len(Only(s, R)) + 1
      BY <1>3, AppendProperties
    <3> QED
      BY <1>1, <2>1, <3>1, <3>2
  <2>2. CASE h \notin R
    <3>1. Only(Append(s, h), R) = Only(s, R)
      BY <2>2, OnlyAppend
    <3> QED
      BY <1>1, <2>2, <3>1
  <2> QED
    BY <2>1, <2>2
<1>6. Occurrences(s, m) = Len(Only(s, R))
      /\ \A h \in Model : Occurrences(Append(s, h), m) = Len(Only(Append(s, h), R))
  BY DEF Occurrences, R
<1>7. Len(Only(s, R)) <= Len(s)
  BY <1>2, <1>4
<1> QED
  BY <1>4, <1>5, <1>6, <1>7

\* The sequences of the invariant.
LEMMA CheckSequences ==
    ASSUME CheckInv
    PROVE  /\ models \in Seq(Model) /\ good \in Seq(Model)
           /\ Len(models) \in Nat /\ Len(models) <= MaxModels
           /\ todo \in Seq(Model \cup {Hardcoded})
  BY MaxModelsAssumption, BoundedIsSeq DEF CheckInv, Calling

\* The check goes to the next stage.
LEMMA StepGoTo ==
    ASSUME CheckInv, stage \in {"idle"} \cup SearchAPIs \cup Providers, GoTo(After[stage]),
           UNCHANGED <<models, good, passes, seen>>,
           stage \in Providers => Range(ModelsFor(models, stage)) \subseteq seen
    PROVE  CheckInv'
<1>1. /\ stage' \in Stages \ {"idle", "done", "failed"} /\ call' = "none"
      /\ Ahead(stage') \cup ({stage'} \cap Providers) = Ahead(stage)
  BY AfterStage DEF GoTo
<1>2. Underway
  BY DEF Underway, SearchAPIs, Providers
<1>3. \A p \in Providers : Progress(p)'
  BY <1>1, <1>2, StageProgress DEF CheckInv
<1>4. Calling'
  <2>1. todo' = <<>> /\ listed' = {} /\ todo' \in Seq(Model \cup {Hardcoded})
    BY EmptySeq DEF GoTo
  <2> QED
    BY <1>1, <2>1 DEF Calling, Calls
<1>5. Counted'
  BY <1>2 DEF CheckInv, Counted
<1>6. ASSUME NEW p \in Providers
      PROVE  LookedAt(p)'
  <2>1. ~Looping'
    BY <1>1 DEF Looping
  <2>2. p \notin Ahead(stage') /\ stage' # p => p \notin Ahead(stage)
    BY <1>1
  <2>3. p \notin Ahead(stage) => Range(ModelsFor(models, p)) \subseteq seen
    BY <1>2 DEF CheckInv, LookedAt
  <2> QED
    BY <2>1, <2>2, <2>3 DEF LookedAt
<1> QED
  BY <1>3, <1>4, <1>5, <1>6 DEF CheckInv

\* The check makes a call.
LEMMA StepAsk ==
    ASSUME CheckInv, NEW c \in Calls, Ask(c),
           \/ call = "none" /\ stage \in SearchAPIs /\ c = "search"
           \/ /\ Looping /\ todo # <<>> /\ c \in {"pull", "embed", "generate", "dummy"}
              /\ c \in {"embed", "generate"} => Head(todo) # Hardcoded
              /\ c = "dummy" => stage # "ollama"
    PROVE  CheckInv'
<1>1. UNCHANGED <<models, stage, todo, listed, good, passes, seen>> /\ call' = c
  BY DEF Ask
<1>2. stage \in SearchAPIs \cup Providers
  BY DEF CheckInv, Calling, Looping
<1>3. Underway /\ (Looping' <=> Looping)
  BY <1>1, <1>2 DEF Underway, SearchAPIs, Providers, Looping
<1>4. \A p \in Providers : Progress(p)'
  BY <1>1, <1>3, AskProgress DEF CheckInv
<1>5. Calling'
  BY <1>1, <1>2 DEF CheckInv, Calling, Looping
<1>6. Counted'
  BY <1>1, <1>3 DEF CheckInv, Counted
<1>7. \A p \in Providers : LookedAt(p)'
  BY <1>1, <1>3 DEF CheckInv, LookedAt
<1> QED
  BY <1>1, <1>3, <1>4, <1>5, <1>6, <1>7 DEF CheckInv

\* The loop is done with the model at its head, good or not.
LEMMA SeenNext ==
    ASSUME CheckInv, Underway, Looping, todo # <<>>, UNCHANGED <<models, stage>>,
           call' = "each", todo' = Tail(todo), seen' = seen \cup {Head(todo)}
    PROVE  seen' \subseteq Model \cup {Hardcoded} /\ \A p \in Providers : LookedAt(p)'
<1>1. todo \in Seq(Model \cup {Hardcoded})
  BY CheckSequences
<1>2. Head(todo) \in Model \cup {Hardcoded}
  BY <1>1, HeadTailProperties
<1>3. Range(todo) = Range(todo') \cup {Head(todo)}
  BY <1>1, RangeTail
<1>4. ASSUME NEW p \in Providers
      PROVE  LookedAt(p)'
  <2> DEFINE wanted == Range(ModelsFor(models, p))
  <2>1. /\ p \notin Ahead(stage) /\ stage # p => wanted \subseteq seen
        /\ stage = p /\ Looping => wanted \subseteq seen \cup Range(todo)
    BY DEF CheckInv, LookedAt
  <2>2. wanted' = wanted
    OBVIOUS
  <2> HIDE DEF wanted
  <2>3. /\ p \notin Ahead(stage') /\ stage' # p => wanted' \subseteq seen'
        /\ stage' = p /\ Looping' => wanted' \subseteq seen' \cup Range(todo')
    BY <1>3, <2>1, <2>2
  <2> QED
    BY <2>3 DEF LookedAt, wanted
<1> QED
  BY <1>2, <1>4 DEF CheckInv

\* The loop of a provider goes on past a model that is not good.
LEMMA StepDrop ==
    ASSUME CheckInv, Looping, todo # <<>>, Drop
    PROVE  CheckInv'
<1>1. /\ UNCHANGED <<models, stage, listed, good, passes>> /\ call' = "each"
      /\ todo' = Tail(todo) /\ seen' = seen \cup {Head(todo)}
  BY DEF Drop
<1>2. stage \in Providers
  BY DEF CheckInv, Calling, Looping
<1>3. Underway
  BY <1>2 DEF Underway, Providers
<1>4. /\ models \in Seq(Model) /\ good \in Seq(Model)
      /\ todo \in Seq(Model \cup {Hardcoded})
  BY CheckSequences
<1>5. \A p \in Providers : Progress(p)'
  BY <1>3, <1>4, DropProgress DEF CheckInv
<1>6. todo' \in Seq(Model \cup {Hardcoded})
  BY <1>1, <1>4, HeadTailProperties
<1>7. Calling'
  BY <1>1, <1>2, <1>6 DEF CheckInv, Calling, Calls
<1>8. Counted'
  BY <1>1, <1>3 DEF CheckInv, Counted
<1>9. seen' \subseteq Model \cup {Hardcoded} /\ \A p \in Providers : LookedAt(p)'
  BY <1>1, <1>3, SeenNext
<1> QED
  BY <1>1, <1>5, <1>7, <1>8, <1>9 DEF CheckInv

\* The loop of a provider takes the model it is at.
LEMMA StepPass ==
    ASSUME CheckInv, Looping, todo # <<>>, Head(todo) # Hardcoded \/ stage # "ollama", Pass
    PROVE  CheckInv'
<1>1. PICK h : h = Head(todo)
  OBVIOUS
<1>2. /\ UNCHANGED <<models, stage, listed>> /\ call' = "each" /\ todo' = Tail(todo)
      /\ good' = Append(good, h) /\ passes' = [passes EXCEPT ![h] = @ + 1]
  BY <1>1 DEF Pass
<1>3. stage \in Providers /\ h \in Model
  BY <1>1, HeadOfLoop
<1>4. Underway
  BY <1>3 DEF Underway, Providers
<1>5. /\ models \in Seq(Model) /\ good \in Seq(Model) /\ Len(models) \in Nat
      /\ Len(models) <= MaxModels /\ todo \in Seq(Model \cup {Hardcoded})
  BY CheckSequences
<1>6. \A p \in Providers : Progress(p)'
  BY <1>4, PassProgress DEF CheckInv
<1>7. todo' \in Seq(Model \cup {Hardcoded})
  BY <1>2, <1>5, HeadTailProperties
<1>8. Calling'
  BY <1>2, <1>3, <1>7 DEF CheckInv, Calling, Calls
<1>9. good' \in Seq(Model) /\ Len(good') \in Nat /\ models' \in Seq(Model)
  BY <1>2, <1>3, <1>5, AppendProperties
<1>10. Len(good') <= MaxModels
  <2>1. Len(good') <= Len(models')
    <3>1. \A p \in Providers : \E n \in 0 .. Len(ModelsFor(models', p)) :
              Embeds(ModelsFor(good', p), ModelsFor(models', p), n)
      BY <1>6 DEF Progress
    <3> QED
      BY <1>9, <3>1, GoodBounded
  <2> QED
    BY <1>2, <1>5, <1>9, <2>1, MaxModelsAssumption
<1>11. good' \in SeqOf(Model, MaxModels)
  BY <1>9, <1>10, SeqIsBounded, MaxModelsAssumption
<1>12. \A m \in Model : passes'[m] = Occurrences(good', m)
  <2>1. TAKE m \in Model
  <2>2. /\ h = m => Occurrences(good', m) = Occurrences(good, m) + 1
        /\ h # m => Occurrences(good', m) = Occurrences(good, m)
    BY <1>2, <1>3, <1>5, OccurrencesIs
  <2>3. /\ h = m => passes'[m] = passes[m] + 1
        /\ h # m => passes'[m] = passes[m]
    BY <1>2, <1>3 DEF CheckInv
  <2> QED
    BY <1>4, <2>2, <2>3 DEF CheckInv, Counted
<1>13. passes' \in [Model -> 0 .. MaxModels]
  <2>1. \A m \in Model : Occurrences(good', m) \in 0 .. MaxModels
    BY <1>9, <1>10, OccurrencesIs, MaxModelsAssumption
  <2>2. DOMAIN passes' = Model /\ passes' = [m \in Model |-> passes'[m]]
    BY <1>2 DEF CheckInv
  <2> QED
    BY <1>12, <2>1, <2>2
<1>14. models' \in SeqOf(Model, MaxModels)
  BY <1>2 DEF CheckInv
<1>15. Counted'
  BY <1>12 DEF Counted
<1>16. seen' \subseteq Model \cup {Hardcoded} /\ \A p \in Providers : LookedAt(p)'
  BY <1>1, <1>2, <1>4, SeenNext DEF Pass
<1> QED
  BY <1>6, <1>8, <1>11, <1>13, <1>14, <1>15, <1>16 DEF CheckInv


\* The loop of a provider begins, at the hardcoded models of Ollama if it has any.
LEMMA StepEnter ==
    ASSUME CheckInv, stage \in Providers, call \in {"none", "list", "fetch"},
           UNCHANGED <<models, stage, good, passes, seen>>, call' = "each",
           listed' \subseteq Model \cup {Hardcoded},
           \/ todo' = ModelsFor(models, stage)
           \/ stage = "ollama" /\ todo' = <<Hardcoded>> \o ModelsFor(models, stage)
    PROVE  CheckInv'
<1>1. Underway /\ ~Looping /\ Looping'
  BY DEF Underway, Providers, Looping
<1>2. models \in Seq(Model)
  BY CheckSequences
<1>3. \A p \in Providers : Progress(p)'
  BY <1>1, <1>2, EnterProgress DEF CheckInv
<1>4. todo' \in Seq(Model \cup {Hardcoded})
  <2> DEFINE wanted == ModelsFor(models, stage)
  <2>1. wanted \in Seq(Model)
    BY <1>2, ModelsForType
  <2> HIDE DEF wanted
  <2>2. wanted \in Seq(Model \cup {Hardcoded}) /\ Hardcoded \in Model \cup {Hardcoded}
    BY <2>1, SeqMonotonic
  <2>3. <<Hardcoded>> \o wanted \in Seq(Model \cup {Hardcoded})
    BY <2>2, PrependIs
  <2> QED
    BY <2>2, <2>3 DEF wanted
<1>5. Calling'
  BY <1>4 DEF CheckInv, Calling, Calls
<1>6. Counted'
  BY <1>1 DEF CheckInv, Counted
<1>7. Range(ModelsFor(models, stage)) \subseteq Range(todo')
  <2> DEFINE wanted == ModelsFor(models, stage)
  <2>1. wanted \in Seq(Model)
    BY <1>2, ModelsForType
  <2> HIDE DEF wanted
  <2>2. wanted \in Seq(Model \cup {Hardcoded}) /\ Hardcoded \in Model \cup {Hardcoded}
    BY <2>1, SeqMonotonic
  <2>3. ASSUME todo' = <<Hardcoded>> \o wanted
        PROVE  Range(wanted) \subseteq Range(todo')
    <3> DEFINE u == <<Hardcoded>> \o wanted
    <3>1. u \in Seq(Model \cup {Hardcoded}) /\ u # <<>> /\ Tail(u) = wanted
      BY <2>2, PrependIs
    <3> HIDE DEF u
    <3>2. Range(u) = Range(Tail(u)) \cup {Head(u)}
      BY <3>1, RangeTail
    <3> QED
      BY <2>3, <3>1, <3>2 DEF u
  <2> QED
    BY <2>3 DEF wanted
<1>8. ASSUME NEW p \in Providers
      PROVE  LookedAt(p)'
  BY <1>1, <1>7 DEF CheckInv, LookedAt
<1> QED
  BY <1>1, <1>3, <1>5, <1>6, <1>8 DEF CheckInv

\* A provider's turn comes: its loop begins, or it fetches what it has first.
LEMMA StepBeginProvider ==
    ASSUME CheckInv, BeginProvider
    PROVE  CheckInv'
<1>1. /\ call = "none" /\ stage \in Providers
      /\ UNCHANGED <<models, stage, listed, good, passes, seen>>
  BY DEF BeginProvider
<1>2. CASE stage = "openrouter"
  <2>1. call' = "each" /\ todo' = ModelsFor(models, stage)
    BY <1>2 DEF BeginProvider
  <2>2. listed' \subseteq Model \cup {Hardcoded}
    BY <1>1 DEF CheckInv, Calling
  <2> QED
    BY <1>1, <2>1, <2>2, StepEnter
<1>3. CASE stage # "openrouter"
  <2>1. call' \in {"list", "fetch"} /\ todo' = <<>>
    BY <1>1, <1>3 DEF BeginProvider, Providers
  <2>2. ~Looping /\ ~Looping' /\ Underway
    BY <1>1, <2>1 DEF Looping, Underway, Providers
  <2>3. \A p \in Providers : Progress(p)'
    BY <1>1, <2>2, AskProgress DEF CheckInv
  <2>4. todo' \in Seq(Model \cup {Hardcoded})
    BY <2>1, EmptySeq
  <2>5. Calling'
    BY <1>1, <2>1, <2>4 DEF CheckInv, Calling, Calls
  <2>6. Counted'
    BY <1>1, <2>2 DEF CheckInv, Counted
  <2>7. \A p \in Providers : LookedAt(p)'
    BY <1>1, <2>2 DEF CheckInv, LookedAt
  <2> QED
    BY <1>1, <2>2, <2>3, <2>5, <2>6, <2>7 DEF CheckInv
<1> QED
  BY <1>2, <1>3

\* What the provider has is known, and its loop begins.
LEMMA StepListed ==
    ASSUME CheckInv, Listed
    PROVE  CheckInv'
<1> DEFINE wanted == ModelsFor(models, stage)
           queue  == IF stage = "ollama" THEN <<Hardcoded>> \o wanted ELSE wanted
<1>1. /\ call \in {"list", "fetch"} /\ call' = "each" /\ todo' = queue
      /\ listed' \in SUBSET Range(queue) /\ UNCHANGED <<models, stage, good, passes, seen>>
  BY DEF Listed
<1>2. stage \in Providers
  BY <1>1 DEF CheckInv, Calling
<1>3. models \in Seq(Model)
  BY CheckSequences
<1>4. wanted \in Seq(Model)
  BY <1>3, ModelsForType
<1> HIDE DEF wanted
<1>5. queue \in Seq(Model \cup {Hardcoded})
  <2>1. wanted \in Seq(Model \cup {Hardcoded}) /\ Hardcoded \in Model \cup {Hardcoded}
    BY <1>4, SeqMonotonic
  <2>2. <<Hardcoded>> \o wanted \in Seq(Model \cup {Hardcoded})
    BY <2>1, PrependIs
  <2> QED
    BY <2>1, <2>2
<1>6. todo' = wanted \/ (stage = "ollama" /\ todo' = <<Hardcoded>> \o wanted)
  BY <1>1
<1> HIDE DEF queue
<1>7. listed' \subseteq Model \cup {Hardcoded}
  <2>1. Range(queue) \subseteq Model \cup {Hardcoded}
    BY <1>5, LenProperties DEF Range
  <2> QED
    BY <1>1, <2>1
<1> QED
  BY <1>1, <1>2, <1>6, <1>7, StepEnter DEF wanted

\* The check ends, well or not; or the models are read before it begins.
LEMMA StepEnds ==
    ASSUME CheckInv,
           \/ CheckPasses
           \/ CheckFails
           \/ stage = "idle" /\ Configure
           \/ UNCHANGED checkVars
    PROVE  CheckInv'
<1>1. ASSUME stage' \in {"done", "failed"}, call' = "none", todo' = <<>>, listed' = {},
             good' = <<>>, UNCHANGED <<passes, seen>>, models' \in SeqOf(Model, MaxModels)
      PROVE  CheckInv'
  <2>1. todo' \in Seq(Model \cup {Hardcoded}) /\ good' \in Seq(Model) /\ Len(good') <= MaxModels
    BY <1>1, EmptySeq, MaxModelsAssumption
  <2>2. good' \in SeqOf(Model, MaxModels)
    BY <2>1, SeqIsBounded, MaxModelsAssumption
  <2>3. Calling'
    BY <1>1, <2>1 DEF Calling, Calls, Stages
  <2> QED
    BY <1>1, <2>2, <2>3 DEF CheckInv, Underway
<1>2. CASE CheckPasses
  BY <1>1, <1>2 DEF CheckPasses, GoTo, CheckInv
<1>3. CASE CheckFails
  BY <1>1, <1>3 DEF CheckFails, GoTo, CheckInv
<1>4. CASE stage = "idle" /\ Configure
  <2>1. /\ models' \in SeqOf(Model, MaxModels)
        /\ UNCHANGED <<stage, call, todo, listed, good, passes, seen>>
    BY <1>4 DEF Configure
  <2>2. ASSUME NEW p \in Providers
        PROVE  Progress(p)'
    <3>1. models \in Seq(Model) /\ models' \in Seq(Model) /\ good \in Seq(Model) /\ Progress(p)
      BY <1>4, <2>1, CheckSequences, BoundedIsSeq, MaxModelsAssumption DEF CheckInv, Underway
    <3> DEFINE kept == ModelsFor(good, p)
               wanted == ModelsFor(models, p)
               after == ModelsFor(models', p)
    <3>2. kept \in Seq(Model) /\ Len(after) \in Nat /\ Len(kept) \in Nat
      BY <3>1, ModelsForType
    <3>3. Embeds(kept, wanted, 0)
      BY <1>4, <3>1 DEF Progress, Ahead
    <3> HIDE DEF kept, wanted, after
    <3>4. Len(kept) = 0
      BY <3>2, <3>3, EmbedsLen
    <3>5. kept = <<>>
      BY <3>2, <3>4, EmptySeq
    <3>6. Embeds(kept, after, 0)
      BY <3>5, EmbedsEmpty
    <3>7. stage' # p
      BY <1>4, <2>1 DEF Providers
    <3>8. /\ 0 \in 0 .. Len(after) /\ Embeds(kept, after, 0)
          /\ kept = ModelsFor(good, p)' /\ after = ModelsFor(models, p)'
      BY <2>1, <3>2, <3>6 DEF kept, after
    <3> QED
      BY <3>7, <3>8 DEF Progress
  <2>3. Calling' /\ Counted'
    BY <1>4, <2>1 DEF CheckInv, Calling, Counted, Underway
  <2>4. \A p \in Providers : LookedAt(p)'
    BY <1>4, <2>1 DEF LookedAt, Ahead, Providers
  <2> QED
    BY <2>1, <2>2, <2>3, <2>4 DEF CheckInv
<1>5. CASE UNCHANGED checkVars
  <2>1. UNCHANGED <<models, stage, call, todo, listed, good, passes, seen>>
    BY <1>5 DEF checkVars
  <2>2. (Looping' <=> Looping) /\ (Underway' <=> Underway)
    BY <2>1 DEF Looping, Underway
  <2>3. Underway => \A p \in Providers : Progress(p)'
    BY <2>1, <2>2, AskProgress DEF CheckInv
  <2>4. Calling' /\ (Underway => Counted')
    BY <2>1 DEF CheckInv, Calling, Counted
  <2>5. Underway => \A p \in Providers : LookedAt(p)'
    BY <2>1, <2>2 DEF CheckInv, LookedAt
  <2> QED
    BY <2>1, <2>2, <2>3, <2>4, <2>5 DEF CheckInv
<1> QED
  BY <1>2, <1>3, <1>4, <1>5

\* Every step of the check keeps its invariant.
LEMMA StepCheck ==
    ASSUME CheckInv, CheckStep \/ CheckAnswered
    PROVE  CheckInv'
<1>1. CASE BeginCheck \/ Skip \/ EndProvider \/ SearchAnswered
  <2>1. /\ GoTo(After[stage]) /\ UNCHANGED <<models, good, passes, seen>>
        /\ stage \in {"idle"} \cup SearchAPIs \cup Providers
    BY <1>1 DEF BeginCheck, Skip, EndProvider, SearchAnswered, CheckInv, Calling
  <2>2. ASSUME stage \in Providers
        PROVE  Range(ModelsFor(models, stage)) \subseteq seen
    <3>1. Skip \/ EndProvider
      BY <1>1, <2>2 DEF BeginCheck, SearchAnswered, CheckInv, Calling, SearchAPIs, Providers
    <3>2. CASE Skip
      BY <2>2, <3>2 DEF Skip, Range
    <3>3. CASE EndProvider
      <4>1. Looping /\ Underway /\ Range(todo) = {}
        BY <2>2, <3>3 DEF EndProvider, Looping, Underway, Providers, Range
      <4> QED
        BY <2>2, <4>1 DEF CheckInv, LookedAt
    <3> QED
      BY <3>1, <3>2, <3>3
  <2> QED
    BY <2>1, <2>2, StepGoTo
<1>2. CASE AskSearch
  BY <1>2, StepAsk DEF AskSearch, Calls
<1>3. CASE AskModel
  <2>1. Looping /\ todo # <<>>
    BY <1>3 DEF AskModel, AtEach, Looping
  <2>2. \/ Drop
        \/ Ask("pull")
        \/ Ask("embed") /\ Head(todo) # Hardcoded
        \/ Ask("dummy") /\ stage # "ollama"
    BY <1>3 DEF AskModel
  <2> QED
    BY <2>1, <2>2, StepDrop, StepAsk DEF Calls
<1>4. CASE GenerateTimesOut
  <2>1. Looping /\ todo # <<>> /\ Drop
    BY <1>4 DEF GenerateTimesOut, Looping, CheckInv, Calling
  <2> QED
    BY <2>1, StepDrop
<1>5. CASE BeginProvider
  BY <1>5, StepBeginProvider
<1>6. CASE Listed
  BY <1>6, StepListed
<1>7. CASE Pulled
  <2>1. Looping /\ todo # <<>>
    BY <1>7 DEF Pulled, Looping, CheckInv, Calling
  <2>2. Drop \/ (Ask("embed") /\ Head(todo) # Hardcoded)
    BY <1>7 DEF Pulled
  <2> QED
    BY <2>1, <2>2, StepDrop, StepAsk DEF Calls
<1>8. CASE Embedded
  <2>1. Looping /\ todo # <<>> /\ Head(todo) # Hardcoded
    BY <1>8 DEF Embedded, Looping, CheckInv, Calling
  <2>2. Drop \/ Ask("generate")
    BY <1>8 DEF Embedded
  <2> QED
    BY <2>1, <2>2, StepDrop, StepAsk DEF Calls
<1>9. CASE Tested
  <2>1. Looping /\ todo # <<>> /\ (Head(todo) # Hardcoded \/ stage # "ollama")
    BY <1>9 DEF Tested, Looping, CheckInv, Calling
  <2>2. Pass \/ Drop
    BY <1>9 DEF Tested
  <2> QED
    BY <2>1, <2>2, StepDrop, StepPass
<1> QED
  BY <1>1, <1>2, <1>3, <1>4, <1>5, <1>6, <1>7, <1>8, <1>9 DEF CheckStep, CheckAnswered


(***************************************************************************)
(* The process.                                                            *)
(***************************************************************************)

\* main and its parts, apart from the check.
MainInv ==
    /\ main \in {"config", "services", "create", "spawn", "wait", "exited", "failed"}
    /\ main = "config" => stage = "idle"
    /\ main \notin {"config", "failed"} => models # <<>>
    /\ needed \subseteq Workers
    /\ part \in [Parts -> {"none", "running", "awaiting", "leaving", "closing", "ended"}]
    /\ cancelled \in BOOLEAN /\ closed \in BOOLEAN

\* What a step does to the models and the stage of the check, and where main is then.
LEMMA StepOfCheck ==
    ASSUME CheckInv, MainInv, [Next]_vars
    PROVE  \/ UNCHANGED checkVars
           \/ main = "services" /\ main' = "services" /\ (CheckStep \/ CheckAnswered)
           \/ main = "services" /\ main' = "create" /\ CheckPasses
           \/ main = "services" /\ main' = "failed" /\ CheckFails
           \/ main = "config" /\ main' = "services" /\ Configure
<1>1. CASE LoadConfig
  BY <1>1 DEF LoadConfig, GoOn
<1>2. CASE CheckServices \/ ServiceAnswers
  BY <1>2 DEF CheckServices, ServiceAnswers, nodeVars
<1>3. CASE ServicesChecked
  BY <1>3 DEF ServicesChecked, GoOn
<1>4. CASE StartFails
  BY <1>4 DEF StartFails, GoOn
<1>5. CASE CheckCancelled \/ CreateNode \/ Exit
  BY <1>5 DEF CheckCancelled, CreateNode, Exit
<1>6. CASE \E p \in Parts : Spawn(p)
  BY <1>6 DEF Spawn
<1>7. CASE Cancel \/ CloseTracker
  BY <1>7 DEF Cancel, CloseTracker
<1>8. CASE NodeStep \/ EndClient \/ (\E w \in Workers : EndWorker(w))
  BY <1>8 DEF NodeStep, EndClient, EndWorker, AwaitApi, ApiAnswers, SeeCancelled, Leave,
    RunFails, NodePanics, TellClient, EndNode, Move
<1>9. CASE UNCHANGED vars
  BY <1>9 DEF vars
<1> QED
  BY <1>1, <1>2, <1>3, <1>4, <1>5, <1>6, <1>7, <1>8, <1>9 DEF Next, MainStep

\* Every step of the process keeps the invariant of the check.
LEMMA StepCheckInv == CheckInv /\ MainInv /\ [Next]_vars => CheckInv'
  BY StepOfCheck, StepCheck, StepEnds DEF MainInv

\* How a step goes on in main, or moves one of its parts.
MovesOn(p) ==
    /\ Alive /\ part[p] # "none"
    /\ \E to \in {"running", "awaiting", "leaving", "closing", "ended"} :
          part' = [part EXCEPT ![p] = to]
    /\ UNCHANGED <<main, needed, cancelled, closed>>

\* What a step does to the rest.
LEMMA StepOfMain ==
    ASSUME [Next]_vars
    PROVE  \/ UNCHANGED nodeVars
           \/ LoadConfig \/ ServicesChecked \/ CheckCancelled \/ CreateNode \/ StartFails \/ Exit
           \/ \E p \in Parts : Spawn(p)
           \/ UNCHANGED <<main, needed, part>> /\ cancelled' \in {TRUE, cancelled}
                /\ closed' \in {TRUE, closed}
           \/ \E p \in Parts : MovesOn(p)
<1>1. CASE CheckServices \/ ServiceAnswers
  BY <1>1 DEF CheckServices, ServiceAnswers
<1>2. CASE Cancel \/ CloseTracker
  BY <1>2 DEF Cancel, CloseTracker
<1>3. CASE NodeStep \/ EndClient
  <2>1. "node" \in Parts /\ "p2p" \in Parts
    BY DEF Parts
  <2> QED
    BY <1>3, <2>1 DEF NodeStep, EndClient, AwaitApi, ApiAnswers, SeeCancelled, Leave,
      RunFails, NodePanics, TellClient, EndNode, Move, MovesOn
<1>4. CASE \E w \in Workers : EndWorker(w)
  <2>1. Workers \subseteq Parts
    BY DEF Parts
  <2> QED
    BY <1>4, <2>1 DEF EndWorker, Move, MovesOn
<1>5. CASE UNCHANGED vars
  BY <1>5 DEF vars
<1> QED
  BY <1>1, <1>2, <1>3, <1>4, <1>5 DEF Next, MainStep

\* Every step of the process keeps the invariant of main.
LEMMA StepMainInv == CheckInv /\ MainInv /\ [Next]_vars => MainInv'
<1> SUFFICES ASSUME CheckInv, MainInv, [Next]_vars PROVE MainInv'
  OBVIOUS
<1>1. main' = "config" => main = "config"
  BY StepOfMain
  DEF nodeVars, LoadConfig, ServicesChecked, CheckCancelled, CreateNode, StartFails, Exit, GoOn,
    Spawn, MovesOn, MainInv
<1>2. main' = "config" => stage' = "idle"
  BY <1>1, StepOfCheck DEF MainInv, checkVars
<1>3. main' \notin {"config", "failed"} => models' # <<>>
  <2>1. CASE UNCHANGED checkVars
    <3>1. main' \notin {"config", "failed"} => main \notin {"config", "failed"} \/ LoadConfig
      BY StepOfMain
      DEF nodeVars, ServicesChecked, CheckCancelled, CreateNode, StartFails, Exit, GoOn, Spawn,
        MovesOn
    <3>2. LoadConfig => models' # <<>>
      BY DEF LoadConfig, Configure
    <3> QED
      BY <2>1, <3>1, <3>2 DEF checkVars, MainInv
  <2>2. CASE main = "services" /\ (CheckStep \/ CheckAnswered)
    BY <2>2
    DEF MainInv, CheckStep, CheckAnswered, BeginCheck, Skip, AskSearch, BeginProvider, AskModel,
      EndProvider, GenerateTimesOut, SearchAnswered, Listed, Pulled, Embedded, Tested, Ask,
      Drop, Pass
  <2>3. CASE CheckPasses
    BY <2>3 DEF CheckPasses
  <2>4. CASE Configure
    BY <2>4 DEF Configure
  <2>5. CASE main' = "failed"
    BY <2>5
  <2> QED
    BY <2>1, <2>2, <2>3, <2>4, <2>5, StepOfCheck
<1>4. /\ main' \in {"config", "services", "create", "spawn", "wait", "exited", "failed"}
      /\ needed' \subseteq Workers
      /\ part' \in [Parts -> {"none", "running", "awaiting", "leaving", "closing", "ended"}]
      /\ cancelled' \in BOOLEAN /\ closed' \in BOOLEAN
  <2>1. CASE UNCHANGED nodeVars
    BY <2>1 DEF nodeVars, MainInv
  <2>2. CASE LoadConfig \/ ServicesChecked \/ CheckCancelled \/ StartFails \/ Exit
    BY <2>2 DEF LoadConfig, ServicesChecked, CheckCancelled, StartFails, Exit, GoOn, MainInv
  <2>3. CASE CreateNode
    BY <2>3 DEF CreateNode, GoOn, MainInv
  <2>4. CASE \E p \in Parts : Spawn(p)
    BY <2>4 DEF Spawn, MainInv
  <2>5. CASE /\ UNCHANGED <<main, needed, part>>
             /\ cancelled' \in {TRUE, cancelled} /\ closed' \in {TRUE, closed}
    BY <2>5 DEF MainInv
  <2>6. CASE \E p \in Parts : MovesOn(p)
    BY <2>6 DEF MovesOn, MainInv
  <2> QED
    BY <2>1, <2>2, <2>3, <2>4, <2>5, <2>6, StepOfMain
<1> QED
  BY <1>2, <1>3, <1>4 DEF MainInv

\* Both invariants hold when the process starts.
LEMMA InitInv == Init => CheckInv /\ MainInv
<1> SUFFICES ASSUME Init PROVE CheckInv /\ MainInv
  OBVIOUS
<1>1. /\ models = <<>> /\ stage = "idle" /\ call = "none" /\ todo = <<>> /\ listed = {}
      /\ good = <<>> /\ passes = [m \in Model |-> 0] /\ seen = {}
  BY DEF Init, CheckInit
<1>2. <<>> \in Seq(Model) /\ <<>> \in Seq(Model \cup {Hardcoded}) /\ Len(<<>>) = 0
      /\ Len(<<>>) <= MaxModels
  BY EmptySeq, MaxModelsAssumption
<1>3. models \in SeqOf(Model, MaxModels) /\ good \in SeqOf(Model, MaxModels)
  BY <1>1, <1>2, SeqIsBounded, MaxModelsAssumption
<1>4. ASSUME NEW p \in Providers
      PROVE  Progress(p)
  <2>1. ModelsFor(models, p) = <<>> /\ ModelsFor(good, p) = <<>>
    BY <1>1, OnlyEmpty DEF ModelsFor
  <2>2. Embeds(<<>>, <<>>, 0) /\ 0 \in 0 .. Len(<<>>) /\ stage # p
    BY <1>1, <1>2, EmbedsEmpty DEF Providers
  <2> QED
    BY <2>1, <2>2 DEF Progress
<1>5. Counted
  BY <1>1, <1>2, OnlyEmpty DEF Counted, Occurrences
<1>6. Calling
  BY <1>1, <1>2 DEF Calling, Calls, Stages, After
<1>7. \A p \in Providers : LookedAt(p)
  BY <1>1 DEF LookedAt, Ahead, Providers
<1>8. CheckInv
  BY <1>1, <1>3, <1>4, <1>5, <1>6, <1>7, MaxModelsAssumption DEF CheckInv
<1> QED
  BY <1>1, <1>8 DEF Init, MainInv, Workers

\* Types are kept; in particular a check never has more good models than it was given,
\* and no model passes more often than it was configured.
THEOREM TypeCorrect == Spec => [](TypeOK /\ CheckInv /\ MainInv)
<1>1. Init => CheckInv /\ MainInv
  BY InitInv
<1>2. CheckInv /\ MainInv /\ [Next]_vars => (CheckInv /\ MainInv)'
  BY StepCheckInv, StepMainInv
<1>3. CheckInv /\ MainInv => TypeOK
  BY CheckInvType DEF MainInv, TypeOK
<1> QED
  BY <1>1, <1>2, <1>3, PTL DEF Spec


(***************************************************************************)
(* The models that are left.                                               *)
(***************************************************************************)

\* A check that passes has been through every model; of each it leaves as many as passed,
\* and of each provider's models a subsequence.
THEOREM CheckLeavesSurvivors == Spec => SurvivorsOnly
<1>1. ASSUME CheckInv, ServicesChecked
      PROVE  /\ Range(models) \subseteq seen
             /\ \A m \in Model : Occurrences(models', m) = passes[m]
             /\ \A p \in Providers :
                  IsSubsequence(ModelsFor(models', p), ModelsFor(models, p))
  <2>1. stage = "end" /\ models' = good /\ Underway
    BY <1>1 DEF ServicesChecked, CheckPasses, Underway
  <2>2. models \in Seq(Model) /\ good \in Seq(Model)
    BY <1>1, CheckSequences
  <2>3. \A m \in Model : Occurrences(models', m) = passes[m]
    BY <1>1, <2>1 DEF CheckInv, Counted
  <2>4. ASSUME NEW p \in Providers
        PROVE  IsSubsequence(ModelsFor(good, p), ModelsFor(models, p))
    <3> DEFINE wanted == ModelsFor(models, p)
               kept   == ModelsFor(good, p)
    <3>1. wanted \in Seq(Model) /\ kept \in Seq(Model) /\ Len(wanted) \in Nat
      BY <2>2, ModelsForType
    <3>2. PICK n \in 0 .. Len(wanted) : Embeds(kept, wanted, n)
      BY <1>1, <2>1 DEF CheckInv, Progress
    <3> HIDE DEF wanted, kept
    <3>3. IsSubsequence(kept, wanted)
      BY <3>1, <3>2, EmbedsIsSubsequence
    <3> QED
      BY <3>3 DEF wanted, kept
  <2>5. ASSUME NEW m \in Range(models)
        PROVE  m \in seen
    <3>1. m \in Model /\ ProviderOf[m] \in Providers
      BY <2>2, <2>5, LenProperties, ProviderAssumption DEF Range
    <3>2. m \in Range(ModelsFor(models, ProviderOf[m]))
      BY <2>2, <2>5, <3>1, OnlyRange DEF ModelsFor, Of
    <3>3. Range(ModelsFor(models, ProviderOf[m])) \subseteq seen
      BY <1>1, <2>1, <3>1 DEF CheckInv, LookedAt, Ahead, Providers
    <3> QED
      BY <3>2, <3>3
  <2> QED
    BY <2>1, <2>3, <2>4, <2>5
<1> QED
  BY <1>1, TypeCorrect, PTL DEF Spec, SurvivorsOnly

\* The node is created with the workers that the models left by the check need, and
\* neither changes afterwards.
THEOREM WorkersFit == Spec => []WorkersMatchModels
<1>1. Init => WorkersMatchModels
  BY DEF Init, WorkersMatchModels
<1>2. ASSUME CheckInv, MainInv, WorkersMatchModels, [Next]_vars
      PROVE  WorkersMatchModels'
  <2>1. CASE CreateNode
    <3>1. models \in Seq(Model) /\ models' = models
      BY <1>2, <2>1, CheckSequences DEF CreateNode, checkVars
    <3>2. AnyMatching(models, Names) = Range(models)
      BY <3>1, MatchingAll
    <3>3. /\ needed' \subseteq Workers
          /\ "batch" \in needed' <=> HasBatchable(models)
          /\ "single" \in needed' <=> HasNonBatchable(models)
      BY <2>1 DEF CreateNode, Workers
    <3>4. needed' = {KindOf(m) : m \in Range(models)}
      BY <3>3 DEF HasBatchable, HasNonBatchable, KindOf, Workers
    <3> QED
      BY <3>1, <3>2, <3>4 DEF WorkersMatchModels
  <2>2. CASE main \in {"spawn", "wait"} /\ UNCHANGED <<needed, models>>
    BY <1>2, <2>2 DEF WorkersMatchModels
  <2>3. CASE main' \notin {"spawn", "wait"}
    BY <2>3 DEF WorkersMatchModels
  <2>4. \/ CreateNode
        \/ main' \notin {"spawn", "wait"}
        \/ main \in {"spawn", "wait"} /\ UNCHANGED <<needed, models>>
    <3>1. CreateNode \/ main' \notin {"spawn", "wait"} \/ main \in {"spawn", "wait"}
      BY StepOfMain, <1>2
      DEF nodeVars, LoadConfig, ServicesChecked, CheckCancelled, StartFails, Exit, GoOn, Spawn,
        MovesOn
    <3>2. main \in {"spawn", "wait"} => UNCHANGED models
      BY StepOfCheck, <1>2 DEF checkVars
    <3>3. main \in {"spawn", "wait"} => UNCHANGED needed
      BY StepOfMain, <1>2
      DEF nodeVars, LoadConfig, ServicesChecked, CheckCancelled, CreateNode, StartFails, Exit,
        GoOn, Spawn, MovesOn
    <3> QED
      BY <3>1, <3>2, <3>3
  <2> QED
    BY <2>1, <2>2, <2>3, <2>4
<1> QED
  BY <1>1, <1>2, TypeCorrect, PTL DEF Spec

(***************************************************************************)
(* The steps the check has left.                                           *)
(***************************************************************************)

\* A provider has no more models than there are.
LEMMA ModelsForLen ==
    ASSUME NEW s \in Seq(Model), NEW p \in Providers
    PROVE  Len(ModelsFor(s, p)) \in Nat /\ Len(ModelsFor(s, p)) <= Len(s)
<1> DEFINE R == {m \in Model : ProviderOf[m] = p}
           Q == Model \ R
<1>1. R \cap Q = {} /\ Range(s) \subseteq R \cup Q
  BY LenProperties DEF Range
<1>2. ModelsFor(s, p) = Only(s, R)
  BY DEF ModelsFor
<1> HIDE DEF R, Q
<1>3. Only(s, R \cup Q) = s /\ Len(Only(s, R \cup Q)) = Len(Only(s, R)) + Len(Only(s, Q))
  BY <1>1, OnlyAll, OnlyLen
<1>4. Only(s, R) \in Seq(Model) /\ Only(s, Q) \in Seq(Model)
  BY OnlyInSeq
<1>5. Len(Only(s, R)) \in Nat /\ Len(Only(s, Q)) \in Nat
  BY <1>4, LenProperties
<1> QED
  BY <1>2, <1>3, <1>5

\* A provider's loop has its models left, and the one every node needs, at most; there is
\* one left at each request.
LEMMA LoopIsBounded ==
    CheckInv /\ Looping => /\ Len(todo) \in Nat /\ Len(todo) <= MaxModels + 1
                           /\ call # "each" => Len(todo) >= 1
<1> SUFFICES ASSUME CheckInv, Looping
             PROVE  /\ Len(todo) \in Nat /\ Len(todo) <= MaxModels + 1
                    /\ call # "each" => Len(todo) >= 1
  OBVIOUS
<1>1. /\ stage \in Providers /\ Underway /\ todo \in Seq(Model \cup {Hardcoded})
      /\ call # "each" => todo # <<>>
  BY DEF CheckInv, Calling, Calls, Looping, Underway, Providers
<1> DEFINE wanted == ModelsFor(models, stage)
<1>2. Len(wanted) \in Nat /\ Len(wanted) <= MaxModels
  <2>1. models \in Seq(Model) /\ Len(models) \in Nat /\ Len(models) <= MaxModels
    BY CheckSequences
  <2>2. Len(wanted) \in Nat /\ Len(wanted) <= Len(models)
    BY <1>1, <2>1, ModelsForLen
  <2> HIDE DEF wanted
  <2> QED
    BY <2>1, <2>2, MaxModelsAssumption
<1>3. PICK n \in 0 .. Len(wanted) : ThroughWith(wanted, n) \/ AtHardcoded(wanted)
  BY <1>1 DEF CheckInv, Progress
<1> HIDE DEF wanted
<1>4. Len(todo) \in Nat /\ (Len(todo) = 0 => todo = <<>>)
  BY <1>1, LenProperties, EmptySeq
<1>5. call # "each" => Len(todo) >= 1
  BY <1>1, <1>4
<1>6. CASE ThroughWith(wanted, n)
  BY <1>2, <1>3, <1>4, <1>5, <1>6, MaxModelsAssumption DEF ThroughWith
<1>7. CASE AtHardcoded(wanted)
  <2>1. todo # <<>> /\ Tail(todo) = wanted
    BY <1>7 DEF AtHardcoded
  <2>2. Len(Tail(todo)) = Len(todo) - 1
    BY <1>1, <2>1, HeadTailProperties
  <2> QED
    BY <1>2, <1>4, <1>5, <2>1, <2>2, MaxModelsAssumption
<1> QED
  BY <1>3, <1>6, <1>7

\* What is left is a number with a bound.
LEMMA LeftIsBounded ==
    ASSUME CheckInv
    PROVE  StagesLeft(stage) \in 0 .. 8 /\ CallsLeft \in 0 .. 4 * MaxModels + 6
<1>1. StagesLeft(stage) \in 0 .. 8
  BY DEF StagesLeft
<1>2. CASE Looping
  <2>1. /\ Len(todo) \in Nat /\ Len(todo) <= MaxModels + 1
        /\ call # "each" => Len(todo) >= 1
    BY <1>2, LoopIsBounded
  <2>2. call \in {"each", "pull", "embed", "generate", "dummy"}
    BY <1>2 DEF CheckInv, Calling, Calls, Looping
  <2> QED
    BY <1>1, <2>1, <2>2, MaxModelsAssumption DEF CallsLeft
<1>3. CASE ~Looping
  BY <1>1, <1>3, MaxModelsAssumption DEF CallsLeft, Looping
<1> QED
  BY <1>2, <1>3

\* A step brings the check nearer to its end.
Nearer ==
    \/ StagesLeft(stage') < StagesLeft(stage)
    \/ stage' = stage /\ CallsLeft' < CallsLeft

\* The next stage has fewer left.
LEMMA AfterIsNearer ==
    ASSUME NEW s \in {"idle"} \cup SearchAPIs \cup Providers
    PROVE  StagesLeft(After[s]) < StagesLeft(s)
<1>1. s \in {"idle", "serper", "jina", "ollama", "openai", "gemini", "openrouter"}
  BY DEF SearchAPIs, Providers
<1>2. CASE s \in {"idle", "serper", "jina"}
  BY <1>2 DEF After, StagesLeft
<1>3. CASE s \in {"ollama", "openai", "gemini", "openrouter"}
  BY <1>3 DEF After, StagesLeft
<1> QED
  BY <1>1, <1>2, <1>3

\* The end of the check has none left.
LEMMA EndsNearer == CheckInv /\ (CheckPasses \/ CheckFails) => Nearer
<1> SUFFICES ASSUME CheckInv, CheckPasses \/ CheckFails PROVE Nearer
  OBVIOUS
<1>1. stage' \in {"done", "failed"}
  BY DEF CheckPasses, CheckFails, GoTo
<1>2. stage \in SearchAPIs \cup Providers \cup {"end"}
  BY DEF CheckPasses, CheckFails, AtEach, CheckInv, Calling
<1> QED
  BY <1>1, <1>2 DEF Nearer, StagesLeft, SearchAPIs, Providers

\* A loop that is through with a model has one model fewer.
LEMMA TailNearer ==
    ASSUME CheckInv, Looping, todo # <<>>, Drop \/ Pass
    PROVE  Nearer
<1>1. stage' = stage /\ call' = "each" /\ todo' = Tail(todo)
  BY DEF Drop, Pass
<1>2. Len(todo) \in Nat /\ Len(todo') = Len(todo) - 1
  <2>1. todo \in Seq(Model \cup {Hardcoded})
    BY CheckSequences
  <2>2. Len(Tail(todo)) = Len(todo) - 1 /\ Len(todo) \in Nat
    BY <2>1, HeadTailProperties, LenProperties
  <2> QED
    BY <1>1, <2>2
<1>3. CallsLeft' = 4 * Len(todo')
  BY <1>1 DEF CallsLeft
<1>4. CallsLeft >= 4 * Len(todo) - 3
  <2>1. call \in {"each", "pull", "embed", "generate", "dummy"}
    BY DEF CheckInv, Calling, Calls, Looping
  <2> QED
    BY <1>2, <2>1 DEF CallsLeft
<1>5. CallsLeft \in Int
  BY LeftIsBounded, MaxModelsAssumption
<1> QED
  BY <1>1, <1>2, <1>3, <1>4, <1>5 DEF Nearer

\* Of the requests for a model none is sent again.
LEMMA AskNearer ==
    ASSUME CheckInv, NEW c, Ask(c),
           \/ call = "none" /\ c = "search"
           \/ call = "each" /\ c \in {"pull", "embed", "dummy"}
           \/ call = "pull" /\ c = "embed"
           \/ call = "embed" /\ c = "generate"
    PROVE  Nearer
<1>1. stage' = stage /\ todo' = todo /\ call' = c
  BY DEF Ask
<1>2. CASE call = "none"
  BY <1>1, <1>2, MaxModelsAssumption DEF CallsLeft, Nearer
<1>3. CASE call # "none"
  <2>1. Looping
    BY <1>3 DEF Looping
  <2>2. Len(todo) \in Nat
    BY <2>1, LoopIsBounded
  <2> QED
    BY <1>1, <1>3, <2>2 DEF CallsLeft, Nearer
<1> QED
  BY <1>2, <1>3

\* A loop that begins takes fewer steps than were left for the whole provider.
LEMMA EnterNearer ==
    ASSUME CheckInv, CheckInv', stage' = stage, call' = "each",
           call \in {"none", "list", "fetch"}
    PROVE  Nearer
<1>1. Looping'
  BY DEF Looping
<1>2. Len(todo') \in Nat /\ Len(todo') <= MaxModels + 1
  <2>1. (CheckInv /\ Looping => /\ Len(todo) \in Nat /\ Len(todo) <= MaxModels + 1
                                /\ call # "each" => Len(todo) >= 1)'
    BY LoopIsBounded, PTL
  <2> QED
    BY <1>1, <2>1
<1>3. CallsLeft' = 4 * Len(todo')
  BY DEF CallsLeft
<1>4. CallsLeft >= 4 * MaxModels + 5 /\ CallsLeft \in Int
  BY MaxModelsAssumption DEF CallsLeft
<1> QED
  BY <1>2, <1>3, <1>4, MaxModelsAssumption DEF Nearer

\* Every step of the check does.
LEMMA CheckNearer ==
    ASSUME CheckInv, CheckInv', CheckStep \/ CheckAnswered
    PROVE  Nearer
<1>1. CASE BeginCheck \/ Skip \/ EndProvider \/ SearchAnswered
  <2>1. GoTo(After[stage]) /\ stage \in {"idle"} \cup SearchAPIs \cup Providers
    BY <1>1 DEF BeginCheck, Skip, EndProvider, SearchAnswered, CheckInv, Calling
  <2> QED
    BY <2>1, AfterIsNearer DEF GoTo, Nearer
<1>2. CASE AskSearch
  BY <1>2, AskNearer DEF AskSearch
<1>3. CASE AskModel
  <2>1. Looping /\ todo # <<>> /\ call = "each"
    BY <1>3 DEF AskModel, AtEach, Looping
  <2>2. Drop \/ Ask("pull") \/ Ask("embed") \/ Ask("dummy")
    BY <1>3 DEF AskModel
  <2> QED
    BY <2>1, <2>2, TailNearer, AskNearer
<1>4. CASE GenerateTimesOut
  <2>1. Looping /\ todo # <<>> /\ Drop
    BY <1>4 DEF GenerateTimesOut, Looping, CheckInv, Calling
  <2> QED
    BY <2>1, TailNearer
<1>5. CASE BeginProvider
  <2>1. call = "none" /\ stage' = stage /\ call' \in {"list", "fetch", "each"}
    BY <1>5 DEF BeginProvider, Providers
  <2>2. CASE call' = "each"
    BY <2>1, <2>2, EnterNearer
  <2>3. CASE call' \in {"list", "fetch"}
    BY <2>1, <2>3, MaxModelsAssumption DEF CallsLeft, Nearer
  <2> QED
    BY <2>1, <2>2, <2>3
<1>6. CASE Listed
  <2>1. call \in {"list", "fetch"} /\ call' = "each" /\ stage' = stage
    BY <1>6 DEF Listed
  <2> QED
    BY <2>1, EnterNearer
<1>7. CASE Pulled
  <2>1. Looping /\ todo # <<>> /\ call = "pull"
    BY <1>7 DEF Pulled, Looping, CheckInv, Calling
  <2>2. Drop \/ Ask("embed")
    BY <1>7 DEF Pulled
  <2> QED
    BY <2>1, <2>2, TailNearer, AskNearer
<1>8. CASE Embedded
  <2>1. Looping /\ todo # <<>> /\ call = "embed"
    BY <1>8 DEF Embedded, Looping, CheckInv, Calling
  <2>2. Drop \/ Ask("generate")
    BY <1>8 DEF Embedded
  <2> QED
    BY <2>1, <2>2, TailNearer, AskNearer
<1>9. CASE Tested
  <2>1. Looping /\ todo # <<>> /\ (Pass \/ Drop)
    BY <1>9 DEF Tested, Looping, CheckInv, Calling
  <2> QED
    BY <2>1, TailNearer
<1> QED
  BY <1>1, <1>2, <1>3, <1>4, <1>5, <1>6, <1>7, <1>8, <1>9 DEF CheckStep, CheckAnswered

\* No request is repeated and no stage returned to: each step of the check lowers what is
\* left of it, and that is bounded by the number of models, so the check takes no more
\* than 9 * (4 * MaxModels + 7) steps however it is answered.
THEOREM CheckEnds ==
    Spec =>
        /\ CheckCountsDown
        /\ [](StagesLeft(stage) \in 0 .. 8 /\ CallsLeft \in 0 .. 4 * MaxModels + 6)
<1> DEFINE Left == StagesLeft(stage) \in 0 .. 8 /\ CallsLeft \in 0 .. 4 * MaxModels + 6
<1>1. CheckInv => Left
  BY LeftIsBounded
<1>2. ASSUME CheckInv, CheckInv', MainInv, [Next]_vars
      PROVE  main = "services" => \/ UNCHANGED checkVars
                                  \/ StagesLeft(stage') < StagesLeft(stage)
                                  \/ stage' = stage /\ CallsLeft' < CallsLeft
  BY <1>2, StepOfCheck, CheckNearer, EndsNearer DEF Nearer
<1> HIDE DEF Left
<1>3. Spec => []Left
  BY <1>1, TypeCorrect, PTL
<1>4. Spec => CheckCountsDown
  BY <1>2, TypeCorrect, PTL DEF Spec, CheckCountsDown
<1> QED
  BY <1>3, <1>4 DEF Left

(***************************************************************************)
(* The end of the process.                                                 *)
(***************************************************************************)

\* The order in which the parts are spawned ends with the node.
LEMMA SpawnedLast ==
    /\ SpawnOrder \in Seq(Parts) /\ SpawnOrder # <<>> /\ Last(SpawnOrder) = "node"
    /\ Range(SpawnOrder) = (Workers \cap needed) \cup {"p2p", "node"}
    /\ \A i \in DOMAIN SpawnOrder : SpawnOrder[i] = "node" => i = Len(SpawnOrder)
<1> DEFINE R == needed \cup {"p2p", "node"}
           all == <<"p2p", "batch", "single", "node">>
           front == <<"p2p", "batch", "single">>
           order == Only(front, R)
<1>1. /\ front \in Seq(Parts) /\ all \in Seq(Parts) /\ "node" \in Parts
      /\ all = Append(front, "node")
      /\ Range(front) = {"p2p", "batch", "single"}
  BY DEF Parts, Workers, Range
<1>2. "node" \in R /\ {"p2p", "batch", "single"} \cap R = (Workers \cap needed) \cup {"p2p"}
  BY DEF Workers
<1> HIDE DEF front, all, R
<1>3. order \in Seq(Parts) /\ Len(order) \in Nat
  BY <1>1, OnlyInSeq, LenProperties
<1>4. Range(order) = (Workers \cap needed) \cup {"p2p"}
  BY <1>1, <1>2, OnlyRange
<1>5. SpawnOrder = Append(order, "node")
  <2>1. Only(Append(front, "node"), R) = Append(Only(front, R), "node")
    BY <1>1, <1>2, OnlyAppend
  <2> QED
    BY <1>1, <2>1 DEF SpawnOrder, all, R
<1> HIDE DEF order
<1>6. /\ SpawnOrder \in Seq(Parts) /\ Len(SpawnOrder) = Len(order) + 1
      /\ SpawnOrder[Len(order) + 1] = "node"
      /\ \A i \in 1 .. Len(order) : SpawnOrder[i] = order[i]
  BY <1>1, <1>3, <1>5, AppendProperties
<1>7. Range(SpawnOrder) = Range(order) \cup {"node"}
  BY <1>1, <1>3, <1>5, RangeAppend
<1>8. ASSUME NEW i \in DOMAIN SpawnOrder, SpawnOrder[i] = "node"
      PROVE  i = Len(SpawnOrder)
  <2>1. i \in 1 .. Len(SpawnOrder) /\ DOMAIN order = 1 .. Len(order)
    BY <1>3, <1>6, LenProperties
  <2>2. CASE i \in 1 .. Len(order)
    <3>1. order[i] = "node" /\ order[i] \in Range(order)
      BY <1>6, <1>8, <2>1, <2>2 DEF Range
    <3> QED
      BY <1>4, <3>1 DEF Workers
  <2> QED
    BY <1>3, <1>6, <2>1, <2>2
<1>9. SpawnOrder # <<>> /\ Last(SpawnOrder) = "node"
  BY <1>3, <1>6 DEF Last
<1> QED
  BY <1>4, <1>6, <1>7, <1>8, <1>9

\* Which parts have been spawned when, and that none is spawned that is not needed.
SpawnedInTurn ==
    /\ main \in {"config", "services", "create"} => \A p \in Parts : part[p] = "none"
    /\ \A p \in Workers \ needed : part[p] = "none"
    /\ main = "wait" => \A p \in Parts \ (Workers \ needed) : part[p] # "none"
    /\ ExitsAfterAll

\* main spawns a part, the last one or another.
LEMMA StepSpawn ==
    ASSUME MainInv, SpawnedInTurn, NEW p \in Parts, Spawn(p)
    PROVE  SpawnedInTurn'
<1>1. /\ main = "spawn" /\ UNCHANGED needed /\ part' = [part EXCEPT ![p] = "running"]
      /\ main' = IF p = Last(SpawnOrder) THEN "wait" ELSE main
  BY DEF Spawn
<1>2. PICK i \in DOMAIN SpawnOrder :
        /\ SpawnOrder[i] = p
        /\ \A j \in DOMAIN SpawnOrder : part[SpawnOrder[j]] = "none" <=> j >= i
  BY DEF Spawn
<1>3. \A q \in Parts : part'[q] = IF q = p THEN "running" ELSE part[q]
  BY <1>1 DEF MainInv
<1>4. DOMAIN SpawnOrder = 1 .. Len(SpawnOrder) /\ Len(SpawnOrder) \in Nat
  BY SpawnedLast, LenProperties
<1>5. p \notin Workers \ needed
  <2>1. p \in Range(SpawnOrder)
    BY <1>2 DEF Range
  <2> QED
    BY <2>1, SpawnedLast DEF Workers
<1>6. \A q \in Workers \ needed : part'[q] = "none"
  BY <1>3, <1>5 DEF SpawnedInTurn, Parts
<1>7. ASSUME p = "node", NEW q \in Parts \ (Workers \ needed)
      PROVE  part'[q] # "none"
  <2>1. i = Len(SpawnOrder)
    BY <1>2, <1>7, SpawnedLast
  <2>2. q \in Range(SpawnOrder)
    BY SpawnedLast DEF Parts
  <2>3. PICK j \in DOMAIN SpawnOrder : SpawnOrder[j] = q
    BY <2>2 DEF Range
  <2>4. CASE j = i
    BY <1>2, <1>3, <2>3, <2>4
  <2>5. CASE j # i
    <3>1. ~(j >= i)
      BY <1>4, <2>1, <2>3, <2>5
    <3> QED
      BY <1>2, <1>3, <2>3, <3>1
  <2> QED
    BY <2>4, <2>5
<1>8. main' \in {"spawn", "wait"} /\ (main' = "wait" => p = "node")
  BY <1>1, SpawnedLast
<1> QED
  BY <1>1, <1>6, <1>7, <1>8 DEF SpawnedInTurn, ExitsAfterAll

\* When main has returned, no part is left running, and every one it spawned has ended.
THEOREM ExitsOverNothing == Spec => []ExitsAfterAll
<1>1. Init => SpawnedInTurn
  BY DEF Init, SpawnedInTurn, ExitsAfterAll, Workers, Parts
<1>2. ASSUME MainInv, SpawnedInTurn, [Next]_vars
      PROVE  SpawnedInTurn'
  <2>1. CASE UNCHANGED nodeVars
    BY <1>2, <2>1 DEF nodeVars, SpawnedInTurn, ExitsAfterAll
  <2>2. CASE LoadConfig \/ ServicesChecked \/ StartFails
    BY <1>2, <2>2 DEF LoadConfig, ServicesChecked, StartFails, GoOn, SpawnedInTurn, ExitsAfterAll
  <2>3. CASE CheckCancelled
    BY <1>2, <2>3 DEF CheckCancelled, GoOn, SpawnedInTurn, ExitsAfterAll
  <2>4. CASE CreateNode
    BY <1>2, <2>4 DEF CreateNode, GoOn, SpawnedInTurn, ExitsAfterAll, Parts
  <2>5. CASE Exit
    BY <1>2, <2>5 DEF Exit, GoOn, SpawnedInTurn, ExitsAfterAll, Parts
  <2>6. CASE \E p \in Parts : Spawn(p)
    BY <1>2, <2>6, StepSpawn
  <2>7. CASE UNCHANGED <<main, needed, part>>
    BY <1>2, <2>7 DEF SpawnedInTurn, ExitsAfterAll
  <2>8. ASSUME NEW p \in Parts, MovesOn(p)
        PROVE  SpawnedInTurn'
    <3>1. /\ UNCHANGED <<main, needed>> /\ main # "exited" /\ part[p] # "none"
          /\ \A q \in Parts : part'[q] = "none" <=> part[q] = "none"
      BY <1>2, <2>8 DEF MovesOn, Alive, MainInv
    <3>2. Workers \subseteq Parts
      BY DEF Parts
    <3> QED
      BY <1>2, <3>1, <3>2 DEF SpawnedInTurn, ExitsAfterAll
  <2> QED
    BY <1>2, <2>1, <2>2, <2>3, <2>4, <2>5, <2>6, <2>7, <2>8, StepOfMain
<1>3. SpawnedInTurn => ExitsAfterAll
  BY DEF SpawnedInTurn
<1> QED
  BY <1>1, <1>2, <1>3, TypeCorrect, PTL DEF Spec

=============================================================================
