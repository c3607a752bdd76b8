-------------------------- MODULE ProvidersProofs ---------------------------
(***************************************************************************)
(* Proofs about the provider registry: the inductive invariant IInv of     *)
(* Providers and the properties that follow from it, for any set of        *)
(* providers, endpoints, environments and tasks.                           *)
(***************************************************************************)
EXTENDS Providers, TLAPS

Probe == [name : Provider, endpoint : Address]
Health == [endpoint : Address, ok : BOOLEAN]

Rest == UNCHANGED vars

(***************************************************************************)
(* The table.                                                              *)
(***************************************************************************)

\* A row written by upsert_provider_config keeps the table well-formed with one default.
LEMMA UpsertKeeps ==
    ASSUME profile \in [Provider -> LocalRow \union {NoRow}], OneDefault,
           NEW n \in Provider, NEW row \in LocalRow, Upsert(n, row)
    PROVE  /\ profile' \in [Provider -> LocalRow \union {NoRow}]
           /\ OneDefault'
           /\ profile'[n] = row
           /\ \A m \in Provider : profile'[m] = NoRow <=> profile[m] = NoRow /\ m # n
           /\ \A m \in Provider \ {n} :
                  /\ Default(m)' => Default(m) /\ ~ row.default
                  /\ profile[m] # NoRow => /\ profile'[m].endpoint = profile[m].endpoint
                                           /\ profile'[m].enabled = profile[m].enabled
<1>1. NoRow \notin LocalRow
  BY SentinelAssumption DEF LocalRow, Row
<1>2. \A m \in Provider : profile'[m] =
          IF m = n THEN row
          ELSE IF row.default /\ profile[m] # NoRow THEN [profile[m] EXCEPT !.default = FALSE]
          ELSE profile[m]
  BY DEF Upsert
<1>3. \A m \in Provider : profile[m] # NoRow =>
          LET cleared == [profile[m] EXCEPT !.default = FALSE]
          IN  /\ cleared \in LocalRow /\ cleared.default = FALSE
              /\ cleared.endpoint = profile[m].endpoint /\ cleared.enabled = profile[m].enabled
  <2> SUFFICES ASSUME NEW m \in Provider, profile[m] # NoRow
               PROVE  LET cleared == [profile[m] EXCEPT !.default = FALSE]
                      IN  /\ cleared \in LocalRow /\ cleared.default = FALSE
                          /\ cleared.endpoint = profile[m].endpoint
                          /\ cleared.enabled = profile[m].enabled
    OBVIOUS
  <2>1. profile[m] \in LocalRow
    OBVIOUS
  <2> QED
    BY <2>1 DEF LocalRow, Row
<1>4. \A m \in Provider : profile'[m] \in LocalRow \union {NoRow}
  BY <1>2, <1>3
<1>5. profile' \in [Provider -> LocalRow \union {NoRow}]
  <2>1. profile' = [m \in Provider |-> profile'[m]]
    BY <1>2 DEF Upsert
  <2> QED
    BY <1>4, <2>1
<1>6. \A m \in Provider : profile'[m] = NoRow <=> profile[m] = NoRow /\ m # n
  BY <1>1, <1>2, <1>3
<1>7. profile'[n] = row
  BY <1>2
<1>8. ASSUME NEW m \in Provider \ {n}
      PROVE  /\ Default(m)' => Default(m) /\ ~ row.default
             /\ profile[m] # NoRow => /\ profile'[m].endpoint = profile[m].endpoint
                                      /\ profile'[m].enabled = profile[m].enabled
  BY <1>2, <1>3, <1>6 DEF Default
<1>9. OneDefault'
  <2> SUFFICES ASSUME NEW a \in Provider, NEW b \in Provider, Default(a)', Default(b)', a # b
               PROVE  FALSE
    BY DEF OneDefault
  <2>1. CASE a = n
    BY <1>7, <1>8, <2>1 DEF Default
  <2>2. CASE b = n
    BY <1>7, <1>8, <2>2 DEF Default
  <2>3. CASE a # n /\ b # n
    BY <1>8, <2>3 DEF OneDefault
  <2> QED
    BY <2>1, <2>2, <2>3
<1> QED
  BY <1>5, <1>6, <1>7, <1>8, <1>9

\* What _reload leaves behind: adapters for the rows there are and no health result.
LEMMA ReloadKeeps ==
    ASSUME TypeOK, NEW rows \in [Provider -> LocalRow \union {NoRow}],
           \A n \in Provider : rows[n] # NoRow, Reload(rows), UNCHANGED probe
    PROVE  /\ adapter' \in [Provider -> Address \union {NoAdapter}]
           /\ health' \in [Provider -> Health \union {NoHealth}]
           /\ raced' \subseteq Provider
           /\ \A n \in Provider : adapter'[n] = rows[n].endpoint
           /\ HealthIsCurrent' /\ ProbesKnown'
<1>1. \A n \in Provider : rows[n].endpoint \in Address
  BY DEF LocalRow, Row
<1>2. adapter' \in [Provider -> Address \union {NoAdapter}]
  BY <1>1 DEF Reload
<1>3. health' \in [Provider -> Health \union {NoHealth}] /\ \A n \in Provider : health'[n] = NoHealth
  BY DEF Reload
<1>4. raced' \subseteq Provider
  BY DEF Reload
<1>5. ProbesKnown'
  <2> SUFFICES ASSUME NEW t \in Task, probe[t] # NoProbe
               PROVE  probe[t].name \in raced'
    BY DEF ProbesKnown
  <2>1. probe[t] \in Probe
    BY DEF TypeOK, Probe
  <2> QED
    BY <2>1 DEF Reload, Probe
<1> QED
  BY <1>2, <1>3, <1>4, <1>5 DEF Reload, HealthIsCurrent

(***************************************************************************)
(* The initial states and the steps.                                       *)
(***************************************************************************)

LEMMA InitHolds == ASSUME Init PROVE IInv
<1>1. TypeOK
  BY DEF Init, TypeOK
<1>2. \A n \in Provider : ~ Default(n)
  BY DEF Init, Default
<1> QED
  BY <1>1, <1>2 DEF Init, IInv, OneDefault, AdaptersMatch, HealthIsCurrent, ProbesKnown, Seeded,
      WantedIsDefault

\* A request that writes a profile and rebuilds the adapters.
LEMMA Rewrites ==
    ASSUME IInv, up = "running", NEW n \in Provider, NEW row \in LocalRow, profile[n] # NoRow,
           Upsert(n, row), Reload(profile'), UNCHANGED <<up, seeding, llm, probe>>
    PROVE  IInv'
<1>1. /\ profile' \in [Provider -> LocalRow \union {NoRow}]
      /\ OneDefault'
      /\ \A m \in Provider : profile'[m] = NoRow <=> profile[m] = NoRow /\ m # n
  BY UpsertKeeps DEF IInv, TypeOK
<1>2. \A m \in Provider : profile'[m] # NoRow
  BY <1>1 DEF IInv, AdaptersMatch
<1>3. /\ adapter' \in [Provider -> Address \union {NoAdapter}]
      /\ health' \in [Provider -> Health \union {NoHealth}]
      /\ raced' \subseteq Provider
      /\ \A m \in Provider : adapter'[m] = profile'[m].endpoint
      /\ HealthIsCurrent' /\ ProbesKnown'
  <2>1. TypeOK
    BY DEF IInv
  <2> QED
    BY <1>1, <1>2, <2>1, ReloadKeeps
<1>4. TypeOK'
  BY <1>1, <1>3 DEF IInv, TypeOK, seeding, Health
<1> QED
  BY <1>1, <1>2, <1>3, <1>4 DEF IInv, AdaptersMatch, Seeded, WantedIsDefault, seeding

LEMMA SeedProfileStep ==
    ASSUME IInv, SeedProfile
    PROVE  /\ IInv'
           /\ \A m \in Provider : profile[m] # NoRow => profile'[m] = profile[m]
<1> DEFINE n == Head(todo)
           row == [endpoint |-> env.endpoint[n], enabled |-> env.endpoint[n] \in Endpoint \ Remote,
                   default |-> n = wanted]
<1>1. /\ todo \in Seq(Provider) /\ todo # <<>> /\ todo' = Tail(todo) /\ n \in Provider
      /\ up = "profiles" /\ env \in Env
  BY DEF IInv, TypeOK, SeedProfile
<1>2. row \in LocalRow
  <2>1. env.endpoint[n] \in Address
    BY <1>1, EnvAssumption
  <2>2. ASSUME NEW a \in Address, NEW e \in BOOLEAN, NEW d \in BOOLEAN, e => a \notin Remote
        PROVE  [endpoint |-> a, enabled |-> e, default |-> d] \in LocalRow
    BY <2>2 DEF LocalRow, Row
  <2>3. (n = wanted) \in BOOLEAN /\ (env.endpoint[n] \in Endpoint \ Remote) \in BOOLEAN
    OBVIOUS
  <2> HIDE DEF n
  <2> QED
    BY <2>1, <2>2, <2>3
<1>3. todo' \in Seq(Provider)
  BY <1>1
<1>4. \A m \in Provider : (\E i \in DOMAIN todo : todo[i] = m) => m = n \/ \E i \in DOMAIN todo' : todo'[i] = m
  <2> SUFFICES ASSUME NEW m \in Provider, NEW i \in DOMAIN todo, todo[i] = m, m # n
               PROVE  \E j \in DOMAIN todo' : todo'[j] = m
    OBVIOUS
  <2>1. i \in 1..Len(todo) /\ i # 1 /\ Len(todo) \in Nat
    BY <1>1
  <2>2. Len(todo') = Len(todo) - 1 /\ \A j \in 1..Len(todo') : todo'[j] = todo[j + 1]
    BY <1>1
  <2>3. i - 1 \in 1..Len(todo') /\ todo'[i - 1] = m
    BY <2>1, <2>2
  <2>4. DOMAIN todo' = 1..Len(todo')
    BY <1>3
  <2> QED
    BY <2>3, <2>4
<1>5. /\ profile' \in [Provider -> LocalRow \union {NoRow}]
      /\ OneDefault'
      /\ \A m \in Provider : profile'[m] = NoRow <=> profile[m] = NoRow /\ m # n
      /\ \A m \in Provider : Default(m)' => wanted = m
      /\ \A m \in Provider : profile[m] # NoRow => profile'[m] = profile[m]
  <2>1. CASE profile[n] # NoRow
    <3>1. profile' = profile
      BY <2>1 DEF SeedProfile
    <3> QED
      BY <1>1, <2>1, <3>1 DEF IInv, TypeOK, OneDefault, Default, WantedIsDefault
  <2>2. CASE profile[n] = NoRow
    <3>1. Upsert(n, row)
      BY <2>2 DEF SeedProfile
    <3> HIDE DEF n
    <3>2. row.default <=> n = wanted
      OBVIOUS
    <3> HIDE DEF row
    <3>3. /\ profile' \in [Provider -> LocalRow \union {NoRow}]
          /\ OneDefault'
          /\ profile'[n] = row
          /\ \A m \in Provider : profile'[m] = NoRow <=> profile[m] = NoRow /\ m # n
          /\ \A m \in Provider \ {n} : Default(m)' => Default(m) /\ ~ row.default
      BY <1>1, <1>2, <3>1, UpsertKeeps DEF IInv, TypeOK
    <3>4. \A m \in Provider : Default(m)' => wanted = m
      BY <1>1, <3>2, <3>3 DEF IInv, WantedIsDefault, Default
    <3>5. ASSUME NEW m \in Provider, profile[m] # NoRow PROVE profile'[m] = profile[m]
      <4>1. m # n /\ profile[m] \in LocalRow
        BY <2>2, <3>5 DEF IInv, TypeOK
      <4>2. row.default => profile[m].default = FALSE
        <5>1. profile[m].default \in BOOLEAN
          BY <4>1 DEF LocalRow, Row
        <5>2. Default(m) => wanted = m
          BY <1>1 DEF IInv, WantedIsDefault
        <5> QED
          BY <3>2, <3>5, <4>1, <5>1, <5>2 DEF Default
      <4>3. profile[m].default = FALSE => [profile[m] EXCEPT !.default = FALSE] = profile[m]
        BY <4>1 DEF LocalRow, Row
      <4>4. profile'[m] = IF row.default THEN [profile[m] EXCEPT !.default = FALSE] ELSE profile[m]
        BY <3>1, <3>5, <4>1 DEF Upsert
      <4> QED
        BY <4>2, <4>3, <4>4
    <3> QED
      BY <3>3, <3>4, <3>5
  <2> QED
    BY <2>1, <2>2
<1>6. UNCHANGED <<up, env, wanted, llm, adapter, health, probe, raced>>
  BY DEF SeedProfile, memory
<1> HIDE DEF n, row
<1>7. TypeOK'
  BY <1>3, <1>5, <1>6 DEF IInv, TypeOK
<1>8. Seeded'
  BY <1>1, <1>4, <1>5, <1>6 DEF IInv, Seeded
<1> QED
  BY <1>1, <1>5, <1>6, <1>7, <1>8 DEF IInv, AdaptersMatch, HealthIsCurrent, ProbesKnown, WantedIsDefault

LEMMA StepHolds == ASSUME IInv, [Next]_vars PROVE IInv'
<1>1. CASE Rest
  BY <1>1 DEF Rest, vars, IInv, TypeOK, OneDefault, Default, AdaptersMatch, HealthIsCurrent, ProbesKnown,
      Seeded, WantedIsDefault
<1>2. ASSUME NEW e \in Env, Start(e) PROVE IInv'
  <2>1. TypeOK'
    BY <1>2 DEF IInv, TypeOK, Start, memory
  <2> QED
    BY <1>2, <2>1 DEF Start, memory, IInv, OneDefault, Default, AdaptersMatch, HealthIsCurrent,
        ProbesKnown, Seeded, WantedIsDefault
<1>3. CASE SeedLlm
  <2>1. TypeOK'
    BY <1>3, EnvAssumption, ProviderAssumption DEF IInv, TypeOK, SeedLlm, memory
  <2>2. WantedIsDefault'
    <3> SUFFICES ASSUME NEW n \in Provider, Default(n) PROVE wanted' = n
      BY <1>3 DEF WantedIsDefault, SeedLlm, Default
    <3>1. StoredDefault = n
      BY DEF IInv, OneDefault, StoredDefault
    <3> QED
      BY <1>3, <3>1, SentinelAssumption DEF SeedLlm
  <2>3. Seeded'
    BY <1>3, ProviderAssumption DEF IInv, Seeded, SeedLlm, memory
  <2> QED
    BY <1>3, <2>1, <2>2, <2>3 DEF SeedLlm, memory, IInv, OneDefault, Default, AdaptersMatch,
        HealthIsCurrent, ProbesKnown
<1>4. CASE SeedProfile
  BY <1>4, SeedProfileStep
<1>5. CASE Ready
  <2>1. \A n \in Provider : profile[n] # NoRow
    BY <1>5 DEF Ready, IInv, Seeded
  <2>2. /\ adapter' \in [Provider -> Address \union {NoAdapter}]
        /\ health' \in [Provider -> Health \union {NoHealth}]
        /\ raced' \subseteq Provider
        /\ \A n \in Provider : adapter'[n] = profile[n].endpoint
        /\ HealthIsCurrent' /\ ProbesKnown'
    BY <1>5, <2>1, ReloadKeeps DEF Ready, IInv, TypeOK
  <2>3. TypeOK'
    BY <1>5, <2>2 DEF IInv, TypeOK, Ready, seeding, Health
  <2> QED
    BY <1>5, <2>1, <2>2, <2>3 DEF Ready, seeding, IInv, OneDefault, Default, AdaptersMatch, Seeded,
        WantedIsDefault
<1>6. CASE Stop
  <2>1. TypeOK'
    BY <1>6 DEF IInv, TypeOK, Stop
  <2> QED
    BY <1>6, <2>1 DEF Stop, IInv, OneDefault, Default, AdaptersMatch, HealthIsCurrent, ProbesKnown,
        Seeded, WantedIsDefault
<1>7. ASSUME NEW n \in Provider, SetDefault(n) PROVE IInv'
  <2> DEFINE row == [profile[n] EXCEPT !.default = TRUE]
  <2>1. row \in LocalRow
    <3>1. profile[n] \in LocalRow
      BY <1>7 DEF IInv, TypeOK, SetDefault
    <3> QED
      BY <3>1 DEF LocalRow, Row
  <2>2. /\ up = "running" /\ profile[n] # NoRow /\ Upsert(n, row) /\ Reload(profile')
        /\ UNCHANGED <<up, seeding, llm, probe>>
    BY <1>7 DEF SetDefault
  <2> HIDE DEF row
  <2> QED
    BY <2>1, <2>2, Rewrites
<1>8. ASSUME NEW n \in Provider, NEW row \in Row, UpdateProfile(n, row) PROVE IInv'
  <2>1. row \in LocalRow
    BY <1>8 DEF UpdateProfile, LocalRow
  <2>2. /\ up = "running" /\ profile[n] # NoRow /\ Upsert(n, row) /\ Reload(profile')
        /\ UNCHANGED <<up, seeding, llm, probe>>
    BY <1>8 DEF UpdateProfile
  <2> QED
    BY <2>1, <2>2, Rewrites
<1>9. ASSUME NEW enabled \in BOOLEAN, SetLlm(enabled) PROVE IInv'
  <2>1. TypeOK'
    BY <1>9 DEF IInv, TypeOK, SetLlm, seeding, memory
  <2> QED
    BY <1>9, <2>1 DEF SetLlm, seeding, memory, IInv, OneDefault, Default, AdaptersMatch, HealthIsCurrent,
        ProbesKnown, Seeded, WantedIsDefault
<1>10. ASSUME NEW n \in Provider, ExpireHealth(n) PROVE IInv'
  <2>1. TypeOK'
    BY <1>10 DEF IInv, TypeOK, ExpireHealth, seeding
  <2>2. HealthIsCurrent' /\ Seeded'
    BY <1>10 DEF IInv, TypeOK, HealthIsCurrent, Seeded, ExpireHealth, seeding
  <2> QED
    BY <1>10, <2>1, <2>2 DEF ExpireHealth, seeding, IInv, OneDefault, Default, AdaptersMatch, ProbesKnown,
        WantedIsDefault
<1>11. ASSUME NEW t \in Task, NEW n \in Provider, ProbeStart(t, n) PROVE IInv'
  <2>1. up = "running" /\ adapter[n] \in Address
    BY <1>11 DEF ProbeStart, IInv, TypeOK
  <2> DEFINE p == [name |-> n, endpoint |-> adapter[n]]
  <2>2. p \in Probe /\ p.name = n /\ p.endpoint = adapter[n]
    BY <2>1 DEF Probe
  <2>3. probe' = [probe EXCEPT ![t] = p]
    BY <1>11 DEF ProbeStart
  <2> HIDE DEF p
  <2>4. TypeOK'
    BY <1>11, <2>2, <2>3 DEF IInv, TypeOK, ProbeStart, seeding, Probe
  <2>5. ProbesKnown'
    BY <1>11, <2>2, <2>3 DEF IInv, TypeOK, ProbesKnown, ProbeStart
  <2> QED
    BY <1>11, <2>1, <2>4, <2>5 DEF ProbeStart, seeding, IInv, OneDefault, Default, AdaptersMatch,
        HealthIsCurrent, Seeded, WantedIsDefault
<1>12. ASSUME NEW t \in Task, ProbeEnd(t) PROVE IInv'
  <2>1. probe[t] # NoProbe /\ probe[t] \in Probe
    BY <1>12 DEF ProbeEnd, IInv, TypeOK, Probe
  <2>2. PICK ok \in BOOLEAN :
            health' = [health EXCEPT ![probe[t].name] = [endpoint |-> probe[t].endpoint, ok |-> ok]]
    BY <1>12 DEF ProbeEnd
  <2> DEFINE h == [endpoint |-> probe[t].endpoint, ok |-> ok]
  <2>3. probe[t].name \in Provider /\ h \in Health /\ h.endpoint = probe[t].endpoint
    BY <2>1, <2>2 DEF Probe, Health
  <2>4. health' = [health EXCEPT ![probe[t].name] = h]
    BY <2>2
  <2> HIDE DEF h
  <2>5. TypeOK'
    BY <1>12, <2>3, <2>4 DEF IInv, TypeOK, ProbeEnd, seeding, Health
  <2>6. HealthIsCurrent'
    BY <1>12, <2>1, <2>3, <2>4 DEF IInv, TypeOK, HealthIsCurrent, ProbesKnown, ProbeEnd
  <2>7. up = "running"
    BY <2>1 DEF IInv, TypeOK, Seeded
  <2>8. ProbesKnown'
    BY <1>12 DEF IInv, TypeOK, ProbesKnown, ProbeEnd
  <2> QED
    BY <1>12, <2>5, <2>6, <2>7, <2>8 DEF ProbeEnd, seeding, IInv, OneDefault, Default, AdaptersMatch,
        Seeded, WantedIsDefault
<1>13. ASSUME NEW t \in Task, ProbeCancelled(t) PROVE IInv'
  <2>1. TypeOK'
    BY <1>13 DEF IInv, TypeOK, ProbeCancelled, seeding
  <2>2. ProbesKnown' /\ Seeded'
    BY <1>13 DEF IInv, TypeOK, ProbesKnown, Seeded, ProbeCancelled, seeding
  <2> QED
    BY <1>13, <2>1, <2>2 DEF ProbeCancelled, seeding, IInv, OneDefault, Default, AdaptersMatch,
        HealthIsCurrent, WantedIsDefault
<1> QED
  BY <1>1, <1>2, <1>3, <1>4, <1>5, <1>6, <1>7, <1>8, <1>9, <1>10, <1>11, <1>12, <1>13 DEF Next, Rest

(***************************************************************************)
(* The results.                                                            *)
(***************************************************************************)

\* IInv holds in every reachable state.
THEOREM Inductive == Spec => []IInv
<1>1. Init => IInv
  BY InitHolds
<1>2. IInv /\ [Next]_vars => IInv'
  BY StepHolds
<1> QED
  BY <1>1, <1>2, PTL DEF Spec

\* The registry is well-formed, and no enabled profile is remote.
THEOREM TypeCorrect == Spec => []TypeOK
<1>1. IInv => TypeOK
  BY DEF IInv
<1> QED
  BY <1>1, Inductive, PTL

\* There is never more than one default provider.
THEOREM SingleDefault == Spec => []OneDefault
<1>1. IInv => OneDefault
  BY DEF IInv
<1> QED
  BY <1>1, Inductive, PTL

\* While requests are served, every adapter talks to the stored endpoint.
THEOREM Synchronised == Spec => []AdaptersMatch
<1>1. IInv => AdaptersMatch
  BY DEF IInv
<1> QED
  BY <1>1, Inductive, PTL

\* A cached health result describes the configured endpoint unless a probe raced a rebuild.
THEOREM FreshHealth == Spec => []HealthIsCurrent
<1>1. IInv => HealthIsCurrent
  BY DEF IInv
<1> QED
  BY <1>1, Inductive, PTL

\* No start changes a stored profile, nor with it the stored default.
THEOREM StartsKeepChoices == Spec => ChoicesSurvive
<1> DEFINE Kept == up # "running" => \A n \in Provider : profile[n] # NoRow => profile'[n] = profile[n]
<1>1. ASSUME IInv, [Next]_vars PROVE [Kept]_vars
  <2>1. CASE Rest
    BY <2>1 DEF Rest
  <2>2. CASE SeedProfile
    BY <1>1, <2>2, SeedProfileStep
  <2>3. CASE SeedLlm
    BY <2>3 DEF SeedLlm
  <2>4. CASE \E e \in Env : Start(e)
    BY <2>4 DEF Start
  <2>5. CASE Ready \/ Stop
    BY <2>5 DEF Ready, Stop
  <2>6. CASE \E t \in Task : ProbeEnd(t) \/ ProbeCancelled(t) \/ \E n \in Provider : ProbeStart(t, n)
    BY <2>6 DEF ProbeEnd, ProbeCancelled, ProbeStart
  <2>7. CASE \E n \in Provider : SetDefault(n) \/ ExpireHealth(n) \/ \E row \in Row : UpdateProfile(n, row)
    BY <2>7 DEF SetDefault, ExpireHealth, UpdateProfile
  <2>8. CASE \E enabled \in BOOLEAN : SetLlm(enabled)
    BY <2>8 DEF SetLlm
  <2> QED
    BY <1>1, <2>1, <2>2, <2>3, <2>4, <2>5, <2>6, <2>7, <2>8 DEF Next, Rest
<1>2. Spec => [][Kept]_vars
  <2>1. IInv /\ [Next]_vars => [Kept]_vars
    BY <1>1
  <2> HIDE DEF Kept
  <2> QED
    BY <2>1, Inductive, PTL DEF Spec
<1> QED
  BY <1>2 DEF ChoicesSurvive
=============================================================================
