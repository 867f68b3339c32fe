-------------------------- MODULE DebouncerProofs ---------------------------
(***************************************************************************)
(* Proofs about Debouncer, for every number of samples it asks for and     *)
(* histories of any length: its two small counters tell the debounced      *)
(* level of the whole history.                                             *)
(***************************************************************************)
EXTENDS Debouncer, SequenceTheorems, TLAPS

\* The counter counts the last samples of the awaited kind, the one before
\* them is of the other kind, and the debouncer is armed exactly while the
\* reference says released.
Inv ==
    /\ armed \in BOOLEAN /\ samples \in Seq(BOOLEAN)
    /\ stable \in 0..StableSamples - 1 /\ stable <= Len(samples)
    /\ \A i \in (Len(samples) - stable + 1)..Len(samples) : samples[i] = armed
    /\ Len(samples) > stable => samples[Len(samples) - stable] # armed
    /\ armed <=> ~Pressed(samples)

\* The window is not empty.
LEMMA Window == StableSamples \in Nat /\ StableSamples >= 1
  BY SamplesAssumption

\* One more sample leaves the windows before it alone.
LEMMA EarlierWindows ==
    ASSUME NEW s \in Seq(BOOLEAN), NEW p \in BOOLEAN, NEW k \in 1..Len(s),
           NEW level \in BOOLEAN
    PROVE  AgreeAt(Append(s, p), k, level) <=> AgreeAt(s, k, level)
  <1>1. \A i \in 1..Len(s) : Append(s, p)[i] = s[i]
    BY AppendProperties
  <1>2. Len(s) \in Nat
    OBVIOUS
  <1>3. ASSUME k >= StableSamples, NEW i \in (k - StableSamples + 1)..k
        PROVE  i \in 1..Len(s)
    BY <1>2, <1>3, Window
  <1> QED
    BY <1>1, <1>3 DEF AgreeAt

\* Only the window of the new sample can change the level.
LEMMA LevelStep ==
    ASSUME NEW s \in Seq(BOOLEAN), NEW p \in BOOLEAN
    PROVE  Pressed(Append(s, p)) <=>
             \/ AgreeAt(Append(s, p), Len(s) + 1, TRUE)
             \/ Pressed(s) /\ ~AgreeAt(Append(s, p), Len(s) + 1, FALSE)
  <1> DEFINE t == Append(s, p)
             m == Len(s)
  <1>1. m \in Nat /\ Len(t) = m + 1
    BY AppendProperties
  <1>2. \A k \in 1..m : /\ AgreeAt(t, k, TRUE) <=> AgreeAt(s, k, TRUE)
                        /\ AgreeAt(t, k, FALSE) <=> AgreeAt(s, k, FALSE)
    BY EarlierWindows
  <1>3. Pressed(s) <=> \E n \in 1..m : /\ AgreeAt(s, n, TRUE)
                                       /\ \A k \in (n + 1)..m : ~AgreeAt(s, k, FALSE)
    BY DEF Pressed
  <1>4. Pressed(t) <=> \E n \in 1..m + 1 :
                         /\ AgreeAt(t, n, TRUE)
                         /\ \A k \in (n + 1)..m + 1 : ~AgreeAt(t, k, FALSE)
    BY <1>1 DEF Pressed
  <1> HIDE DEF t, m
  <1>5. ASSUME Pressed(t)
        PROVE  AgreeAt(t, m + 1, TRUE) \/ (Pressed(s) /\ ~AgreeAt(t, m + 1, FALSE))
    <2>1. PICK n \in 1..m + 1 : /\ AgreeAt(t, n, TRUE)
                                /\ \A k \in (n + 1)..m + 1 : ~AgreeAt(t, k, FALSE)
      BY <1>4, <1>5
    <2>2. CASE n \in 1..m
      <3>1. m + 1 \in (n + 1)..m + 1 /\ \A k \in (n + 1)..m :
              k \in 1..m /\ k \in (n + 1)..m + 1
        BY <1>1, <2>2
      <3>2. ~AgreeAt(t, m + 1, FALSE) /\ \A k \in (n + 1)..m : ~AgreeAt(s, k, FALSE)
        BY <1>2, <2>1, <3>1
      <3>3. AgreeAt(s, n, TRUE)
        BY <1>2, <2>1, <2>2
      <3> QED
        BY <1>3, <2>2, <3>2, <3>3
    <2>3. CASE n = m + 1
      BY <2>1, <2>3
    <2>4. n \in 1..m \/ n = m + 1
      BY <1>1, <2>1
    <2> QED
      BY <2>2, <2>3, <2>4
  <1>6. ASSUME AgreeAt(t, m + 1, TRUE)
        PROVE  Pressed(t)
    <2>1. m + 1 \in 1..m + 1 /\ \A k \in ((m + 1) + 1)..m + 1 : FALSE
      BY <1>1
    <2> QED
      BY <1>4, <1>6, <2>1
  <1>7. ASSUME Pressed(s), ~AgreeAt(t, m + 1, FALSE)
        PROVE  Pressed(t)
    <2>1. PICK n \in 1..m : /\ AgreeAt(s, n, TRUE)
                            /\ \A k \in (n + 1)..m : ~AgreeAt(s, k, FALSE)
      BY <1>3, <1>7
    <2>2. n \in 1..m + 1 /\ AgreeAt(t, n, TRUE)
      <3>1. AgreeAt(t, n, TRUE)
        BY <1>2, <2>1
      <3>2. n \in 1..m + 1
        BY <1>1, <2>1
      <3> QED
        BY <3>1, <3>2
    <2>3. ASSUME NEW k \in (n + 1)..m + 1 PROVE ~AgreeAt(t, k, FALSE)
      <3>1. CASE k = m + 1
        BY <1>7, <3>1
      <3>2. CASE k \in (n + 1)..m
        <4>1. k \in 1..m
          BY <1>1, <3>2
        <4> QED
          BY <1>2, <2>1, <3>2, <4>1
      <3>3. k = m + 1 \/ k \in (n + 1)..m
        BY <1>1, <2>1
      <3> QED
        BY <3>1, <3>2, <3>3
    <2> QED
      BY <1>4, <2>2, <2>3
  <1> QED
    BY <1>5, <1>6, <1>7 DEF t, m

\* The reference is changed by Accept alone, which changes armed; its change
\* to pressed is the one that calls the action.
LEMMA SampleStep ==
    ASSUME Inv, Next
    PROVE  Inv' /\ fired' = IF Pressed(samples') /\ ~Pressed(samples) THEN fired + 1
                            ELSE fired
  <1>1. PICK p \in BOOLEAN :
          /\ samples' = Append(samples, p)
          /\ Mismatch(p) \/ Count(p) \/ Accept(p)
    BY DEF Next, Sample
  <1> DEFINE s == samples
             t == Append(samples, p)
             m == Len(samples)
             c == stable
  <1>2. /\ armed \in BOOLEAN /\ s \in Seq(BOOLEAN)
        /\ c \in 0..StableSamples - 1 /\ c <= m
        /\ \A i \in (m - c + 1)..m : s[i] = armed
        /\ m > c => s[m - c] # armed
        /\ armed <=> ~Pressed(s)
    BY DEF Inv
  <1>3. m \in Nat /\ t \in Seq(BOOLEAN) /\ Len(t) = m + 1 /\ t[m + 1] = p
        /\ \A i \in 1..m : t[i] = s[i]
    BY <1>2, AppendProperties
  <1>4. Pressed(t) <=> \/ AgreeAt(t, m + 1, TRUE)
                       \/ Pressed(s) /\ ~AgreeAt(t, m + 1, FALSE)
    BY <1>2, LevelStep
  <1>5. StableSamples \in Nat /\ c \in Nat /\ m + 1 \in Nat
    BY <1>2, <1>3, Window
  <1>6. samples' = t
    BY <1>1
  <1> HIDE DEF s, t, m
  <1>7. \A level \in BOOLEAN : p # level => ~AgreeAt(t, m + 1, level)
    <2> SUFFICES ASSUME NEW level \in BOOLEAN, p # level
                 PROVE  ~AgreeAt(t, m + 1, level)
      OBVIOUS
    <2>1. m + 1 \in ((m + 1) - StableSamples + 1)..m + 1
      BY <1>5, Window
    <2>2. AgreeAt(t, m + 1, level) => t[m + 1] = level
      BY <2>1 DEF AgreeAt
    <2> QED
      BY <1>3, <2>2
  <1>8. CASE Mismatch(p)
    <2>1. p # armed /\ stable' = 0 /\ armed' = armed /\ fired' = fired
      BY <1>8 DEF Mismatch, AfterMismatch
    <2>2. ~AgreeAt(t, m + 1, armed)
      BY <1>2, <1>7, <2>1
    <2>3. Pressed(t) <=> Pressed(s)
      BY <1>2, <1>4, <2>2, Zenon
    <2>5. /\ stable' \in 0..StableSamples - 1 /\ stable' <= Len(t)
          /\ \A i \in (Len(t) - stable' + 1)..Len(t) : t[i] = armed
          /\ Len(t) - stable' = m + 1
      BY <1>3, <1>5, <2>1, Window
    <2>6. t[Len(t) - stable'] # armed'
      BY <1>3, <2>1, <2>5
    <2>7. armed' <=> ~Pressed(t)
      BY <1>2, <2>1, <2>3
    <2>8. Inv'
      BY <1>2, <1>3, <1>6, <2>1, <2>5, <2>6, <2>7 DEF Inv
    <2> QED
      BY <1>6, <2>1, <2>3, <2>8 DEF s
  <1>9. CASE Count(p)
    <2>1. /\ p = armed /\ c + 1 < StableSamples /\ stable' = c + 1
          /\ armed' = armed /\ fired' = fired
      BY <1>9 DEF Count
    <2>2. ~AgreeAt(t, m + 1, armed)
      <3> SUFFICES ASSUME AgreeAt(t, m + 1, armed) PROVE FALSE
        OBVIOUS
      <3>1. /\ m + 1 >= StableSamples
            /\ \A i \in ((m + 1) - StableSamples + 1)..m + 1 : t[i] = armed
        BY DEF AgreeAt
      <3>2. /\ m - c \in ((m + 1) - StableSamples + 1)..m + 1
            /\ m > c /\ m - c \in 1..m
        BY <1>2, <1>3, <1>5, <2>1, <3>1
      <3>3. t[m - c] # armed
        BY <1>2, <1>3, <3>2
      <3> QED
        BY <3>1, <3>2, <3>3
    <2>3. \A level \in BOOLEAN : level # armed => ~AgreeAt(t, m + 1, level)
      BY <1>7, <2>1
    <2>4. Pressed(t) <=> Pressed(s)
      <3>1. CASE armed = TRUE
        BY <1>4, <2>2, <2>3, <3>1
      <3>2. CASE armed = FALSE
        BY <1>4, <2>2, <2>3, <3>2
      <3> QED
        BY <1>2, <3>1, <3>2
    <2>5. /\ stable' \in 0..StableSamples - 1 /\ stable' <= Len(t)
          /\ Len(t) - stable' = m - c /\ Len(t) - stable' + 1 = m - c + 1
          /\ Len(t) > stable' => m > c /\ m - c \in 1..m
      BY <1>2, <1>3, <1>5, <2>1
    <2>6. ASSUME NEW i \in (m - c + 1)..m + 1 PROVE t[i] = armed
      <3>1. CASE i = m + 1
        BY <1>3, <2>1, <3>1
      <3>2. CASE i \in (m - c + 1)..m
        <4>1. i \in 1..m
          BY <1>2, <1>3, <1>5, <3>2
        <4> QED
          BY <1>2, <1>3, <3>2, <4>1
      <3> QED
        BY <1>2, <1>3, <1>5, <3>1, <3>2
    <2>7. Len(t) > stable' => t[Len(t) - stable'] # armed
      BY <1>2, <1>3, <2>5
    <2>8. armed' <=> ~Pressed(t)
      BY <1>2, <2>1, <2>4
    <2>9. Inv'
      BY <1>2, <1>3, <1>6, <2>1, <2>5, <2>6, <2>7, <2>8 DEF Inv
    <2> QED
      BY <1>6, <2>1, <2>4, <2>9 DEF s
  <1>10. CASE Accept(p)
    <2>1. /\ p = armed /\ c + 1 >= StableSamples /\ stable' = 0
          /\ armed' = ~armed /\ fired' = IF armed THEN fired + 1 ELSE fired
      BY <1>10 DEF Accept
    <2>2. AgreeAt(t, m + 1, armed)
      <3>1. m + 1 >= StableSamples
        BY <1>2, <1>3, <1>5, <2>1
      <3>2. ASSUME NEW i \in ((m + 1) - StableSamples + 1)..m + 1 PROVE t[i] = armed
        <4>1. CASE i = m + 1
          BY <1>3, <2>1, <4>1
        <4>2. CASE i # m + 1
          <5>1. i \in (m - c + 1)..m /\ i \in 1..m
            BY <1>2, <1>3, <1>5, <2>1, <4>2, <3>1
          <5> QED
            BY <1>2, <1>3, <5>1
        <4> QED
          BY <4>1, <4>2
      <3> QED
        BY <3>1, <3>2 DEF AgreeAt
    <2>3. \A level \in BOOLEAN : level # armed => ~AgreeAt(t, m + 1, level)
      BY <1>7, <2>1
    <2>4. Pressed(t) <=> armed
      <3>1. CASE armed = TRUE
        BY <1>4, <2>2, <2>3, <3>1
      <3>2. CASE armed = FALSE
        BY <1>4, <2>2, <2>3, <3>2
      <3> QED
        BY <1>2, <3>1, <3>2
    <2>5. /\ stable' \in 0..StableSamples - 1 /\ stable' <= Len(t)
          /\ \A i \in (Len(t) - stable' + 1)..Len(t) : t[i] = armed'
          /\ Len(t) - stable' = m + 1
      BY <1>3, <1>5, <2>1, Window
    <2>6. armed' # armed
      BY <1>2, <2>1
    <2>7. t[Len(t) - stable'] # armed'
      BY <1>3, <2>1, <2>5, <2>6
    <2>8. (armed' <=> ~Pressed(t)) /\ armed' \in BOOLEAN
      BY <1>2, <2>1, <2>4
    <2>9. Inv'
      BY <1>2, <1>3, <1>6, <2>1, <2>5, <2>7, <2>8 DEF Inv
    <2>10. Pressed(t) /\ ~Pressed(s) <=> armed
      BY <1>2, <2>4
    <2> QED
      BY <1>6, <2>1, <2>9, <2>10 DEF s
  <1> QED
    BY <1>1, <1>8, <1>9, <1>10

\* The action is called once per press of the reference, neither for a spike
\* nor twice for one press, nor for bounce on release, for every number of
\* samples edge_task may ask for.
THEOREM PressesCountOnce == Spec => OncePerPress
  <1>1. Init => Inv
    <2> SUFFICES ASSUME Init PROVE Inv
      OBVIOUS
    <2>1. Len(<<>>) = 0 /\ <<>> \in Seq(BOOLEAN)
      OBVIOUS
    <2>2. ~Pressed(<<>>)
      BY <2>1 DEF Pressed
    <2> QED
      BY <2>1, <2>2, Window DEF Init, Inv
  <1>2. Inv /\ UNCHANGED vars => Inv'
    BY DEF Inv, vars
  <1>3. Inv /\ [Next]_vars =>
          Inv' /\ [fired' = IF Pressed(samples') /\ ~Pressed(samples) THEN fired + 1
                            ELSE fired]_vars
    BY <1>2, SampleStep
  <1> QED
    BY <1>1, <1>3, PTL DEF Spec, OncePerPress
=============================================================================
