----------------------------- MODULE ChatProofs -----------------------------
(***************************************************************************)
(* Proofs about chatting, for any rows, any number of messages and any     *)
(* order in which observers are told.                                      *)
(***************************************************************************)
EXTENDS Chat, SequenceTheorems, TLAPS

\* A message of the app is dated with its key or a second later, whatever
\* it replaced.
OwnRows == \A k \in 0 .. MaxTime : Mine(k) => rows[k] \in {k, k + 1}

\* No row of the shop is another user's.
ShopRows == \A k \in ShopKeys : Present(k) => Mine(k)

\* What the tab lists of a row of the shop is when it was written; of one of the
\* app it is one of the two dates that its key allows.
Near(m) == IF m.key \in ShopKeys THEN m.at = rows[m.key] ELSE m.at \in {m.key, m.key + 1}
DatesAreNear == \A i \in 1 .. Len(tab) : Near(tab[i])

\* The first of the tab's list is not older than any other.
FirstIsLatest == \A i \in 1 .. Len(tab) : tab[i].at <= tab[1].at

\* A conversation that is not open has nothing to be told of.
ClosedIsEmpty == screen = "tab" => talk = <<>> /\ coming = {} /\ talkDropped = {}

\* An observer is told of a row once.
ToldOnce == tabDropped \cap due = {} /\ talkDropped \cap coming = {}

\* The inductive invariant.
IInv ==
    /\ TypeOK
    /\ ListedOnce
    /\ OwnRows
    /\ ShopRows
    /\ DatesAreNear
    /\ FirstIsLatest
    /\ ClosedIsEmpty
    /\ ToldOnce

USE ChatAssumption DEF ChatAssumption

-----------------------------------------------------------------------------
(* Lists of messages.                                                      *)

\* A message at the end of a list adds its key and nothing else.
LEMMA AppendOne ==
    ASSUME NEW list \in Seq(Message), NEW m \in Message
    PROVE  LET new == Append(list, m) IN
           /\ new \in Seq(Message)
           /\ Len(new) = Len(list) + 1
           /\ \A i \in 1 .. Len(list) : new[i] = list[i]
           /\ new[Len(list) + 1] = m
           /\ KeysOf(new) = KeysOf(list) \cup {m.key}
           /\ NoDoubles(list) /\ m.key \notin KeysOf(list) => NoDoubles(new)
<1> DEFINE new == Append(list, m)
<1>1. /\ new \in Seq(Message) /\ Len(new) = Len(list) + 1
      /\ \A i \in 1 .. Len(list) : new[i] = list[i]
      /\ new[Len(list) + 1] = m
  BY AppendProperties
<1>2. Len(list) \in Nat
  BY LenProperties
<1> HIDE DEF new
<1>3. KeysOf(new) = KeysOf(list) \cup {m.key}
  BY <1>1, <1>2 DEF KeysOf
<1>4. ASSUME NoDoubles(list), m.key \notin KeysOf(list) PROVE NoDoubles(new)
  BY <1>1, <1>2, <1>4 DEF NoDoubles, KeysOf
<1>5. QED
  BY <1>1, <1>3, <1>4 DEF new

\* So does one at its beginning.
LEMMA PrependOne ==
    ASSUME NEW list \in Seq(Message), NEW m \in Message
    PROVE  LET new == <<m>> \o list IN
           /\ new \in Seq(Message)
           /\ Len(new) = Len(list) + 1
           /\ new[1] = m
           /\ \A i \in 2 .. Len(list) + 1 : new[i] = list[i - 1]
           /\ KeysOf(new) = KeysOf(list) \cup {m.key}
           /\ NoDoubles(list) /\ m.key \notin KeysOf(list) => NoDoubles(new)
<1> DEFINE new == <<m>> \o list
<1>1. <<m>> \in Seq(Message) /\ Len(<<m>>) = 1 /\ <<m>>[1] = m
  OBVIOUS
<1>2. Len(list) \in Nat
  BY LenProperties
<1>3. /\ new \in Seq(Message) /\ Len(new) = 1 + Len(list)
      /\ \A i \in 1 .. 1 + Len(list) :
           new[i] = IF i <= 1 THEN <<m>>[i] ELSE list[i - 1]
  BY <1>1, ConcatProperties
<1> HIDE DEF new
<1>4. new[1] = m /\ \A i \in 2 .. Len(list) + 1 : new[i] = list[i - 1]
  BY <1>1, <1>2, <1>3
<1>5. \A j \in 1 .. Len(list) : new[j + 1] = list[j]
  BY <1>2, <1>4
<1>6. KeysOf(new) = KeysOf(list) \cup {m.key}
  <2>1. ASSUME NEW i \in 1 .. Len(new) PROVE new[i].key \in KeysOf(list) \cup {m.key}
    <3>1. CASE i = 1
      BY <3>1, <1>4
    <3>2. CASE i # 1
      <4>1. i - 1 \in 1 .. Len(list) /\ new[i] = list[i - 1]
        BY <3>2, <1>2, <1>3, <1>4
      <4>2. QED
        BY <4>1 DEF KeysOf
    <3>3. QED
      BY <3>1, <3>2
  <2>2. ASSUME NEW j \in 1 .. Len(list) PROVE list[j].key \in KeysOf(new)
    <3>1. j + 1 \in 1 .. Len(new) /\ new[j + 1] = list[j]
      BY <1>2, <1>3, <1>5
    <3>2. QED
      BY <3>1 DEF KeysOf
  <2>3. m.key \in KeysOf(new)
    BY <1>2, <1>3, <1>4 DEF KeysOf
  <2>4. QED
    BY <2>1, <2>2, <2>3 DEF KeysOf
<1>7. ASSUME NoDoubles(list), m.key \notin KeysOf(list) PROVE NoDoubles(new)
  <2> SUFFICES ASSUME NEW i \in 1 .. Len(new), NEW j \in 1 .. Len(new),
                      new[i].key = new[j].key
               PROVE  i = j
    BY DEF NoDoubles
  <2>1. \A n \in 1 .. Len(new) : n # 1 =>
          n - 1 \in 1 .. Len(list) /\ new[n] = list[n - 1] /\ new[n].key \in KeysOf(list)
    BY <1>2, <1>3, <1>4 DEF KeysOf
  <2>2. CASE i = 1 \/ j = 1
    BY <2>1, <2>2, <1>4, <1>7
  <2>3. CASE i # 1 /\ j # 1
    <3>1. list[i - 1].key = list[j - 1].key /\ i - 1 \in 1 .. Len(list) /\ j - 1 \in 1 .. Len(list)
      BY <2>1, <2>3
    <3>2. i - 1 = j - 1
      BY <3>1, <1>7 DEF NoDoubles
    <3>3. QED
      BY <3>2
  <2>4. QED
    BY <2>2, <2>3
<1>8. QED
  BY <1>2, <1>3, <1>4, <1>6, <1>7 DEF new
-----------------------------------------------------------------------------
(* The step.                                                               *)

\* Writing a row is news to the observers, or changes what they were told.
LEMMA WriteStep ==
    ASSUME IInv, NEW k \in Keys, NEW row \in (0 .. MaxTime) \cup {Theirs}, Write(k, row),
           IF k \in ShopKeys THEN row # Theirs /\ ~Present(k) ELSE row \in {Theirs, k, k + 1}
    PROVE  /\ rows' \in [Keys -> (0 .. MaxTime) \cup {Absent, Theirs}]
           /\ {due', coming', tabDropped', talkDropped'} \subseteq SUBSET {j \in Keys : Present(j)'}
           /\ ListedOnce' /\ OwnRows' /\ ShopRows' /\ DatesAreNear' /\ FirstIsLatest'
           /\ ClosedIsEmpty' /\ ToldOnce'
<1> USE DEF IInv, TypeOK
<1>1. /\ rows' \in [Keys -> (0 .. MaxTime) \cup {Absent, Theirs}]
      /\ rows'[k] = row /\ row # Absent
  BY DEF Write
<1>2. \A j \in Keys : j # k => rows'[j] = rows[j]
  BY DEF Write
<1>3. {j \in Keys : Present(j)'} = {j \in Keys : Present(j)} \cup {k}
  BY <1>1, <1>2 DEF Present
<1>4. /\ due' = due \cup NewFor(k)
      /\ coming' = IF screen = "tab" THEN {} ELSE coming \cup NewFor(k)
      /\ UNCHANGED <<tab, screen, talk, tabDropped, talkDropped>>
  BY DEF Write
<1>5. {due', coming', tabDropped', talkDropped'} \subseteq SUBSET {j \in Keys : Present(j)'}
  BY <1>3, <1>4 DEF NewFor
<1>6. {j \in Keys : Present(j)'} \ (due' \cup tabDropped')
        = {j \in Keys : Present(j)} \ (due \cup tabDropped)
  BY <1>3, <1>4 DEF NewFor
<1>7. screen = "talk" =>
        {j \in Keys : Present(j)'} \ (coming' \cup talkDropped')
          = {j \in Keys : Present(j)} \ (coming \cup talkDropped)
  BY <1>3, <1>4 DEF NewFor
<1>8. ListedOnce'
  BY <1>4, <1>6, <1>7 DEF ListedOnce, NoDoubles, KeysOf
<1>9. OwnRows'
  <2> SUFFICES ASSUME NEW j \in 0 .. MaxTime, Mine(j)' PROVE rows'[j] \in {j, j + 1}
    BY DEF OwnRows
  <2>1. CASE j = k
    BY <1>1, <2>1 DEF Mine
  <2>2. CASE j # k
    BY <1>2, <2>2 DEF OwnRows, Mine, Keys
  <2>3. QED
    BY <2>1, <2>2
<1>10. ShopRows'
  BY <1>1, <1>2 DEF ShopRows, Present, Mine, Keys
<1>11. DatesAreNear'
  <2> SUFFICES ASSUME NEW i \in 1 .. Len(tab)
               PROVE  IF tab[i].key \in ShopKeys
                        THEN tab[i].at = rows'[tab[i].key]
                        ELSE tab[i].at \in {tab[i].key, tab[i].key + 1}
    BY <1>4 DEF DatesAreNear, Near
  <2>1. tab[i].key \in Keys /\ Present(tab[i].key)
    BY DEF KeysOf, ListedOnce
  <2>2. tab[i].key \in ShopKeys => rows'[tab[i].key] = rows[tab[i].key]
    BY <2>1, <1>2
  <2>3. QED
    BY <2>2 DEF DatesAreNear, Near
<1>12. FirstIsLatest' /\ ClosedIsEmpty'
  BY <1>4 DEF FirstIsLatest, ClosedIsEmpty
<1>13. ToldOnce'
  BY <1>4 DEF ToldOnce, NewFor
<1>14. QED
  BY <1>1, <1>5, <1>8, <1>9, <1>10, <1>11, <1>12, <1>13

\* A row of the user's that the tab is told of takes its place.
LEMMA TabToldStep == ASSUME IInv, NEW k \in Keys, TabTold(k), Mine(k) PROVE IInv'
<1> USE DEF IInv, TypeOK
<1> DEFINE m == MessageOf(k)
<1>1. /\ k \in due /\ due' = due \ {k} /\ tab' = InsertLatest(tab, m)
      /\ UNCHANGED <<clock, sends, rows, screen, talk, coming, tabDropped, talkDropped>>
  BY DEF TabTold
<1>2. rows[k] \in 0 .. MaxTime
  BY DEF Mine
<1>3. m \in Message /\ m.key = k /\ m.at = rows[k]
  BY <1>2 DEF MessageOf, Message
<1>4. \A j \in Keys : Present(j)' <=> Present(j)
  BY <1>1 DEF Present
<1>near. Near(m)
  BY <1>3 DEF OwnRows, Keys, Near
<1> HIDE DEF m
<1>5. NoDoubles(tab) /\ KeysOf(tab) = {j \in Keys : Present(j)} \ (due \cup tabDropped)
  BY DEF ListedOnce
<1>6. k \notin KeysOf(tab)
  BY <1>1, <1>5
<1>7. tab \in Seq(Message) /\ Len(tab) \in Nat
  BY LenProperties
<1>8. \A i \in 1 .. Len(tab) : tab[i].at \in 0 .. MaxTime
  <2> SUFFICES ASSUME NEW i \in 1 .. Len(tab) PROVE tab[i].at \in 0 .. MaxTime
    OBVIOUS
  <2>1. tab[i] \in Message
    BY <1>7, ElementOfSeq
  <2>2. QED
    BY <2>1 DEF Message
<1>9. m.at \in 0 .. MaxTime
  BY <1>3 DEF Message
<1>10. /\ tab' \in Seq(Message)
       /\ KeysOf(tab') = KeysOf(tab) \cup {k}
       /\ NoDoubles(tab')
       /\ \A i \in 1 .. Len(tab') : Near(tab'[i]) /\ tab'[i].at <= tab'[1].at
  <2>1. CASE tab # <<>> /\ m.at > tab[1].at
    <3>1. tab' = <<m>> \o tab
      BY <2>1, <1>1 DEF InsertLatest
    <3>2. /\ tab' \in Seq(Message)
          /\ KeysOf(tab') = KeysOf(tab) \cup {k}
          /\ NoDoubles(tab')
          /\ Len(tab') = Len(tab) + 1
          /\ tab'[1] = m
          /\ \A i \in 2 .. Len(tab) + 1 : tab'[i] = tab[i - 1]
      BY <3>1, <1>3, <1>5, <1>6, <1>7, PrependOne
    <3>3. 1 \in 1 .. Len(tab)
      BY <2>1, <1>7, EmptySeq
    <3>4. ASSUME NEW i \in 1 .. Len(tab')
          PROVE  Near(tab'[i]) /\ tab'[i].at <= tab'[1].at
      <4>1. CASE i = 1
        BY <4>1, <3>2, <1>3, <1>9, <1>near
      <4>2. CASE i # 1
        <5>1. i - 1 \in 1 .. Len(tab) /\ tab'[i] = tab[i - 1]
          BY <4>2, <3>2, <1>7
        <5>2. tab[i - 1].at <= tab[1].at /\ Near(tab[i - 1])
          BY <5>1 DEF FirstIsLatest, DatesAreNear
        <5>3. QED
          BY <5>1, <5>2, <2>1, <3>2, <3>3, <1>8, <1>9
      <4>3. QED
        BY <4>1, <4>2
    <3>5. QED
      BY <3>2, <3>4
  <2>2. CASE ~(tab # <<>> /\ m.at > tab[1].at)
    <3>1. tab' = Append(tab, m)
      BY <2>2, <1>1 DEF InsertLatest
    <3>2. /\ tab' \in Seq(Message)
          /\ KeysOf(tab') = KeysOf(tab) \cup {k}
          /\ NoDoubles(tab')
          /\ Len(tab') = Len(tab) + 1
          /\ \A i \in 1 .. Len(tab) : tab'[i] = tab[i]
          /\ tab'[Len(tab) + 1] = m
      BY <3>1, <1>3, <1>5, <1>6, <1>7, AppendOne
    <3>3. m.at <= tab'[1].at
      <4>1. CASE tab = <<>>
        BY <4>1, <3>2, <1>9
      <4>2. CASE tab # <<>>
        <5>1. 1 \in 1 .. Len(tab)
          BY <4>2, <1>7, EmptySeq
        <5>2. QED
          BY <5>1, <4>2, <2>2, <3>2, <1>8, <1>9
      <4>3. QED
        BY <4>1, <4>2
    <3>4. ASSUME NEW i \in 1 .. Len(tab')
          PROVE  Near(tab'[i]) /\ tab'[i].at <= tab'[1].at
      <4>1. CASE i = Len(tab) + 1
        BY <4>1, <3>2, <3>3, <1>3, <1>near
      <4>2. CASE i # Len(tab) + 1
        <5>1. i \in 1 .. Len(tab) /\ 1 \in 1 .. Len(tab)
          BY <4>2, <3>2, <1>7
        <5>2. tab[i].at <= tab[1].at /\ Near(tab[i])
          BY <5>1 DEF FirstIsLatest, DatesAreNear
        <5>3. QED
          BY <5>1, <5>2, <3>2
      <4>3. QED
        BY <4>1, <4>2
    <3>5. QED
      BY <3>2, <3>4
  <2>3. QED
    BY <2>1, <2>2
<1>11. TypeOK'
  BY <1>1, <1>4, <1>10
<1>12. ListedOnce'
  <2>1. KeysOf(tab)' = KeysOf(tab') /\ NoDoubles(tab)' = NoDoubles(tab')
    BY DEF KeysOf, NoDoubles
  <2>2. KeysOf(tab') = {j \in Keys : Present(j)'} \ (due' \cup tabDropped)
    BY <1>1, <1>4, <1>5, <1>10 DEF ToldOnce
  <2>3. screen = "talk" =>
          /\ NoDoubles(talk)
          /\ KeysOf(talk) = {j \in Keys : Present(j)'} \ (coming \cup talkDropped)
    BY <1>4 DEF ListedOnce
  <2>4. QED
    BY <2>2, <2>3, <1>1, <1>10 DEF ListedOnce
<1>13. OwnRows' /\ ShopRows' /\ ClosedIsEmpty' /\ ToldOnce'
  BY <1>1 DEF OwnRows, ShopRows, Present, Mine, ClosedIsEmpty, ToldOnce
<1>14. DatesAreNear' /\ FirstIsLatest'
  BY <1>1, <1>10 DEF DatesAreNear, FirstIsLatest, Near
<1>15. QED
  BY <1>11, <1>12, <1>13, <1>14

\* A row of another user is dropped by either observer.
LEMMA DropStep == ASSUME IInv, NEW k \in Keys, TabTold(k) \/ TalkTold(k), ~Mine(k) PROVE IInv'
<1> USE DEF IInv, TypeOK
<1>1. UNCHANGED <<clock, sends, rows, tab, screen, talk>>
  BY DEF TabTold, TalkTold
<1>2. \/ /\ k \in due /\ due' = due \ {k} /\ tabDropped' = tabDropped \cup {k}
         /\ UNCHANGED <<coming, talkDropped>>
      \/ /\ k \in coming /\ coming' = coming \ {k} /\ talkDropped' = talkDropped \cup {k}
         /\ screen = "talk" /\ UNCHANGED <<due, tabDropped>>
  BY DEF TabTold, TalkTold
<1>3. \A j \in Keys : (Present(j)' <=> Present(j)) /\ (Mine(j)' <=> Mine(j))
  BY <1>1 DEF Present, Mine
<1>4. /\ due' \cup tabDropped' = due \cup tabDropped
      /\ coming' \cup talkDropped' = coming \cup talkDropped
  BY <1>2
<1>5. TypeOK'
  BY <1>1, <1>2, <1>3
<1>6. ListedOnce'
  BY <1>1, <1>3, <1>4 DEF ListedOnce, NoDoubles, KeysOf
<1>7. OwnRows' /\ ShopRows' /\ DatesAreNear' /\ FirstIsLatest'
  BY <1>1, <1>3 DEF OwnRows, ShopRows, DatesAreNear, Near, FirstIsLatest, Keys
<1>8. ClosedIsEmpty' /\ ToldOnce'
  BY <1>1, <1>2 DEF ClosedIsEmpty, ToldOnce
<1>9. QED
  BY <1>5, <1>6, <1>7, <1>8

\* A row of the user's that the conversation is told of goes last.
LEMMA TalkToldStep == ASSUME IInv, NEW k \in Keys, TalkTold(k), Mine(k) PROVE IInv'
<1> USE DEF IInv, TypeOK
<1> DEFINE m == MessageOf(k)
<1>1. /\ screen = "talk" /\ k \in coming
      /\ coming' = coming \ {k} /\ talk' = Append(talk, m)
      /\ UNCHANGED <<clock, sends, rows, due, tab, screen, tabDropped, talkDropped>>
  BY DEF TalkTold
<1>2. m \in Message /\ m.key = k
  BY DEF MessageOf, Message, Mine
<1>3. \A j \in Keys : Present(j)' <=> Present(j)
  BY <1>1 DEF Present
<1> HIDE DEF m
<1>4. NoDoubles(talk) /\ KeysOf(talk) = {j \in Keys : Present(j)} \ (coming \cup talkDropped)
  BY <1>1 DEF ListedOnce
<1>5. talk' \in Seq(Message) /\ KeysOf(talk') = KeysOf(talk) \cup {k} /\ NoDoubles(talk')
  BY <1>1, <1>2, <1>4, AppendOne
<1>6. TypeOK'
  BY <1>1, <1>3, <1>5
<1>7. ListedOnce'
  <2>1. KeysOf(talk') = {j \in Keys : Present(j)'} \ (coming' \cup talkDropped)
    BY <1>1, <1>3, <1>4, <1>5 DEF ToldOnce
  <2>2. NoDoubles(tab) /\ KeysOf(tab) = {j \in Keys : Present(j)'} \ (due \cup tabDropped)
    BY <1>3 DEF ListedOnce
  <2>3. KeysOf(talk)' = KeysOf(talk') /\ NoDoubles(talk)' = NoDoubles(talk')
    BY DEF KeysOf, NoDoubles
  <2>4. QED
    BY <2>1, <2>2, <1>1, <1>5 DEF ListedOnce
<1>8. /\ OwnRows' /\ ShopRows' /\ DatesAreNear' /\ FirstIsLatest'
      /\ ClosedIsEmpty' /\ ToldOnce'
  BY <1>1 DEF OwnRows, ShopRows, Present, Mine, DatesAreNear, Near, FirstIsLatest,
              ClosedIsEmpty, ToldOnce
<1>9. QED
  BY <1>6, <1>7, <1>8

-----------------------------------------------------------------------------
\* The invariant holds in every state.
THEOREM Inductive == Spec => []IInv
<1>1. Init => IInv
  <2> SUFFICES ASSUME Init PROVE IInv
    OBVIOUS
  <2>1. /\ clock = 0 /\ sends = 0 /\ rows = [k \in Keys |-> Absent]
        /\ {due, coming, tabDropped, talkDropped} = {{}} /\ tab = <<>> /\ talk = <<>> /\ screen = "tab"
    BY DEF Init
  <2>2. tab \in Seq(Message) /\ talk \in Seq(Message) /\ 1 .. Len(tab) = {}
    BY <2>1, EmptySeq
  <2>3. \A k \in Keys : ~Present(k) /\ ~Mine(k)
    BY <2>1 DEF Present, Mine
  <2>4. TypeOK
    BY <2>1, <2>2 DEF TypeOK
  <2>5. KeysOf(tab) = {} /\ NoDoubles(tab)
    BY <2>2 DEF KeysOf, NoDoubles
  <2>6. ListedOnce
    BY <2>1, <2>3, <2>5 DEF ListedOnce
  <2>7. OwnRows /\ ShopRows
    BY <2>3 DEF OwnRows, ShopRows, Keys
  <2>8. DatesAreNear /\ FirstIsLatest
    BY <2>2 DEF DatesAreNear, FirstIsLatest
  <2>9. QED
    BY <2>1, <2>4, <2>6, <2>7, <2>8 DEF IInv, ClosedIsEmpty, ToldOnce
<1>2. IInv /\ [Next]_vars => IInv'
  <2> SUFFICES ASSUME IInv, [Next]_vars PROVE IInv'
    OBVIOUS
  <2> USE DEF told
  <2>1. CASE Second
    <3>1. /\ clock < MaxTime /\ clock' = clock + 1 /\ UNCHANGED <<sends, rows, told>>
      BY <2>1 DEF Second
    <3>2. clock' \in 0 .. MaxTime
      BY <3>1 DEF IInv, TypeOK
    <3>3. TypeOK'
      BY <3>1, <3>2 DEF IInv, TypeOK, Present
    <3>4. ListedOnce'
      BY <3>1 DEF IInv, ListedOnce, Present, NoDoubles, KeysOf
    <3>5. OwnRows' /\ ShopRows' /\ DatesAreNear' /\ FirstIsLatest' /\ ClosedIsEmpty' /\ ToldOnce'
      BY <3>1 DEF IInv, OwnRows, ShopRows, DatesAreNear, Near, FirstIsLatest, ClosedIsEmpty,
                  ToldOnce, Present, Mine
    <3>6. QED
      BY <3>3, <3>4, <3>5 DEF IInv
  <2>2. CASE Send
    <3>1. /\ clock \in 0 .. MaxTime /\ clock' \in 0 .. MaxTime /\ clock' \in {clock, clock + 1}
          /\ Write(clock, clock') /\ sends' \in 0 .. MaxSends
      BY <2>2 DEF Send, IInv, TypeOK
    <3>2. clock \in Keys /\ clock \notin ShopKeys
      BY <3>1 DEF Keys
    <3>3. UNCHANGED <<tab, screen, talk>>
      BY <3>1 DEF Write
    <3>4. QED
      BY <3>1, <3>2, <3>3, WriteStep DEF IInv, TypeOK
  <2>3. ASSUME NEW k \in ShopKeys, NEW t \in 0 .. MaxTime, ShopWrites(k, t) PROVE IInv'
    <3>1. k \in Keys /\ t # Theirs /\ Write(k, t) /\ ~Present(k) /\ UNCHANGED <<clock, sends>>
      BY <2>3 DEF ShopWrites, Keys
    <3>2. UNCHANGED <<tab, screen, talk>>
      BY <3>1 DEF Write
    <3>3. QED
      BY <3>1, <3>2, WriteStep DEF IInv, TypeOK
  <2>4. ASSUME NEW k \in 0 .. MaxTime, OtherSends(k) PROVE IInv'
    <3>1. k \in Keys /\ k \notin ShopKeys /\ Write(k, Theirs) /\ UNCHANGED <<clock, sends>>
      BY <2>4 DEF OtherSends, Keys
    <3>2. UNCHANGED <<tab, screen, talk>>
      BY <3>1 DEF Write
    <3>3. QED
      BY <3>1, <3>2, WriteStep DEF IInv, TypeOK
  <2>5. ASSUME NEW k \in Keys, TabTold(k) \/ TalkTold(k) PROVE IInv'
    BY <2>5, TabToldStep, TalkToldStep, DropStep
  <2>6. CASE OpenTalk
    BY <2>6 DEF OpenTalk, IInv, TypeOK, ListedOnce, OwnRows, ShopRows, DatesAreNear, Near,
         FirstIsLatest, ClosedIsEmpty, ToldOnce, Present, Mine, NoDoubles, KeysOf
  <2>7. CASE CloseTalk
    BY <2>7, EmptySeq DEF CloseTalk, IInv, TypeOK, ListedOnce, OwnRows, ShopRows, DatesAreNear,
         Near, FirstIsLatest, ClosedIsEmpty, ToldOnce, Present, Mine, NoDoubles, KeysOf
  <2>8. CASE UNCHANGED vars
    BY <2>8 DEF vars, IInv, TypeOK, ListedOnce, OwnRows, ShopRows, DatesAreNear, Near,
         FirstIsLatest, ClosedIsEmpty, ToldOnce, Present, Mine, NoDoubles, KeysOf
  <2>9. QED
    BY <2>1, <2>2, <2>3, <2>4, <2>5, <2>6, <2>7, <2>8 DEF Next
<1>3. QED
  BY <1>1, <1>2, PTL DEF Spec

\* Every variable of Chat keeps its type.
THEOREM TypeCorrect == Spec => []TypeOK
<1>1. IInv => TypeOK
  BY DEF IInv
<1>2. QED
  BY <1>1, Inductive, PTL

\* Each list holds exactly the rows its observer was told of, each once.
THEOREM EachRowOnce == Spec => []ListedOnce
<1>1. IInv => ListedOnce
  BY DEF IInv
<1>2. QED
  BY <1>1, Inductive, PTL

\* The row the tab shows is not older than any it was told of, in whatever
\* order rows came and were told of, and no row in the table is later than it by
\* more than the second between a message's key and its date.
THEOREM ShowsLatest == Spec => []TabShowsLatest
<1>1. IInv => TabShowsLatest
  <2> SUFFICES ASSUME IInv, NEW k \in Keys, Mine(k), k \notin due \cup tabDropped
               PROVE  tab # <<>> /\ rows[k] <= tab[1].at + Slack(k)
    BY DEF TabShowsLatest, IInv, FirstIsLatest
  <2>1. k \in KeysOf(tab)
    BY DEF IInv, ListedOnce, Mine, Present
  <2>2. PICK i \in 1 .. Len(tab) : tab[i].key = k
    BY <2>1 DEF KeysOf
  <2>3. tab # <<>> /\ Len(tab) \in Nat /\ 1 \in 1 .. Len(tab)
    BY <2>2, EmptySeq, LenProperties DEF IInv, TypeOK
  <2>4. /\ tab[i].at \in 0 .. MaxTime /\ tab[1].at \in 0 .. MaxTime
        /\ tab[i].at <= tab[1].at
    <3>1. tab[i] \in Message /\ tab[1] \in Message
      BY <2>2, <2>3, ElementOfSeq DEF IInv, TypeOK
    <3>2. tab[i].at <= tab[1].at
      BY <2>2 DEF IInv, FirstIsLatest
    <3>3. QED
      BY <3>1, <3>2 DEF Message
  <2>5. rows[k] \in 0 .. MaxTime /\ rows[k] <= tab[i].at + Slack(k)
    <3>1. rows[k] \in 0 .. MaxTime /\ Near(tab[i])
      BY <2>2 DEF IInv, TypeOK, Mine, DatesAreNear
    <3>2. CASE k \in ShopKeys
      BY <2>2, <2>4, <3>1, <3>2 DEF Near, Slack
    <3>3. CASE k \notin ShopKeys
      <4>1. k \in 0 .. MaxTime /\ rows[k] \in {k, k + 1}
        BY <3>3 DEF Keys, IInv, OwnRows
      <4>2. tab[i].at \in {k, k + 1}
        BY <2>2, <3>1, <3>3 DEF Near
      <4>3. QED
        BY <3>1, <3>3, <4>1, <4>2 DEF Slack
    <3>4. QED
      BY <3>2, <3>3
  <2>6. QED
    BY <2>3, <2>4, <2>5 DEF Slack
<1>2. QED
  BY <1>1, Inductive, PTL
=============================================================================
