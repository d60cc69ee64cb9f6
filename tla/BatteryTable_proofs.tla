------------------------ MODULE BatteryTable_proofs ------------------------
(***************************************************************************)
(* Theorems about BatteryTable, for any states of the hardware and any     *)
(* number of changes of it: the list of sections and the references the    *)
(* sections of the ports hold; what an update leaves in the rows of a      *)
(* section; and the charge that the gauge shows.                           *)
(***************************************************************************)
EXTENDS BatteryTable, FiniteSetTheorems, SequenceTheorems, TLAPS

-----------------------------------------------------------------------------
(* The inductive invariant.                                                *)

Ids == {"gauge", "adapter", "inductive", "serial"}

\* A list of sections, in whatever set their rows are.
IsList(list) ==
    /\ \E S : list \in Seq(S)
    /\ \A i \in DOMAIN list : DOMAIN list[i] = {"id", "gone", "rows"} /\ list[i].id \in Ids

\* The list is by priority, which no two sections share.
Ordered(list) ==
    \A i, j \in DOMAIN list : i < j => Priority[list[i].id] > Priority[list[j].id]

Owned == refs = [p \in Ports |-> IF battery_info_has(sections, p) THEN 1 ELSE 0]

ListInv == IsList(sections) /\ Ordered(sections) /\ Owned

-----------------------------------------------------------------------------
(* Lists.                                                                  *)

\* A set of numbers that is not empty has a least one.
LEMMA LeastOf ==
    ASSUME NEW T, T \subseteq Nat, T # {}
    PROVE  \E i \in T : \A j \in T : i <= j
<1> DEFINE R == {p \in Nat \X Nat : p[1] < p[2]}
<1>1. OpToRel(<, Nat) = R
  BY DEF OpToRel
<1>2. IsWellFoundedOn(R, Nat)
  BY <1>1, NatLessThanWellFounded
<1>3. \A i, j \in Nat : <<j, i>> \in R <=> j < i
  OBVIOUS
<1> HIDE DEF R
<1>4. PICK i \in T : \A j \in T : ~ (<<j, i>> \in R)
  BY <1>2, WFMin
<1>5. ASSUME NEW j \in T PROVE i <= j
  <2>1. i \in Nat /\ j \in Nat /\ ~ (j < i)
    BY <1>3, <1>4
  <2> QED
    BY <2>1
<1> QED
  BY <1>5

\* Priorities are numbers, a different one for each section.
LEMMA Priorities ==
    ASSUME NEW a \in Ids, NEW b \in Ids
    PROVE  /\ Priority[a] \in Nat
           /\ Priority[a] = Priority[b] <=> a = b
BY DEF Ids, Priority

\* An ordered list has each section once.
LEMMA OrderedOnce ==
    ASSUME NEW list, IsList(list), Ordered(list),
           NEW i \in DOMAIN list, NEW j \in DOMAIN list, list[i].id = list[j].id
    PROVE  i = j
<1>1. PICK S : list \in Seq(S)
  BY DEF IsList
<1>2. i \in Nat /\ j \in Nat
  BY <1>1
<1>3. Priority[list[i].id] = Priority[list[j].id] /\ Priority[list[i].id] \in Nat
  BY Priorities DEF IsList
<1> QED
  BY <1>2, <1>3 DEF Ordered

\* A list changed within its sections, not in their identities.
LEMMA SameIds ==
    ASSUME NEW list, IsList(list), Ordered(list), NEW new,
           \E S : new \in Seq(S), DOMAIN new = DOMAIN list,
           \A i \in DOMAIN list : DOMAIN new[i] = {"id", "gone", "rows"} /\ new[i].id = list[i].id
    PROVE  /\ IsList(new) /\ Ordered(new)
           /\ \A id : battery_info_has(new, id) <=> battery_info_has(list, id)
BY DEF IsList, Ordered, battery_info_has

\* battery_info_insert_section puts the section before those of lower priority, and moves
\* nothing else.
LEMMA Inserted ==
    ASSUME NEW list, NEW s, NEW S, list \in Seq(S), s \in S
    PROVE  LET new == battery_info_insert_section(s, list)
               n == Len(list)
           IN  /\ new \in Seq(S) /\ Len(new) = n + 1
               /\ \E k \in 1 .. n + 1 :
                     /\ new[k] = s
                     /\ \A j \in 1 .. k - 1 : new[j] = list[j]
                     /\ \A j \in k + 1 .. n + 1 : new[j] = list[j - 1]
                     /\ \A j \in 1 .. k - 1 : ~ (Priority[s.id] > Priority[list[j].id])
                     /\ k <= n => Priority[s.id] > Priority[list[k].id]
<1> DEFINE lower == {i \in DOMAIN list : Priority[s.id] > Priority[list[i].id]}
           new == battery_info_insert_section(s, list)
           n == Len(list)
<1>1. n \in Nat /\ DOMAIN list = 1 .. n
  BY LenProperties
<1>2. CASE lower = {}
  <2>1. new = Append(list, s)
    BY <1>2 DEF battery_info_insert_section
  <2>2. /\ new \in Seq(S) /\ Len(new) = n + 1 /\ new[n + 1] = s
        /\ \A j \in 1 .. n : new[j] = list[j]
    BY <2>1, <1>1
  <2>3. \A j \in 1 .. n : ~ (Priority[s.id] > Priority[list[j].id])
    BY <1>1, <1>2
  <2>4. n + 1 \in 1 .. n + 1 /\ \A j \in n + 2 .. n + 1 : FALSE
    BY <1>1
  <2> QED
    BY <1>1, <2>2, <2>3, <2>4
<1>3. CASE lower # {}
  <2> DEFINE k == CHOOSE i \in lower : \A j \in lower : i <= j
  <2>1. k \in lower /\ \A j \in lower : k <= j
    <3>1. lower \subseteq Nat
      BY <1>1
    <3> HIDE DEF lower
    <3>2. \E i \in lower : \A j \in lower : i <= j
      BY <1>3, <3>1, LeastOf
    <3> QED
      BY <3>2
  <2> HIDE DEF k
  <2>2. k \in 1 .. n /\ \A j \in 1 .. k - 1 : j \notin lower
    BY <1>1, <2>1
  <2>3. new = SubSeq(list, 1, k - 1) \o <<s>> \o SubSeq(list, k, n)
    BY <1>3 DEF battery_info_insert_section, InsertAt, k
  <2> HIDE DEF lower
  <2> DEFINE before == SubSeq(list, 1, k - 1)
             after == SubSeq(list, k, n)
             front == before \o <<s>>
  <2>4. /\ before \in Seq(S) /\ Len(before) = k - 1
        /\ \A j \in 1 .. k - 1 : before[j] = list[j]
    BY <1>1, <2>2, SubSeqProperties, ElementOfSeq
  <2>5. /\ after \in Seq(S) /\ Len(after) = n - k + 1
        /\ \A j \in 1 .. n - k + 1 : after[j] = list[k + j - 1]
    BY <1>1, <2>2, SubSeqProperties, ElementOfSeq
  <2> HIDE DEF before, after
  <2>6. /\ front \in Seq(S) /\ Len(front) = k
        /\ \A j \in 1 .. k : front[j] = IF j <= k - 1 THEN list[j] ELSE s
    <3>1. <<s>> \in Seq(S) /\ Len(<<s>>) = 1 /\ <<s>>[1] = s
      OBVIOUS
    <3>2. /\ front \in Seq(S) /\ Len(front) = (k - 1) + 1
          /\ \A j \in 1 .. (k - 1) + 1 :
                front[j] = IF j <= k - 1 THEN before[j] ELSE <<s>>[j - (k - 1)]
      BY <2>4, <3>1, ConcatProperties
    <3> QED
      BY <2>2, <2>4, <3>1, <3>2
  <2> HIDE DEF front
  <2>7. /\ new \in Seq(S) /\ Len(new) = k + (n - k + 1)
        /\ \A j \in 1 .. k + (n - k + 1) : new[j] = IF j <= k THEN front[j] ELSE after[j - k]
    <3>1. new = front \o after
      BY <2>3 DEF front, before, after
    <3> HIDE DEF new
    <3>2. /\ new \in Seq(S) /\ Len(new) = Len(front) + Len(after)
          /\ \A j \in 1 .. Len(front) + Len(after) :
                new[j] = IF j <= Len(front) THEN front[j] ELSE after[j - Len(front)]
      BY <2>5, <2>6, <3>1, ConcatProperties
    <3>3. Len(front) = k /\ Len(after) = n - k + 1
      BY <2>5, <2>6
    <3> HIDE DEF n
    <3> QED
      BY <3>2, <3>3
  <2> HIDE DEF new
  <2>8. Len(new) = n + 1 /\ new[k] = s /\ \A j \in 1 .. k - 1 : new[j] = list[j]
    BY <1>1, <2>2, <2>6, <2>7
  <2>9. \A j \in k + 1 .. n + 1 : new[j] = list[j - 1]
    <3> SUFFICES ASSUME NEW j \in k + 1 .. n + 1 PROVE new[j] = list[j - 1]
      OBVIOUS
    <3>1. j - k \in 1 .. n - k + 1 /\ k + (j - k) - 1 = j - 1 /\ ~ (j <= k)
          /\ j \in 1 .. k + (n - k + 1)
      BY <1>1, <2>2
    <3> QED
      BY <2>5, <2>7, <3>1
  <2>10. \A j \in 1 .. k - 1 : ~ (Priority[s.id] > Priority[list[j].id])
    BY <1>1, <2>2 DEF lower
  <2>11. Priority[s.id] > Priority[list[k].id] /\ k \in 1 .. n + 1
    BY <1>1, <2>1, <2>2 DEF lower
  <2> QED
    BY <2>7, <2>8, <2>9, <2>10, <2>11 DEF new
<1> QED
  BY <1>2, <1>3

\* RemoveAt takes one section out and moves nothing else.
LEMMA Removed ==
    ASSUME NEW list, NEW S, list \in Seq(S), NEW k \in DOMAIN list
    PROVE  LET new == RemoveAt(list, k)
               n == Len(list)
           IN  /\ new \in Seq(S) /\ Len(new) = n - 1 /\ n \in Nat /\ k \in 1 .. n
               /\ \A j \in 1 .. n - 1 : new[j] = IF j < k THEN list[j] ELSE list[j + 1]
<1> DEFINE n == Len(list)
           before == SubSeq(list, 1, k - 1)
           after == SubSeq(list, k + 1, n)
           new == before \o after
<1>1. n \in Nat /\ DOMAIN list = 1 .. n /\ k \in 1 .. n
  BY LenProperties
<1>2. /\ before \in Seq(S) /\ Len(before) = k - 1
      /\ \A j \in 1 .. k - 1 : before[j] = list[j]
  BY <1>1, SubSeqProperties, ElementOfSeq
<1>3. /\ after \in Seq(S) /\ Len(after) = n - k
      /\ \A j \in 1 .. n - k : after[j] = list[k + j]
  BY <1>1, SubSeqProperties, ElementOfSeq
<1>4. new = RemoveAt(list, k)
  BY DEF RemoveAt
<1> HIDE DEF before, after
<1>5. /\ new \in Seq(S) /\ Len(new) = Len(before) + Len(after)
      /\ \A j \in 1 .. Len(before) + Len(after) :
            new[j] = IF j <= Len(before) THEN before[j] ELSE after[j - Len(before)]
  BY <1>2, <1>3, ConcatProperties
<1> HIDE DEF new, n
<1>6. /\ Len(new) = n - 1
      /\ \A j \in 1 .. n - 1 : new[j] = IF j <= k - 1 THEN before[j] ELSE after[j - (k - 1)]
  BY <1>1, <1>2, <1>3, <1>5
<1>7. ASSUME NEW j \in 1 .. n - 1 PROVE new[j] = IF j < k THEN list[j] ELSE list[j + 1]
  <2>1. CASE j < k
    BY <1>1, <1>2, <1>6, <2>1
  <2>2. CASE ~ (j < k)
    <3>1. j - (k - 1) \in 1 .. n - k /\ k + (j - (k - 1)) = j + 1 /\ ~ (j <= k - 1)
      BY <1>1, <2>2
    <3> QED
      BY <1>3, <1>6, <2>2, <3>1
  <2> QED
    BY <2>1, <2>2
<1> QED
  BY <1>1, <1>4, <1>5, <1>6, <1>7 DEF n

\* A section that hardware calls for joins the list once, at its place.
LEMMA AddedKeeps ==
    ASSUME NEW list, IsList(list), Ordered(list), NEW id \in Ids, NEW wanted
    PROVE  /\ IsList(Added(list, id, wanted)) /\ Ordered(Added(list, id, wanted))
           /\ \A other : battery_info_has(Added(list, id, wanted), other)
                           <=> battery_info_has(list, other) \/ (wanted /\ other = id)
<1>1. CASE ~ (wanted /\ ~ battery_info_has(list, id))
  <2>1. Added(list, id, wanted) = list
    BY <1>1 DEF Added
  <2> QED
    BY <1>1, <2>1
<1>2. CASE wanted /\ ~ battery_info_has(list, id)
  <2> DEFINE s == bi_make_section(id)
             n == Len(list)
             new == battery_info_insert_section(s, list)
  <2>1. Added(list, id, wanted) = new
    BY <1>2 DEF Added
  <2>2. DOMAIN s = {"id", "gone", "rows"} /\ s.id = id
    BY DEF bi_make_section
  <2>3. PICK S : list \in Seq(S) /\ s \in S
    <3>1. PICK T : list \in Seq(T)
      BY DEF IsList
    <3>2. list \in Seq(T \cup {s})
      BY <3>1, SeqMonotonic
    <3> QED
      BY <3>2
  <2>4. n \in Nat /\ DOMAIN list = 1 .. n /\ \A i \in 1 .. n : list[i].id \in Ids
    BY <2>3, LenProperties DEF IsList
  <2>5. new \in Seq(S) /\ Len(new) = n + 1 /\ DOMAIN new = 1 .. n + 1
    BY <2>3, Inserted, LenProperties
  <2>6. PICK k \in 1 .. n + 1 :
          /\ new[k] = s
          /\ \A j \in 1 .. k - 1 : new[j] = list[j]
          /\ \A j \in k + 1 .. n + 1 : new[j] = list[j - 1]
          /\ \A j \in 1 .. k - 1 : ~ (Priority[id] > Priority[list[j].id])
          /\ k <= n => Priority[id] > Priority[list[k].id]
    BY <2>2, <2>3, Inserted
  <2> HIDE DEF s, new, n
  <2>7. \A j \in 1 .. n + 1 : \/ j = k
                              \/ j \in 1 .. k - 1 /\ j \in 1 .. n
                              \/ j \in k + 1 .. n + 1 /\ j - 1 \in 1 .. n
    BY <2>4
  <2>8. IsList(new)
    <3>1. ASSUME NEW j \in 1 .. n + 1
          PROVE  new[j] = s \/ \E i \in 1 .. n : new[j] = list[i]
      BY <2>6, <2>7
    <3>2. \A i \in 1 .. n : DOMAIN list[i] = {"id", "gone", "rows"} /\ list[i].id \in Ids
      BY <2>4 DEF IsList
    <3>3. \A j \in 1 .. n + 1 : DOMAIN new[j] = {"id", "gone", "rows"} /\ new[j].id \in Ids
      BY <2>2, <3>1, <3>2
    <3> QED
      BY <2>5, <3>3 DEF IsList
  <2>9. \A j \in 1 .. n : j < k => Priority[list[j].id] > Priority[id]
    <3> SUFFICES ASSUME NEW j \in 1 .. n, j < k PROVE Priority[list[j].id] > Priority[id]
      OBVIOUS
    <3>1. j \in 1 .. k - 1 /\ list[j].id \in Ids /\ list[j].id # id
      BY <1>2, <2>4 DEF battery_info_has
    <3> QED
      BY <2>6, <3>1, Priorities
  <2>10. \A j \in 1 .. n : j >= k => Priority[id] > Priority[list[j].id]
    <3> SUFFICES ASSUME NEW j \in 1 .. n, j >= k PROVE Priority[id] > Priority[list[j].id]
      OBVIOUS
    <3>1. k \in 1 .. n /\ Priority[id] > Priority[list[k].id]
      BY <2>4, <2>6
    <3>2. k < j => Priority[list[k].id] > Priority[list[j].id]
      BY <2>4, <3>1 DEF Ordered
    <3>3. Priority[id] \in Nat /\ Priority[list[k].id] \in Nat /\ Priority[list[j].id] \in Nat
      BY <2>4, <3>1, Priorities
    <3> QED
      BY <3>1, <3>2, <3>3
  <2>11. Ordered(new)
    <3> SUFFICES ASSUME NEW i \in 1 .. n + 1, NEW j \in 1 .. n + 1, i < j
                 PROVE  Priority[new[i].id] > Priority[new[j].id]
      BY <2>5 DEF Ordered
    <3>1. CASE i = k
      <4>1. j \in k + 1 .. n + 1 /\ j - 1 \in 1 .. n /\ j - 1 >= k /\ new[j] = list[j - 1]
        BY <2>4, <2>6, <3>1
      <4> QED
        BY <2>2, <2>6, <2>10, <3>1, <4>1
    <3>2. CASE i < k
      <4>1. i \in 1 .. n /\ i \in 1 .. k - 1 /\ new[i] = list[i]
        BY <2>4, <2>6, <3>2
      <4>2. CASE j = k
        BY <2>2, <2>6, <2>9, <3>2, <4>1, <4>2
      <4>3. CASE j < k
        <5>1. j \in 1 .. n /\ new[j] = list[j]
          BY <2>4, <2>6, <4>3
        <5> QED
          BY <2>4, <4>1, <5>1 DEF Ordered
      <4>4. CASE j > k
        <5>1. j - 1 \in 1 .. n /\ new[j] = list[j - 1] /\ i < j - 1
          BY <2>4, <2>6, <3>2, <4>4
        <5> QED
          BY <2>4, <4>1, <5>1 DEF Ordered
      <4> QED
        BY <4>2, <4>3, <4>4
    <3>3. CASE i > k
      <4>1. /\ i - 1 \in 1 .. n /\ new[i] = list[i - 1]
            /\ j - 1 \in 1 .. n /\ new[j] = list[j - 1] /\ i - 1 < j - 1
        BY <2>4, <2>6, <3>3
      <4> QED
        BY <2>4, <4>1 DEF Ordered
    <3> QED
      BY <3>1, <3>2, <3>3
  <2>12. ASSUME NEW other PROVE battery_info_has(new, other) <=> battery_info_has(list, other) \/ other = id
    <3>1. battery_info_has(new, other) => battery_info_has(list, other) \/ other = id
      <4>1. ASSUME NEW j \in 1 .. n + 1
            PROVE  new[j] = s \/ \E i \in 1 .. n : new[j] = list[i]
        BY <2>6, <2>7
      <4> SUFFICES ASSUME NEW j \in 1 .. n + 1, new[j].id = other
                   PROVE  battery_info_has(list, other) \/ other = id
        BY <2>5 DEF battery_info_has
      <4> QED
        BY <2>2, <2>4, <4>1 DEF battery_info_has
    <3>2. ASSUME NEW j \in 1 .. n PROVE \E i \in 1 .. n + 1 : new[i] = list[j]
      <4>1. CASE j < k
        BY <2>4, <2>6, <4>1
      <4>2. CASE j >= k
        <5>1. j + 1 \in k + 1 .. n + 1 /\ j + 1 \in 1 .. n + 1 /\ (j + 1) - 1 = j
          BY <2>4, <4>2
        <5> QED
          BY <2>6, <5>1
      <4> QED
        BY <4>1, <4>2
    <3>3. battery_info_has(list, other) => battery_info_has(new, other)
      <4> SUFFICES ASSUME NEW j \in 1 .. n, list[j].id = other PROVE battery_info_has(new, other)
        BY <2>4 DEF battery_info_has
      <4> QED
        BY <2>5, <3>2 DEF battery_info_has
    <3>4. battery_info_has(new, id)
      BY <2>2, <2>5, <2>6 DEF battery_info_has
    <3> QED
      BY <3>1, <3>3, <3>4
  <2> QED
    BY <1>2, <2>1, <2>8, <2>11, <2>12
<1> QED
  BY <1>1, <1>2

-----------------------------------------------------------------------------
(* The steps.                                                              *)

\* A step of the walk that changes sections in place and no reference.
LEMMA InPlace ==
    ASSUME ListInv, at \in DOMAIN sections, refs' = refs, NEW field \in {"rows", "gone"}, NEW value,
           sections' = [sections EXCEPT ![at] = [@ EXCEPT ![field] = value]]
    PROVE  ListInv'
<1>1. PICK S : sections \in Seq(S)
  BY DEF ListInv, IsList
<1> DEFINE s == [sections[at] EXCEPT ![field] = value]
<1>2. sections \in Seq(S \cup {s})
  <2> HIDE DEF s
  <2> QED
    BY <1>1, SeqMonotonic
<1>3. sections' = [sections EXCEPT ![at] = s]
  OBVIOUS
<1>4. at \in 1 .. Len(sections) /\ DOMAIN sections = 1 .. Len(sections)
  BY <1>1, LenProperties
<1>5. DOMAIN s = {"id", "gone", "rows"} /\ s.id = sections[at].id
  BY DEF ListInv, IsList
<1> HIDE DEF s
<1>6. /\ sections' \in Seq(S \cup {s}) /\ DOMAIN sections' = DOMAIN sections
      /\ \A i \in DOMAIN sections : sections'[i] = IF i = at THEN s ELSE sections[i]
  <2>1. s \in S \cup {s}
    OBVIOUS
  <2>2. /\ [sections EXCEPT ![at] = s] \in Seq(S \cup {s})
        /\ Len([sections EXCEPT ![at] = s]) = Len(sections)
    BY <1>2, <1>4, <2>1, ExceptSeq
  <2>3. DOMAIN sections' = DOMAIN sections
    BY <1>3
  <2>4. \A i \in DOMAIN sections : sections'[i] = IF i = at THEN s ELSE sections[i]
    BY <1>3
  <2> QED
    BY <1>3, <2>2, <2>3, <2>4
<1>7. /\ IsList(sections') /\ Ordered(sections')
      /\ \A id : battery_info_has(sections', id) <=> battery_info_has(sections, id)
  <2>1. \A i \in DOMAIN sections :
           DOMAIN sections'[i] = {"id", "gone", "rows"} /\ sections'[i].id = sections[i].id
    BY <1>5, <1>6 DEF ListInv, IsList
  <2>2. IsList(sections) /\ Ordered(sections)
    BY DEF ListInv
  <2>3. \E T : sections' \in Seq(T)
    BY <1>6
  <2>4. DOMAIN sections' = DOMAIN sections
    BY <1>6
  <2> HIDE DEF s
  <2> QED
    BY <2>1, <2>2, <2>3, <2>4, SameIds
<1> QED
  BY <1>7 DEF ListInv, Owned

\* A poll adds sections at their places, and a reference for each new port.
LEMMA PollKeeps == ASSUME ListInv, battery_info_poll PROVE ListInv'
<1> DEFINE charging == hasSMC /\ is_charging > 0
           withGauge == Added(sections, "gauge", hasSMC)
           withAdapter == Added(withGauge, "adapter", charging)
           withInductive == Added(withAdapter, "inductive", Present("inductive"))
           withPorts == Added(withInductive, "serial", Present("serial"))
<1>1. /\ sections' = withPorts
      /\ refs' = [p \in Ports |-> refs[p] + IF Present(p) /\ ~ battery_info_has(sections, p)
                                            THEN 1 ELSE 0]
  BY DEF battery_info_poll
<1>2. {"gauge", "adapter", "inductive", "serial"} \subseteq Ids
  BY DEF Ids
<1> HIDE DEF charging
<1>3. /\ IsList(withGauge) /\ Ordered(withGauge)
      /\ \A other : battery_info_has(withGauge, other)
                      <=> battery_info_has(sections, other) \/ (hasSMC /\ other = "gauge")
  BY <1>2, AddedKeeps DEF ListInv
<1> HIDE DEF withGauge
<1>4. /\ IsList(withAdapter) /\ Ordered(withAdapter)
      /\ \A other : battery_info_has(withAdapter, other)
                      <=> battery_info_has(withGauge, other) \/ (charging /\ other = "adapter")
  BY <1>2, <1>3, AddedKeeps
<1> HIDE DEF withAdapter
<1>5. /\ IsList(withInductive) /\ Ordered(withInductive)
      /\ \A other : battery_info_has(withInductive, other)
                      <=> battery_info_has(withAdapter, other)
                          \/ (Present("inductive") /\ other = "inductive")
  BY <1>2, <1>4, AddedKeeps
<1> HIDE DEF withInductive
<1>6. /\ IsList(withPorts) /\ Ordered(withPorts)
      /\ \A other : battery_info_has(withPorts, other)
                      <=> battery_info_has(withInductive, other)
                          \/ (Present("serial") /\ other = "serial")
  BY <1>2, <1>5, AddedKeeps
<1> HIDE DEF withPorts
<1>7. \A p \in Ports : battery_info_has(sections', p) <=> battery_info_has(sections, p) \/ Present(p)
  BY <1>1, <1>3, <1>4, <1>5, <1>6 DEF Ports
<1>8. Owned'
  <2>1. \A p \in Ports : refs[p] = IF battery_info_has(sections, p) THEN 1 ELSE 0
    BY DEF ListInv, Owned
  <2> QED
    BY <1>1, <1>7, <2>1 DEF Owned
<1> QED
  BY <1>1, <1>6, <1>8 DEF ListInv

\* A section that leaves takes its reference with it, and no other section is of its port.
LEMMA RemoveKeeps == ASSUME ListInv, RemoveSection PROVE ListInv'
<1> DEFINE n == Len(sections)
<1>1. PICK S : sections \in Seq(S)
  BY DEF ListInv, IsList
<1>2. /\ at \in DOMAIN sections /\ sections' = RemoveAt(sections, at)
      /\ refs' = IF sections[at].id \in Ports THEN [refs EXCEPT ![sections[at].id] = @ - 1] ELSE refs
  BY DEF RemoveSection, Current
<1>3. /\ sections' \in Seq(S) /\ Len(sections') = n - 1 /\ n \in Nat /\ at \in 1 .. n
      /\ \A j \in 1 .. n - 1 : sections'[j] = IF j < at THEN sections[j] ELSE sections[j + 1]
  BY <1>1, <1>2, Removed
<1>4. DOMAIN sections = 1 .. n /\ DOMAIN sections' = 1 .. n - 1
  BY <1>1, <1>3, LenProperties
<1> HIDE DEF n
<1>5. ASSUME NEW j \in 1 .. n - 1
      PROVE  /\ j < at => j \in 1 .. n /\ sections'[j] = sections[j]
             /\ ~ (j < at) => j + 1 \in 1 .. n /\ j + 1 > at /\ sections'[j] = sections[j + 1]
  BY <1>3
<1>6. IsList(sections')
  <2>1. ASSUME NEW j \in 1 .. n - 1
        PROVE  \E i \in 1 .. n : sections'[j] = sections[i]
    BY <1>5
  <2>2. \A i \in 1 .. n : DOMAIN sections[i] = {"id", "gone", "rows"} /\ sections[i].id \in Ids
    BY <1>4 DEF ListInv, IsList
  <2>3. \A j \in 1 .. n - 1 : DOMAIN sections'[j] = {"id", "gone", "rows"} /\ sections'[j].id \in Ids
    BY <2>1, <2>2
  <2> QED
    BY <1>3, <1>4, <2>3 DEF IsList
<1>7. Ordered(sections')
  <2> SUFFICES ASSUME NEW i \in 1 .. n - 1, NEW j \in 1 .. n - 1, i < j
               PROVE  Priority[sections'[i].id] > Priority[sections'[j].id]
    BY <1>4 DEF Ordered
  <2>1. \A k, l \in 1 .. n : k < l => Priority[sections[k].id] > Priority[sections[l].id]
    BY <1>4 DEF ListInv, Ordered
  <2>2. CASE j < at
    <3>1. i < at
      BY <1>3, <2>2
    <3> QED
      BY <1>5, <2>1, <2>2, <3>1
  <2>3. CASE ~ (j < at) /\ i < at
    <3>1. i < j + 1
      OBVIOUS
    <3> QED
      BY <1>5, <2>1, <2>3, <3>1
  <2>4. CASE ~ (j < at) /\ ~ (i < at)
    <3>1. i + 1 < j + 1
      OBVIOUS
    <3> QED
      BY <1>5, <2>1, <2>4, <3>1
  <2> QED
    BY <2>2, <2>3, <2>4
<1>8. ASSUME NEW id
      PROVE  battery_info_has(sections', id) <=> battery_info_has(sections, id) /\ id # sections[at].id
  <2>1. ASSUME NEW j \in 1 .. n - 1, sections'[j].id = id
        PROVE  battery_info_has(sections, id) /\ id # sections[at].id
    <3>1. PICK i \in 1 .. n : i # at /\ sections[i].id = id
      <4>1. CASE j < at
        BY <1>3, <1>5, <2>1, <4>1
      <4>2. CASE ~ (j < at)
        <5>1. j + 1 \in 1 .. n /\ j + 1 # at /\ sections[j + 1].id = id
          BY <1>3, <1>5, <2>1, <4>2
        <5> QED
          BY <5>1
      <4> QED
        BY <4>1, <4>2
    <3>2. sections[i].id # sections[at].id
      BY <1>3, <1>4, <3>1, OrderedOnce DEF ListInv
    <3> QED
      BY <1>4, <3>1, <3>2 DEF battery_info_has
  <2>2. ASSUME NEW i \in 1 .. n, sections[i].id = id, id # sections[at].id
        PROVE  battery_info_has(sections', id)
    <3>1. CASE i < at
      <4>1. i \in 1 .. n - 1 /\ sections'[i].id = id
        BY <1>3, <1>5, <2>2, <3>1
      <4> QED
        BY <1>4, <4>1 DEF battery_info_has
    <3>2. CASE i > at
      <4>1. i - 1 \in 1 .. n - 1 /\ ~ (i - 1 < at) /\ (i - 1) + 1 = i
        BY <1>3, <3>2
      <4>2. sections'[i - 1].id = id
        BY <1>5, <2>2, <4>1
      <4> QED
        BY <1>4, <4>1, <4>2 DEF battery_info_has
    <3> QED
      BY <1>3, <2>2, <3>1, <3>2
  <2> QED
    BY <1>4, <2>1, <2>2 DEF battery_info_has
<1>9. Owned'
  <2>1. refs = [p \in Ports |-> IF battery_info_has(sections, p) THEN 1 ELSE 0]
    BY DEF ListInv, Owned
  <2>2. battery_info_has(sections, sections[at].id)
    BY <1>2 DEF battery_info_has
  <2>3. \A p \in Ports : refs'[p] = IF battery_info_has(sections', p) THEN 1 ELSE 0
    <3> SUFFICES ASSUME NEW p \in Ports
                 PROVE  refs'[p] = IF battery_info_has(sections', p) THEN 1 ELSE 0
      OBVIOUS
    <3>1. CASE p = sections[at].id
      BY <1>2, <1>8, <2>1, <2>2, <3>1
    <3>2. CASE p # sections[at].id
      BY <1>2, <1>8, <2>1, <3>2
    <3> QED
      BY <3>1, <3>2
  <2>4. refs' = [p \in Ports |-> refs'[p]]
    BY <1>2, <2>1
  <2> QED
    BY <2>3, <2>4 DEF Owned
<1> QED
  BY <1>6, <1>7, <1>9 DEF ListInv

\* The updates of the walk: new rows, or the mark of a section to be removed.
LEMMA UpdateKeeps ==
    ASSUME ListInv, at \in DOMAIN sections, refs' = refs,
           Destroy \/ \E rows : UpdateTo(rows)
    PROVE  ListInv'
<1>1. CASE Destroy
  <2>1. sections' = [sections EXCEPT ![at] = [@ EXCEPT !["gone"] = TRUE]]
    BY <1>1 DEF Destroy, bi_destroy_section
  <2> QED
    BY <2>1, InPlace
<1>2. ASSUME NEW rows, UpdateTo(rows) PROVE ListInv'
  <2>1. sections' = [sections EXCEPT ![at] = [@ EXCEPT !["rows"] = rows]]
    BY <1>2 DEF UpdateTo
  <2> QED
    BY <2>1, InPlace
<1> QED
  BY <1>1, <1>2

\* A step that leaves the list and the references alone.
LEMMA Unchanged == ASSUME ListInv, UNCHANGED <<sections, refs>> PROVE ListInv'
BY DEF ListInv, Owned

\* Every step keeps the list.
LEMMA ListStep == ASSUME ListInv, [Next]_vars PROVE ListInv'
<1>1. CASE Refresh
  BY <1>1, Unchanged DEF Refresh
<1>2. CASE battery_info_poll
  BY <1>2, PollKeeps
<1>3. CASE UpdateGauge
  <2>1. at \in DOMAIN sections /\ refs' = refs /\ \E rows : UpdateTo(rows)
    BY <1>3 DEF UpdateGauge, InWalk
  <2> QED
    BY <2>1, UpdateKeeps
<1>4. CASE UpdateAdapter
  <2>1. at \in DOMAIN sections /\ refs' = refs
    BY <1>4 DEF UpdateAdapter, InWalk
  <2>2. Destroy \/ \E rows : UpdateTo(rows)
    BY <1>4 DEF UpdateAdapter
  <2> QED
    BY <2>1, <2>2, UpdateKeeps
<1>5. ASSUME NEW p \in Ports, UpdateAccessory(p) PROVE ListInv'
  <2>1. at \in DOMAIN sections /\ refs' = refs
    BY <1>5 DEF UpdateAccessory, InWalk
  <2>2. Destroy \/ (\E rows : UpdateTo(rows)) \/ UNCHANGED sections
    BY <1>5 DEF UpdateAccessory
  <2> QED
    BY <2>1, <2>2, UpdateKeeps, Unchanged
<1>6. CASE RemoveSection
  BY <1>6, RemoveKeeps
<1>7. CASE UpdateReturns
  BY <1>7, Unchanged DEF UpdateReturns
<1>8. CASE HardwareChanges
  BY <1>8, Unchanged DEF HardwareChanges, tableVars
<1>9. CASE UNCHANGED vars
  BY <1>9, Unchanged DEF vars, tableVars
<1> QED
  BY <1>1, <1>2, <1>3, <1>4, <1>5, <1>6, <1>7, <1>8, <1>9 DEF Next, battery_info_update

\* The empty list.
LEMMA ListInit == ASSUME Init PROVE ListInv
<1>1. sections = <<>> /\ refs = [p \in Ports |-> 0]
  BY DEF Init
<1>2. IsList(<<>>) /\ Ordered(<<>>) /\ \A p : ~ battery_info_has(<<>>, p)
  BY DEF IsList, Ordered, battery_info_has
<1> QED
  BY <1>1, <1>2 DEF ListInv, Owned

\* The list stays by priority, each section once, with a reference for each port in it.
THEOREM ListInvariance == Spec => []ListInv
BY ListInit, ListStep, PTL DEF Spec

\* The count of a port's sections is one or none.
LEMMA RefsOne == ASSUME ListInv PROVE RefsSafe
<1> SUFFICES ASSUME NEW p \in Ports
             PROVE  refs[p] = Cardinality({i \in DOMAIN sections : sections[i].id = p})
  BY DEF RefsSafe
<1> DEFINE mine == {i \in DOMAIN sections : sections[i].id = p}
<1>1. refs[p] = IF battery_info_has(sections, p) THEN 1 ELSE 0
  BY DEF ListInv, Owned
<1>2. CASE ~ battery_info_has(sections, p)
  <2>1. mine = {}
    BY <1>2 DEF battery_info_has
  <2> QED
    BY <1>1, <1>2, <2>1, FS_EmptySet
<1>3. CASE battery_info_has(sections, p)
  <2>1. PICK i \in DOMAIN sections : sections[i].id = p
    BY <1>3 DEF battery_info_has
  <2>2. mine = {i}
    BY <2>1, OrderedOnce DEF ListInv
  <2> HIDE DEF mine
  <2>3. Cardinality(mine) = 1
    BY <2>2, FS_Singleton
  <2> QED
    BY <1>1, <1>3, <2>3 DEF mine
<1> QED
  BY <1>2, <1>3

\* Each section of a port holds exactly one reference to its service, in every state (battery_info.c:604-617, 956-961).
THEOREM RefsSafeHolds == Spec => []RefsSafe
BY ListInvariance, RefsOne, PTL

-----------------------------------------------------------------------------
(* The rows of the templates.                                              *)

\* The names that stand for text in a section.
TextNames(id) ==
    CASE id = "gauge"     -> {"Device Name", "Battery Uptime", "Battery Serial No.",
                              "Chemistry ID", "Flags", "IT Misc Status"}
      [] id = "adapter"   -> {"Adapter Type", "Compatibility", "Type", "Status", "Reason",
                              "Charger IC ID", "Model Name", "Manufacturer", "Model",
                              "Firmware Version", "Hardware Version", "Description",
                              "Serial No.", "PMU Configuration"}
      [] id = "inductive" -> {"Acc. ID", "Port Type", "Allowed Features", "Serial No.",
                              "Manufacturer", "Product ID", "Vendor ID", "Model", "Name", "PPID",
                              "Firmware Version", "Hardware Version", "Battery Pack", "Status",
                              "State of Charge", "Power Mode", "Sleep Power",
                              "Inductive FW Mode", "Inductive Region Code"}
      [] OTHER            -> {"Acc. ID", "Digital ID", "ID Serial No.", "IM Serial No.",
                              "Port Type", "Allowed Features", "Serial No.", "Manufacturer",
                              "Product ID", "Vendor ID", "Model", "Name", "PPID",
                              "Firmware Version", "Hardware Version", "Battery Pack",
                              "Cell Count", "USB Connect State", "USB Current Config",
                              "Power Mode", "Sleep Power",
                              "Inductive FW Mode", "Inductive Region Code"}

\* The one row of text that is set as a number.
Counted(id, name) == id = "serial" /\ name = "Cell Count"

\* The rows of the gauge: names that differ, and which are of text.
LEMMA GaugeRows ==
    /\ DOMAIN GaugeTemplate = 1 .. 35
    /\ \A i, j \in 1 .. 35 : GaugeTemplate[i][1] = GaugeTemplate[j][1] => i = j
    /\ \A i \in 1 .. 35 : GaugeTemplate[i][2] = "S" <=> GaugeTemplate[i][1] \in TextNames("gauge")
BY DEF GaugeTemplate, TextNames

\* The rows of the adapter.
LEMMA AdapterRows ==
    /\ DOMAIN AdapterTemplate = 1 .. 23
    /\ \A i, j \in 1 .. 23 : AdapterTemplate[i][1] = AdapterTemplate[j][1] => i = j
    /\ \A i \in 1 .. 23 : AdapterTemplate[i][2] = "S" <=> AdapterTemplate[i][1] \in TextNames("adapter")
BY DEF AdapterTemplate, TextNames

\* The rows of the wireless port.
LEMMA InductiveRows ==
    /\ DOMAIN InductiveTemplate = 1 .. 38
    /\ \A i, j \in 1 .. 38 : InductiveTemplate[i][1] = InductiveTemplate[j][1]
                                => i = j \/ InductiveTemplate[i][1] = "Accepting Charge"
    /\ \A i \in 1 .. 38 : InductiveTemplate[i][2] = "S"
                                <=> InductiveTemplate[i][1] \in TextNames("inductive")
BY DEF InductiveTemplate, TextNames

\* The rows of the serial port.
LEMMA SerialRows ==
    /\ DOMAIN SerialTemplate = 1 .. 38
    /\ \A i, j \in 1 .. 38 : SerialTemplate[i][1] = SerialTemplate[j][1] => i = j
    /\ \A i \in 1 .. 38 : SerialTemplate[i][2] = "S" <=> SerialTemplate[i][1] \in TextNames("serial")
BY DEF SerialTemplate, TextNames

\* Every section is a list of rows; a row that an update has to reach has a name of its own.
LEMMA TemplateRows ==
    ASSUME NEW id \in Ids
    PROVE  /\ \E n \in Nat : DOMAIN Template[id] = 1 .. n
           /\ \A i, j \in DOMAIN Template[id] :
                 Template[id][i][1] = Template[id][j][1]
                   => i = j \/ Template[id][i][1] \in NotReached(id)
           /\ \A i \in DOMAIN Template[id] :
                 Template[id][i][2] = "S" <=> Template[id][i][1] \in TextNames(id)
<1>1. CASE id = "gauge"
  <2>1. Template[id] = GaugeTemplate
    BY <1>1 DEF Template
  <2> QED
    BY <1>1, <2>1, GaugeRows
<1>2. CASE id = "adapter"
  <2>1. Template[id] = AdapterTemplate
    BY <1>2 DEF Template
  <2> QED
    BY <1>2, <2>1, AdapterRows
<1>3. CASE id = "inductive"
  <2>1. Template[id] = InductiveTemplate
    BY <1>3 DEF Template
  <2>2. "Accepting Charge" \in NotReached("inductive")
    BY DEF NotReached
  <2> HIDE DEF NotReached
  <2>3. NotReached(id) = NotReached("inductive") /\ TextNames(id) = TextNames("inductive")
    BY <1>3
  <2>4. \A i, j \in 1 .. 38 : InductiveTemplate[i][1] = InductiveTemplate[j][1]
                                => i = j \/ InductiveTemplate[i][1] \in NotReached("inductive")
    BY <2>2, InductiveRows
  <2> QED
    BY <1>3, <2>1, <2>3, <2>4, InductiveRows
<1>4. CASE id = "serial"
  <2>1. Template[id] = SerialTemplate
    BY <1>4 DEF Template
  <2> QED
    BY <1>4, <2>1, SerialRows
<1> QED
  BY <1>1, <1>2, <1>3, <1>4 DEF Ids

-----------------------------------------------------------------------------
(* Operations on rows.                                                     *)

\* An operation that gives text names a row of text, and one that gives a number a row of
\* numbers, or the one row of text that takes either.
OpFits(id, op) ==
    /\ op.do \in {"set", "text", "hide"}
    /\ \A i \in DOMAIN Template[id] : Template[id][i][1] = op.name =>
          /\ op.do = "set" => Template[id][i][2] # "S" \/ Counted(id, op.name)
          /\ op.do = "text" => Template[id][i][2] = "S" /\ ~ Counted(id, op.name)

\* A list of such operations; whether it has one for a row; that it leaves some rows alone.
Fits(id, ops) ==
    /\ \E S : ops \in Seq(S)
    /\ \A k \in DOMAIN ops : OpFits(id, ops[k])

Covers(ops, name) == \E k \in DOMAIN ops : ops[k].name = name

\* Rows that no update names: the gauge's limits of the day are updated under other names,
\* nothing updates the mode of the adapter, and only the wireless port learns its accessory's vendor.
Skipped(id) ==
    CASE id = "gauge"   -> {"Daily Max SoC", "Daily Min SoC"}
      [] id = "adapter" -> {"HVC Mode"}
      [] id = "serial"  -> {"Vendor ID", "Product ID"}
      [] OTHER          -> {}

Skips(id, ops) == \A k \in DOMAIN ops : ops[k].name \notin Skipped(id)

\* A number is given to a row that takes numbers.
LEMMA NumberFits ==
    ASSUME NEW id \in Ids, NEW name, name \notin TextNames(id) \/ Counted(id, name),
           NEW v, NEW c
    PROVE  /\ OpFits(id, Set(name, v)) /\ Set(name, v).name = name
           /\ OpFits(id, SetIf(c, name, v)) /\ SetIf(c, name, v).name = name
<1>1. OpFits(id, Set(name, v)) /\ Set(name, v).name = name
  BY TemplateRows DEF OpFits, Set
<1>2. OpFits(id, Hide(name)) /\ Hide(name).name = name
  BY DEF OpFits, Hide
<1> QED
  BY <1>1, <1>2 DEF SetIf

\* Text is given to a row that takes text.
LEMMA TextFits ==
    ASSUME NEW id \in Ids, NEW name, ~ Counted(id, name),
           \A i \in DOMAIN Template[id] : Template[id][i][1] = name => name \in TextNames(id),
           NEW v, NEW c
    PROVE  /\ OpFits(id, Text(name, v)) /\ Text(name, v).name = name
           /\ OpFits(id, TextIf(c, name, v)) /\ TextIf(c, name, v).name = name
<1>1. OpFits(id, Text(name, v)) /\ Text(name, v).name = name
  BY TemplateRows DEF OpFits, Text
<1>2. OpFits(id, Hide(name)) /\ Hide(name).name = name
  BY DEF OpFits, Hide
<1> QED
  BY <1>1, <1>2 DEF TextIf

\* A set of numbers below a bound that is not empty has a greatest one.
LEMMA GreatestOf ==
    ASSUME NEW n \in Nat, NEW T, T \subseteq 1 .. n, T # {}
    PROVE  \E i \in T : \A j \in T : j <= i
<1> DEFINE U == {n - i : i \in T}
<1>1. U \subseteq Nat /\ U # {}
  <2>1. \A i \in T : n - i \in Nat /\ n - i \in U
    OBVIOUS
  <2> QED
    BY <2>1
<1> HIDE DEF U
<1>2. PICK u \in U : \A w \in U : u <= w
  BY <1>1, LeastOf
<1>3. PICK i \in T : u = n - i
  BY DEF U
<1>4. ASSUME NEW j \in T PROVE j <= i
  <2>1. n - j \in U
    BY DEF U
  <2>2. n - i <= n - j /\ i \in 1 .. n /\ j \in 1 .. n
    BY <1>2, <1>3, <2>1
  <2> QED
    BY <2>2
<1> QED
  BY <1>4

\* The row that is found has the name; where there is none, none is found.
LEMMA FindsNamed ==
    ASSUME NEW id \in Ids, NEW cursor, NEW name
    PROVE  LET i == FindItem(id, cursor, name)
               named == {j \in DOMAIN Template[id] : Template[id][j][1] = name}
           IN  IF named = {} THEN i = 0 ELSE i \in named /\ i # 0
<1> DEFINE named == {j \in DOMAIN Template[id] : Template[id][j][1] = name}
           names == {Template[id][i][1] : i \in DOMAIN Template[id]}
<1>1. id \in DOMAIN Template
  BY DEF Ids, Template
<1>2. /\ DOMAIN RowsNamed[id] = names
      /\ name \in names => RowsNamed[id][name] = named
  BY <1>1 DEF RowsNamed
<1>3. name \in names <=> named # {}
  OBVIOUS
<1>4. PICK n \in Nat : DOMAIN Template[id] = 1 .. n
  BY TemplateRows
<1>5. CASE named = {}
  <2>1. FindItem(id, cursor, name) = 0
    BY <1>2, <1>3, <1>5 DEF FindItem
  <2> QED
    BY <1>5, <2>1
<1>6. CASE named # {}
  <2> DEFINE R == RowsNamed[id][name]
             ahead == {i \in R : i >= cursor}
  <2>1. name \in DOMAIN RowsNamed[id] /\ R = named
    BY <1>2, <1>3, <1>6
  <2>2. R \subseteq 1 .. n /\ R \subseteq Nat /\ R # {} /\ 0 \notin R
    BY <1>4, <1>6, <2>1
  <2> HIDE DEF named, R
  <2>3. FindItem(id, cursor, name) =
          IF ahead # {} THEN CHOOSE i \in ahead : \A j \in ahead : i <= j
          ELSE CHOOSE i \in R : \A j \in R : j <= i
    BY <2>1, Zenon DEF FindItem, R
  <2>4. ahead \subseteq R
    OBVIOUS
  <2> HIDE DEF ahead
  <2>5. FindItem(id, cursor, name) \in R
    <3>1. CASE ahead # {}
      <4>1. \E i \in ahead : \A j \in ahead : i <= j
        <5>1. ahead \subseteq Nat
          BY <2>2, <2>4
        <5> QED
          BY <3>1, <5>1, LeastOf
      <4>2. FindItem(id, cursor, name) \in ahead
        BY <2>3, <3>1, <4>1
      <4> QED
        BY <2>4, <4>2
    <3>2. CASE ahead = {}
      <4>1. \E i \in R : \A j \in R : j <= i
        BY <2>2, GreatestOf
      <4> QED
        BY <2>3, <3>2, <4>1
    <3> QED
      BY <3>1, <3>2
  <2> QED
    BY <1>6, <2>1, <2>2, <2>5 DEF named
<1> QED
  BY <1>5, <1>6

-----------------------------------------------------------------------------
(* True rows.                                                              *)

RowFields == {"hidden", "dynamic", "high", "text"}
IsRow(r) == r = [f \in RowFields |-> r[f]]

\* What a row holds besides the value of its last update: nothing that the next one uses, but
\* who hid the row.
RowTrue(kind, r) ==
    /\ IsRow(r)
    /\ kind = "S" => r.hidden = FALSE /\ r.dynamic = FALSE /\ r.high = 0
    /\ kind # "S" =>
          /\ r.text = <<>>
          /\ \/ r.dynamic = FALSE
             \/ r.dynamic = TRUE /\ r.hidden = TRUE
                /\ r.high = IF kind \in InDetails THEN 0 ELSE Marker
          /\ r.dynamic = FALSE /\ kind \in InDetails => r.hidden = TRUE
          /\ r.dynamic = FALSE /\ kind \notin InDetails => r.hidden = FALSE

\* The text of a row that was never given one.
IsBuffer(text) == text = <<>> \/ text = <<"">>

\* Every row of a section is true, and its count of cells is text only as a number.
RowsTrue(id, rows) ==
    /\ rows = [j \in DOMAIN Template[id] |-> rows[j]]
    /\ \A j \in DOMAIN Template[id] :
          /\ RowTrue(Template[id][j][2], rows[j])
          /\ Counted(id, Template[id][j][1]) => IsBuffer(rows[j].text)

\* Rows that agree in every field are the same.
LEMMA SameFields ==
    ASSUME NEW r, NEW q, IsRow(r), IsRow(q), r.hidden = q.hidden, r.dynamic = q.dynamic,
           r.high = q.high, r.text = q.text
    PROVE  r = q
BY DEF IsRow, RowFields

\* A new row is true.
LEMMA NewTrue == ASSUME NEW kind PROVE RowTrue(kind, NewRow(kind)) /\ NewRow(kind).text = <<>>
<1> DEFINE r == NewRow(kind)
           h == kind \in InDetails
<1>1. r = [hidden |-> h, dynamic |-> FALSE, high |-> 0, text |-> <<>>]
  BY DEF NewRow
<1>2. kind = "S" => h = FALSE
  BY DEF InDetails
<1>3. kind \in InDetails => h = TRUE
  OBVIOUS
<1>4. kind \notin InDetails => h = FALSE
  OBVIOUS
<1> HIDE DEF r, h
<1>5. IsRow(r) /\ r.hidden = h /\ r.dynamic = FALSE /\ r.high = 0 /\ r.text = <<>>
  BY <1>1 DEF IsRow, RowFields
<1> QED
  BY <1>2, <1>3, <1>4, <1>5 DEF RowTrue, r

\* A row that becomes available is true, and as its template has it.
LEMMA AvailableRow ==
    ASSUME NEW kind, kind # "S", NEW r, RowTrue(kind, r)
    PROVE  RowTrue(kind, Available(r)) /\ Available(r).dynamic = FALSE
<1> DEFINE a == Available(r)
           b == r.hidden /\ r.high < Marker
<1>1. IsRow(r) /\ r.text = <<>>
  BY DEF RowTrue
<1>2. CASE r.dynamic = FALSE
  <2>1. a = r
    BY <1>2 DEF Available
  <2> QED
    BY <1>2, <2>1
<1>3. CASE r.dynamic = TRUE
  <2>1. r.hidden = TRUE /\ r.high = IF kind \in InDetails THEN 0 ELSE Marker
    BY <1>3 DEF RowTrue
  <2>2. a = [r EXCEPT !.dynamic = FALSE, !.high = r.high % Marker, !.hidden = b]
    BY <1>3 DEF Available
  <2>3. kind \in InDetails => b = TRUE
    BY <2>1 DEF Marker
  <2>4. kind \notin InDetails => b = FALSE
    BY <2>1 DEF Marker
  <2> HIDE DEF a, b
  <2>5. IsRow(a)
    BY <1>1, <2>2 DEF IsRow, RowFields
  <2>6. a.dynamic = FALSE
    BY <1>1, <2>2 DEF IsRow, RowFields
  <2>7. a.text = <<>>
    BY <1>1, <2>2 DEF IsRow, RowFields
  <2>8. a.hidden = b
    BY <1>1, <2>2 DEF IsRow, RowFields
  <2>9. RowTrue(kind, a)
    BY <2>3, <2>4, <2>5, <2>6, <2>7, <2>8 DEF RowTrue
  <2> QED
    BY <2>6, <2>9 DEF a
<1> QED
  BY <1>2, <1>3 DEF RowTrue

\* A row that becomes unavailable is true, and marked as its template asks.
LEMMA UnavailableRow ==
    ASSUME NEW kind, kind # "S", NEW r, RowTrue(kind, r)
    PROVE  RowTrue(kind, Unavailable(r)) /\ Unavailable(r).dynamic = TRUE
<1> DEFINE u == Unavailable(r)
           added == IF r.dynamic THEN r.high >= Marker ELSE ~ r.hidden
           x == IF added THEN Marker ELSE 0
<1>1. IsRow(r) /\ r.text = <<>>
  BY DEF RowTrue
<1>2. u = [r EXCEPT !.dynamic = TRUE, !.hidden = TRUE, !.high = x]
  BY DEF Unavailable
<1>3. x = IF kind \in InDetails THEN 0 ELSE Marker
  <2>1. CASE r.dynamic = FALSE
    BY <2>1 DEF RowTrue
  <2>2. CASE r.dynamic = TRUE
    BY <2>2 DEF RowTrue, Marker
  <2> QED
    BY <2>1, <2>2 DEF RowTrue
<1> HIDE DEF u, x
<1>4. IsRow(u)
  BY <1>1, <1>2 DEF IsRow, RowFields
<1>5. u.dynamic = TRUE /\ u.hidden = TRUE
  BY <1>1, <1>2 DEF IsRow, RowFields
<1>6. u.high = x /\ u.text = <<>>
  BY <1>1, <1>2 DEF IsRow, RowFields
<1>7. RowTrue(kind, u)
  BY <1>3, <1>4, <1>5, <1>6 DEF RowTrue
<1> QED
  BY <1>5, <1>7 DEF u

\* A true row of numbers is told by whether it has a value, and which.
LEMMA NumberRow ==
    ASSUME NEW kind, kind # "S", NEW r, NEW q, RowTrue(kind, r), RowTrue(kind, q),
           r.dynamic = q.dynamic, r.high = q.high
    PROVE  r = q
<1>1. r.hidden = q.hidden
  BY DEF RowTrue
<1> QED
  BY <1>1, SameFields DEF RowTrue

\* A row of numbers has no text.
LEMMA NumberText ==
    ASSUME NEW kind, kind # "S", NEW r, RowTrue(kind, r)
    PROVE  IsBuffer(r.text)
BY DEF RowTrue, IsBuffer

\* The upper half of a row with a number.
Stored(kind, v) == IF kind \in FloatKinds THEN Packed(v) ELSE v % 65536

\* What a row holds after it was given a number.
LEMMA SetNumber ==
    ASSUME NEW kind, kind # "S", NEW r, RowTrue(kind, r), NEW v
    PROVE  /\ RowTrue(kind, SetItem(kind, r, v))
           /\ SetItem(kind, r, v).dynamic = FALSE
           /\ SetItem(kind, r, v).high = Stored(kind, v)
<1> DEFINE n == SetItem(kind, r, v)
           a == Available(r)
           x == Stored(kind, v)
<1>1. n = [a EXCEPT !.high = x]
  BY DEF SetItem, Stored
<1>2. RowTrue(kind, a) /\ a.dynamic = FALSE
  BY AvailableRow
<1> HIDE DEF n, a, x
<1>3. IsRow(n)
  BY <1>1, <1>2 DEF RowTrue, IsRow, RowFields
<1>4. n.hidden = a.hidden /\ n.dynamic = a.dynamic
  BY <1>1, <1>2 DEF RowTrue, IsRow, RowFields
<1>5. n.high = x /\ n.text = a.text
  BY <1>1, <1>2 DEF RowTrue, IsRow, RowFields
<1>6. RowTrue(kind, n)
  BY <1>2, <1>3, <1>4, <1>5 DEF RowTrue
<1> QED
  BY <1>2, <1>4, <1>5, <1>6 DEF n, x

\* A number in a row does not depend on what was there.
LEMMA SetSame ==
    ASSUME NEW kind, kind # "S", NEW r, NEW q, RowTrue(kind, r), RowTrue(kind, q), NEW v
    PROVE  /\ SetItem(kind, r, v) = SetItem(kind, q, v)
           /\ RowTrue(kind, SetItem(kind, r, v))
<1> DEFINE m == SetItem(kind, r, v)
           n == SetItem(kind, q, v)
           x == Stored(kind, v)
<1>1. RowTrue(kind, m) /\ m.dynamic = FALSE /\ m.high = x
  BY SetNumber
<1>2. RowTrue(kind, n) /\ n.dynamic = FALSE /\ n.high = x
  BY SetNumber
<1> HIDE DEF m, n, x
<1>3. m = n
  BY <1>1, <1>2, NumberRow
<1> QED
  BY <1>1, <1>3 DEF m, n

\* A hidden row does not depend on what was there.
LEMMA HideSame ==
    ASSUME NEW kind, kind # "S", NEW r, NEW q, RowTrue(kind, r), RowTrue(kind, q)
    PROVE  Unavailable(r) = Unavailable(q) /\ RowTrue(kind, Unavailable(r))
<1> DEFINE m == Unavailable(r)
           n == Unavailable(q)
<1>1. RowTrue(kind, m) /\ m.dynamic = TRUE /\ RowTrue(kind, n) /\ n.dynamic = TRUE
  BY UnavailableRow
<1> HIDE DEF m, n
<1>2. m.high = n.high
  BY <1>1 DEF RowTrue
<1>3. m = n
  BY <1>1, <1>2, NumberRow
<1> QED
  BY <1>1, <1>3 DEF m, n

\* A text changes nothing else.
LEMMA SetText ==
    ASSUME NEW r, RowTrue("S", r), NEW text
    PROVE  RowTrue("S", [r EXCEPT !.text = text]) /\ [r EXCEPT !.text = text].text = text
<1> DEFINE n == [r EXCEPT !.text = text]
<1>1. IsRow(r) /\ r.hidden = FALSE /\ r.dynamic = FALSE /\ r.high = 0
  BY DEF RowTrue
<1>2. IsRow(n)
  BY <1>1 DEF IsRow, RowFields
<1>3. n.hidden = r.hidden /\ n.dynamic = r.dynamic /\ n.high = r.high /\ n.text = text
  BY <1>1 DEF IsRow, RowFields
<1> HIDE DEF n
<1>4. RowTrue("S", n)
  BY <1>1, <1>2, <1>3 DEF RowTrue
<1> QED
  BY <1>3, <1>4 DEF n

\* An operation on a true row forgets what the row held.
LEMMA DoneSame ==
    ASSUME NEW kind, NEW r, NEW q, RowTrue(kind, r), RowTrue(kind, q), NEW op, NEW counted \in BOOLEAN,
           op.do \in {"set", "text", "hide"},
           op.do = "set" => kind # "S" \/ counted,
           op.do = "text" => kind = "S" /\ ~ counted,
           counted => IsBuffer(r.text) /\ IsBuffer(q.text)
    PROVE  /\ Done(kind, r, op) = Done(kind, q, op)
           /\ RowTrue(kind, Done(kind, r, op))
           /\ counted => IsBuffer(Done(kind, r, op).text)
<1>1. CASE kind = "S"
  <2> DEFINE text == CASE op.do = "set" -> <<"">> [] op.do = "text" -> op.v [] op.do = "hide" -> <<>>
  <2>1. ASSUME NEW x, RowTrue(kind, x), counted => IsBuffer(x.text)
        PROVE  Done(kind, x, op) = [x EXCEPT !.text = text]
    <3>1. CASE op.do = "set"
      <4> DEFINE new == bi_node_ensure_string(x.text)
      <4>1. Done(kind, x, op) = [x EXCEPT !.text = new]
        <5>1. Done(kind, x, op) = SetItem(kind, x, op.v)
          BY <3>1 DEF Done
        <5>2. SetItem(kind, x, op.v) = [x EXCEPT !.text = new]
          BY <1>1 DEF SetItem, FloatKinds
        <5> QED
          BY <5>1, <5>2
      <4>2. new = text
        BY <1>1, <2>1, <3>1 DEF IsBuffer, bi_node_ensure_string
      <4> HIDE DEF new, text
      <4> QED
        BY <4>1, <4>2
    <3>2. CASE op.do = "text"
      BY <3>2 DEF Done
    <3>3. CASE op.do = "hide"
      BY <1>1, <3>3 DEF Done, HideItem
    <3> QED
      BY <3>1, <3>2, <3>3
  <2>2. counted => IsBuffer(text)
    BY DEF IsBuffer
  <2> HIDE DEF text
  <2> DEFINE m == [r EXCEPT !.text = text]
             n == [q EXCEPT !.text = text]
  <2>3. Done(kind, r, op) = m /\ Done(kind, q, op) = n
    BY <2>1
  <2>4. RowTrue("S", m) /\ m.text = text
    BY <1>1, SetText
  <2>5. RowTrue("S", n) /\ n.text = text
    BY <1>1, SetText
  <2> HIDE DEF m, n
  <2>6. m = n
    BY <2>4, <2>5, SameFields DEF RowTrue
  <2> QED
    BY <1>1, <2>2, <2>3, <2>4, <2>6
<1>2. CASE kind # "S"
  <2>1. CASE op.do = "set"
    <3>1. Done(kind, r, op) = SetItem(kind, r, op.v) /\ Done(kind, q, op) = SetItem(kind, q, op.v)
      BY <2>1 DEF Done
    <3>2. Done(kind, r, op) = Done(kind, q, op) /\ RowTrue(kind, Done(kind, r, op))
      BY <1>2, <3>1, SetSame
    <3> QED
      BY <1>2, <3>2, NumberText
  <2>2. CASE op.do = "hide"
    <3>1. Done(kind, r, op) = Unavailable(r) /\ Done(kind, q, op) = Unavailable(q)
      BY <1>2, <2>2 DEF Done, HideItem
    <3>2. Done(kind, r, op) = Done(kind, q, op) /\ RowTrue(kind, Done(kind, r, op))
      BY <1>2, <3>1, HideSame
    <3> QED
      BY <1>2, <3>2, NumberText
  <2> QED
    BY <1>2, <2>1, <2>2
<1> QED
  BY <1>1, <1>2

-----------------------------------------------------------------------------
(* Lists of operations.                                                    *)

\* Induction over numbers, with a set for the property.
LEMMA NatSetInduction ==
    ASSUME NEW T, 0 \in T, \A n \in Nat : n \in T => n + 1 \in T
    PROVE  \A n \in Nat : n \in T
<1> SUFFICES ASSUME NEW m \in Nat, m \notin T PROVE FALSE
  OBVIOUS
<1> DEFINE U == {n \in Nat : n \notin T}
<1>1. PICK i \in U : \A j \in U : i <= j
  <2>1. U \subseteq Nat /\ U # {}
    OBVIOUS
  <2> HIDE DEF U
  <2> QED
    BY <2>1, LeastOf
<1>2. i \in Nat /\ i # 0 /\ i \notin T
  OBVIOUS
<1>3. i - 1 \in Nat /\ ~(i <= i - 1) /\ i - 1 \in T
  BY <1>1, <1>2
<1> QED
  BY <1>2, <1>3

\* The rows and the cursor after each operation, as Apply defines them.
Start(rows) == [cursor |-> 1, rows |-> rows]
States(f, id, rows, ops, n) ==
    f = [k \in 0 .. n |-> IF k = 0 THEN Start(rows) ELSE Step(id, f[k - 1], ops[k])]

\* The recursion of Apply has a value for every list.
LEMMA StatesExist ==
    ASSUME NEW id, NEW rows, NEW ops, NEW n \in Nat
    PROVE  \E f : States(f, id, rows, ops, n)
<1> DEFINE T == {m \in Nat : \E f : States(f, id, rows, ops, m)}
<1>1. 0 \in T
  <2> DEFINE f == [k \in 0 .. 0 |-> Start(rows)]
  <2>1. f = [k \in 0 .. 0 |-> IF k = 0 THEN Start(rows) ELSE Step(id, f[k - 1], ops[k])]
    OBVIOUS
  <2> HIDE DEF f
  <2>2. States(f, id, rows, ops, 0)
    BY <2>1 DEF States
  <2> QED
    BY <2>2
<1>2. ASSUME NEW m \in Nat, m \in T PROVE m + 1 \in T
  <2>1. PICK f : States(f, id, rows, ops, m)
    BY <1>2
  <2> DEFINE last == Step(id, f[m], ops[m + 1])
             g == [k \in 0 .. m + 1 |-> IF k <= m THEN f[k] ELSE last]
  <2>2. \A k \in 0 .. m : f[k] = IF k = 0 THEN Start(rows) ELSE Step(id, f[k - 1], ops[k])
    BY <2>1 DEF States
  <2>3. ASSUME NEW k \in 0 .. m + 1
        PROVE  g[k] = IF k = 0 THEN Start(rows) ELSE Step(id, g[k - 1], ops[k])
    <3>1. CASE k = 0
      BY <2>2, <3>1
    <3>2. CASE k # 0 /\ k <= m
      <4>1. k - 1 \in 0 .. m + 1 /\ k - 1 <= m /\ k \in 0 .. m
        BY <3>2
      <4>2. g[k] = f[k] /\ g[k - 1] = f[k - 1]
        BY <3>2, <4>1
      <4> HIDE DEF g
      <4> QED
        BY <2>2, <3>2, <4>1, <4>2
    <3>3. CASE k = m + 1
      <4>1. g[k] = last /\ k - 1 = m /\ g[m] = f[m] /\ k # 0
        BY <3>3
      <4> HIDE DEF g
      <4> QED
        BY <3>3, <4>1
    <3> QED
      BY <3>1, <3>2, <3>3
  <2>4. g = [k \in 0 .. m + 1 |-> g[k]]
    OBVIOUS
  <2> HIDE DEF g
  <2>5. States(g, id, rows, ops, m + 1)
    BY <2>3, <2>4 DEF States
  <2> QED
    BY <2>5
<1> HIDE DEF T
<1>3. n \in T
  BY <1>1, <1>2, NatSetInduction
<1> QED
  BY <1>3 DEF T

\* Apply is the last of these states.
LEMMA ApplyDef ==
    ASSUME NEW id, NEW rows, NEW ops, Len(ops) \in Nat
    PROVE  \E f : /\ States(f, id, rows, ops, Len(ops))
                  /\ Apply(id, rows, ops) = f[Len(ops)].rows
<1> DEFINE f == CHOOSE f : f = [k \in 0 .. Len(ops) |->
                  IF k = 0 THEN Start(rows) ELSE Step(id, f[k - 1], ops[k])]
<1>1. Apply(id, rows, ops) = f[Len(ops)].rows
  BY Zenon DEF Apply, Start
<1>2. \E g : g = [k \in 0 .. Len(ops) |->
                  IF k = 0 THEN Start(rows) ELSE Step(id, g[k - 1], ops[k])]
  <2>1. PICK g : States(g, id, rows, ops, Len(ops))
    BY StatesExist
  <2> QED
    BY <2>1, Zenon DEF States
<1>3. f = [k \in 0 .. Len(ops) |-> IF k = 0 THEN Start(rows) ELSE Step(id, f[k - 1], ops[k])]
  BY <1>2, Zenon
<1> QED
  BY <1>1, <1>3, Zenon DEF States

\* One operation changes the rows of its name, and the row that has the name to itself.
LEMMA StepRows ==
    ASSUME NEW id \in Ids, NEW st, RowsTrue(id, st.rows), NEW op, OpFits(id, op)
    PROVE  LET new == Step(id, st, op).rows IN
           /\ RowsTrue(id, new)
           /\ \A j \in DOMAIN Template[id] : Template[id][j][1] # op.name => new[j] = st.rows[j]
           /\ \A j \in DOMAIN Template[id] :
                 Template[id][j][1] = op.name /\ op.name \notin NotReached(id)
                   => new[j] = Done(Template[id][j][2], st.rows[j], op)
<1> DEFINE D == DOMAIN Template[id]
           N(j) == Template[id][j][1]
           K(j) == Template[id][j][2]
           i == FindItem(id, st.cursor, op.name)
           named == {j \in D : N(j) = op.name}
           new == Step(id, st, op).rows
<1>1. IF named = {} THEN i = 0 ELSE i \in named /\ i # 0
  BY FindsNamed
<1>2. CASE named = {}
  <2>1. Step(id, st, op) = st
    BY <1>1, <1>2 DEF Step
  <2> QED
    BY <1>2, <2>1
<1>3. CASE named # {}
  <2>1. i \in D /\ N(i) = op.name /\ i # 0
    BY <1>1, <1>3
  <2> DEFINE d == Done(K(i), st.rows[i], op)
  <2>2. new = [st.rows EXCEPT ![i] = d]
    BY <2>1 DEF Step
  <2> HIDE DEF i, d, new
  <2>3. st.rows = [j \in D |-> st.rows[j]]
    BY DEF RowsTrue
  <2>4. new = [j \in D |-> IF j = i THEN d ELSE st.rows[j]]
    BY <2>1, <2>2, <2>3
  <2>5. /\ RowTrue(K(i), d)
        /\ Counted(id, N(i)) => IsBuffer(d.text)
    <3>1. /\ RowTrue(K(i), st.rows[i])
          /\ Counted(id, N(i)) => IsBuffer(st.rows[i].text)
      BY <2>1 DEF RowsTrue
    <3>2. /\ op.do \in {"set", "text", "hide"}
          /\ op.do = "set" => K(i) # "S" \/ Counted(id, N(i))
          /\ op.do = "text" => K(i) = "S" /\ ~ Counted(id, N(i))
      BY <2>1 DEF OpFits
    <3> DEFINE counted == Counted(id, N(i))
    <3>3. counted \in BOOLEAN
      BY DEF Counted
    <3> HIDE DEF counted
    <3> QED
      BY <3>1, <3>2, <3>3, DoneSame DEF d, counted
  <2>6. RowsTrue(id, new)
    <3>1. new = [j \in D |-> new[j]]
      BY <2>4
    <3>2. ASSUME NEW j \in D
          PROVE  RowTrue(K(j), new[j]) /\ (Counted(id, N(j)) => IsBuffer(new[j].text))
      <4>1. CASE j = i
        BY <2>4, <2>5, <4>1
      <4>2. CASE j # i
        <5>1. new[j] = st.rows[j]
          BY <2>4, <4>2
        <5> QED
          BY <5>1 DEF RowsTrue
      <4> QED
        BY <4>1, <4>2
    <3> QED
      BY <3>1, <3>2 DEF RowsTrue
  <2>7. \A j \in D : N(j) # op.name => new[j] = st.rows[j]
    BY <2>1, <2>4
  <2>8. \A j \in D : N(j) = op.name /\ op.name \notin NotReached(id) => j = i
    BY <2>1, TemplateRows
  <2>9. \A j \in D : N(j) = op.name /\ op.name \notin NotReached(id)
                       => new[j] = Done(K(j), st.rows[j], op)
    BY <2>4, <2>8 DEF d
  <2> QED
    BY <2>6, <2>7, <2>9 DEF new
<1> QED
  BY <1>2, <1>3

\* What a list of operations leaves in a row that it names does not depend on what was there,
\* and a row that it does not name stays as it was.
LEMMA ApplySame ==
    ASSUME NEW id \in Ids, NEW rows, NEW other, RowsTrue(id, rows), RowsTrue(id, other),
           NEW ops, Fits(id, ops)
    PROVE  LET new == Apply(id, rows, ops)
               same == Apply(id, other, ops)
           IN  /\ RowsTrue(id, new)
               /\ \A j \in DOMAIN Template[id] :
                     LET name == Template[id][j][1] IN
                     /\ Covers(ops, name) /\ name \notin NotReached(id) => new[j] = same[j]
                     /\ ~ Covers(ops, name) => new[j] = rows[j]
<1> DEFINE D == DOMAIN Template[id]
           N(j) == Template[id][j][1]
           K(j) == Template[id][j][2]
           n == Len(ops)
<1>1. PICK S : ops \in Seq(S)
  BY DEF Fits
<1>2. n \in Nat /\ DOMAIN ops = 1 .. n
  BY <1>1, LenProperties
<1>3. \A k \in 1 .. n : OpFits(id, ops[k])
  BY <1>2 DEF Fits
<1>4. \A name : Covers(ops, name) <=> \E k \in 1 .. n : ops[k].name = name
  BY <1>2 DEF Covers
<1>5. PICK f : States(f, id, rows, ops, n) /\ Apply(id, rows, ops) = f[n].rows
  BY <1>2, ApplyDef
<1>6. PICK g : States(g, id, other, ops, n) /\ Apply(id, other, ops) = g[n].rows
  BY <1>2, ApplyDef
<1> HIDE DEF n
<1>7. /\ f[0] = Start(rows)
      /\ \A k \in 1 .. n : f[k] = Step(id, f[k - 1], ops[k])
  BY <1>2, <1>5 DEF States
<1>8. /\ g[0] = Start(other)
      /\ \A k \in 1 .. n : g[k] = Step(id, g[k - 1], ops[k])
  BY <1>2, <1>6 DEF States
<1> DEFINE Named(j, k) == \E l \in 1 .. k : ops[l].name = N(j)
           T == {k \in Nat : k <= n =>
                    /\ RowsTrue(id, f[k].rows) /\ RowsTrue(id, g[k].rows)
                    /\ \A j \in D :
                          /\ Named(j, k) /\ N(j) \notin NotReached(id) => f[k].rows[j] = g[k].rows[j]
                          /\ ~ Named(j, k) => f[k].rows[j] = rows[j]}
<1>9. 0 \in T
  <2>1. f[0].rows = rows /\ g[0].rows = other
    BY <1>7, <1>8 DEF Start
  <2>2. \A j \in D : ~ Named(j, 0)
    OBVIOUS
  <2> HIDE DEF Named
  <2> QED
    BY <2>1, <2>2
<1>10. ASSUME NEW k \in Nat, k \in T PROVE k + 1 \in T
  <2> SUFFICES ASSUME k + 1 <= n
               PROVE  /\ RowsTrue(id, f[k + 1].rows) /\ RowsTrue(id, g[k + 1].rows)
                      /\ \A j \in D :
                            /\ Named(j, k + 1) /\ N(j) \notin NotReached(id)
                                 => f[k + 1].rows[j] = g[k + 1].rows[j]
                            /\ ~ Named(j, k + 1) => f[k + 1].rows[j] = rows[j]
    <3> HIDE DEF Named
    <3> QED
      OBVIOUS
  <2> DEFINE op == ops[k + 1]
  <2>1. /\ RowsTrue(id, f[k].rows) /\ RowsTrue(id, g[k].rows)
        /\ \A j \in D :
              /\ Named(j, k) /\ N(j) \notin NotReached(id) => f[k].rows[j] = g[k].rows[j]
              /\ ~ Named(j, k) => f[k].rows[j] = rows[j]
    <3>1. k <= n
      BY <1>2
    <3> HIDE DEF Named
    <3> QED
      BY <1>10, <3>1
  <2>2. k + 1 \in 1 .. n /\ (k + 1) - 1 = k
    BY <1>2
  <2>3. OpFits(id, op)
    BY <1>3, <2>2
  <2>4. f[k + 1] = Step(id, f[k], op) /\ g[k + 1] = Step(id, g[k], op)
    BY <1>7, <1>8, <2>2
  <2>5. \A j \in D : Named(j, k + 1) <=> Named(j, k) \/ op.name = N(j)
    <3> SUFFICES ASSUME NEW j \in D PROVE Named(j, k + 1) <=> Named(j, k) \/ op.name = N(j)
      OBVIOUS
    <3>1. \A l \in 1 .. k + 1 : l \in 1 .. k \/ l = k + 1
      OBVIOUS
    <3>2. \A l \in 1 .. k : l \in 1 .. k + 1
      OBVIOUS
    <3>3. k + 1 \in 1 .. k + 1
      OBVIOUS
    <3> QED
      BY <3>1, <3>2, <3>3
  <2> HIDE DEF op, Named
  <2>6. /\ RowsTrue(id, f[k + 1].rows)
        /\ \A j \in D : N(j) # op.name => f[k + 1].rows[j] = f[k].rows[j]
        /\ \A j \in D : N(j) = op.name /\ op.name \notin NotReached(id)
                           => f[k + 1].rows[j] = Done(K(j), f[k].rows[j], op)
    BY <2>1, <2>3, <2>4, StepRows
  <2>7. /\ RowsTrue(id, g[k + 1].rows)
        /\ \A j \in D : N(j) # op.name => g[k + 1].rows[j] = g[k].rows[j]
        /\ \A j \in D : N(j) = op.name /\ op.name \notin NotReached(id)
                           => g[k + 1].rows[j] = Done(K(j), g[k].rows[j], op)
    BY <2>1, <2>3, <2>4, StepRows
  <2>8. ASSUME NEW j \in D, N(j) = op.name
        PROVE  Done(K(j), f[k].rows[j], op) = Done(K(j), g[k].rows[j], op)
    <3> DEFINE counted == Counted(id, N(j))
               r == f[k].rows[j]
               q == g[k].rows[j]
    <3>1. /\ RowTrue(K(j), r) /\ RowTrue(K(j), q)
          /\ counted => IsBuffer(r.text) /\ IsBuffer(q.text)
      BY <2>1 DEF RowsTrue
    <3>2. /\ op.do \in {"set", "text", "hide"}
          /\ op.do = "set" => K(j) # "S" \/ counted
          /\ op.do = "text" => K(j) = "S" /\ ~ counted
      BY <2>3, <2>8 DEF OpFits
    <3>3. counted \in BOOLEAN
      BY DEF Counted
    <3> HIDE DEF counted, r, q
    <3>4. Done(K(j), r, op) = Done(K(j), q, op)
      BY <3>1, <3>2, <3>3, DoneSame
    <3> QED
      BY <3>4 DEF r, q
  <2>9. ASSUME NEW j \in D
        PROVE  /\ Named(j, k + 1) /\ N(j) \notin NotReached(id)
                    => f[k + 1].rows[j] = g[k + 1].rows[j]
               /\ ~ Named(j, k + 1) => f[k + 1].rows[j] = rows[j]
    <3>1. CASE N(j) = op.name
      BY <2>5, <2>6, <2>7, <2>8, <3>1
    <3>2. CASE N(j) # op.name
      BY <2>1, <2>5, <2>6, <2>7, <3>2
    <3> QED
      BY <3>1, <3>2
  <2> QED
    BY <2>6, <2>7, <2>9
<1>11. n \in T
  <2> HIDE DEF T
  <2> QED
    BY <1>2, <1>9, <1>10, NatSetInduction
<1>12. \A j \in D : Covers(ops, N(j)) <=> Named(j, n)
  BY <1>4
<1> HIDE DEF Named
<1>13. /\ RowsTrue(id, f[n].rows)
       /\ \A j \in D :
             /\ Named(j, n) /\ N(j) \notin NotReached(id) => f[n].rows[j] = g[n].rows[j]
             /\ ~ Named(j, n) => f[n].rows[j] = rows[j]
  BY <1>2, <1>11
<1> QED
  BY <1>5, <1>6, <1>12, <1>13

-----------------------------------------------------------------------------
(* What each list of operations covers.                                    *)

Op(id, op, name) == OpFits(id, op) /\ op.name = name /\ name \notin Skipped(id)
Covered(ops, names) == \A name \in names : Covers(ops, name)

\* The rows that the lists of operations name.
GaugeNames ==
    {"Device Name", "Battery Uptime", "Qmax", "DOD0 Reference", "Passed Charge", "Voltage",
     "Avg. Current", "Avg. Power", "Cell Count", "Time to Empty", "Cycle Count",
     "Designed Cycle Count", "State of Charge", "State of Charge (UI)", "Resistance Scale",
     "Battery Serial No.", "Chemistry ID", "Flags", "True Remaining Capacity", "OCV Current",
     "OCV Voltage", "Max Load Current", "Max Load Current 2", "IT Misc Status",
     "Simulation Rate", "Daily Max Soc", "Daily Min Soc"}

CapacityNames ==
    {"Health", "SoC", "Avg. Temperature", "Charging", "ASoC(Hidden)", "Full Charge Capacity",
     "Designed Capacity", "Remaining Capacity"}

AdapterNames ==
    {"Port", "Current Rating", "Voltage Rating", "Input Current", "Input Voltage",
     "Charging Current", "Charging Voltage", "Charger Configuration", "Compatibility", "Type",
     "Status", "Charger IC ID", "Model Name", "Manufacturer", "Model", "Firmware Version",
     "Hardware Version", "Description", "Serial No.", "PMU Configuration", "Reason",
     "Adapter Type"}

PortNames ==
    {"Acc. ID", "Allowed Features", "Port Type", "Serial No.", "Manufacturer", "Model", "Name",
     "PPID", "Firmware Version", "Hardware Version", "Battery Pack", "Power Mode",
     "Sleep Power", "Supervised Acc. Attached", "Supervised Transports Restricted"}

UpsNames ==
    {"Cell Count", "Current Capacity", "Max Capacity", "Cycle Count",
     "Charging Voltage Rating", "Avg. Charging Current", "Current", "Voltage",
     "Incoming Current", "Incoming Voltage", "Accepting Charge", "Temperature",
     "Acc. Time to Empty", "Acc. Time to Full"}

InductiveNames == {"Inductive FW Mode", "Inductive Region Code", "Inductive Auth Timeout"}

SerialNames == {"Providing Power", "USB Connect State", "USB Charging Volt."}

\* An operation made for a name of the section fits it.
LEMMA NumberOp ==
    ASSUME NEW id \in Ids, NEW name, name \notin TextNames(id) \/ Counted(id, name),
           name \notin Skipped(id), NEW v, NEW c
    PROVE  Op(id, Set(name, v), name) /\ Op(id, SetIf(c, name, v), name)
BY NumberFits DEF Op

\* The same for text.
LEMMA TextOp ==
    ASSUME NEW id \in Ids, NEW name, name \in TextNames(id), ~ Counted(id, name),
           name \notin Skipped(id), NEW v, NEW c
    PROVE  Op(id, Text(name, v), name) /\ Op(id, TextIf(c, name, v), name)
BY TextFits DEF Op

\* A list of operations that fit.
LEMMA FitsList ==
    ASSUME NEW id, NEW n \in Nat, NEW ops, ops = [k \in 1 .. n |-> ops[k]],
           \A k \in 1 .. n : \E name : Op(id, ops[k], name)
    PROVE  Fits(id, ops) /\ Skips(id, ops)
<1>1. ops \in Seq({ops[k] : k \in 1 .. n})
  OBVIOUS
<1>2. DOMAIN ops = 1 .. n
  OBVIOUS
<1> QED
  BY <1>1, <1>2 DEF Fits, Skips, Op

\* The second half of the gauge: every operation fits its row, and which rows are named.
LEMMA GaugeFits ==
    ASSUME NEW g
    PROVE  LET ops == GaugeOps(g) IN
           /\ Fits("gauge", ops) /\ Skips("gauge", ops)
           /\ Covered(ops, GaugeNames)
<1> DEFINE Count(name) == \A c, v : Op("gauge", SetIf(c, name, v), name)
           Phrase(name) == \A c, v : Op("gauge", TextIf(c, name, v), name)
           String(name) == \A v : Op("gauge", Text(name, v), name)
<1>0. PICK ops : ops = GaugeOps(g)
  OBVIOUS
<1>1. Count("Qmax") /\ Count("DOD0 Reference") /\ Count("Passed Charge") /\ Count("Voltage") /\
      Count("Avg. Current") /\ Count("Avg. Power") /\ Count("Cell Count") /\
      Count("Time to Empty") /\ Count("Cycle Count") /\ Count("Designed Cycle Count") /\
      Count("State of Charge") /\ Count("State of Charge (UI)") /\ Count("Resistance Scale") /\
      Count("True Remaining Capacity") /\ Count("OCV Current") /\ Count("OCV Voltage") /\
      Count("Max Load Current") /\ Count("Max Load Current 2") /\ Count("Simulation Rate") /\
      Count("Daily Max Soc") /\ Count("Daily Min Soc")
  BY NumberOp DEF Ids, TextNames, Counted, Skipped
<1>2. Phrase("Device Name") /\ Phrase("Battery Uptime") /\ Phrase("Chemistry ID") /\
      Phrase("Flags") /\ Phrase("IT Misc Status") /\ String("Battery Serial No.")
  BY TextOp DEF Ids, TextNames, Counted, Skipped
<1>3. Op("gauge", ops[1], "Device Name") /\ Op("gauge", ops[2], "Battery Uptime") /\
      Op("gauge", ops[3], "Qmax") /\ Op("gauge", ops[4], "DOD0 Reference") /\
      Op("gauge", ops[5], "Passed Charge") /\ Op("gauge", ops[6], "Voltage") /\
      Op("gauge", ops[7], "Avg. Current") /\ Op("gauge", ops[8], "Avg. Power") /\
      Op("gauge", ops[9], "Cell Count") /\ Op("gauge", ops[10], "Time to Empty") /\
      Op("gauge", ops[11], "Cycle Count") /\ Op("gauge", ops[12], "Designed Cycle Count") /\
      Op("gauge", ops[13], "State of Charge") /\ Op("gauge", ops[14], "State of Charge (UI)") /\
      Op("gauge", ops[15], "Resistance Scale") /\ Op("gauge", ops[16], "Battery Serial No.") /\
      Op("gauge", ops[17], "Chemistry ID") /\ Op("gauge", ops[18], "Flags") /\
      Op("gauge", ops[19], "True Remaining Capacity") /\ Op("gauge", ops[20], "OCV Current") /\
      Op("gauge", ops[21], "OCV Voltage") /\ Op("gauge", ops[22], "Max Load Current") /\
      Op("gauge", ops[23], "Max Load Current 2") /\ Op("gauge", ops[24], "IT Misc Status") /\
      Op("gauge", ops[25], "Simulation Rate") /\ Op("gauge", ops[26], "Daily Max Soc") /\
      Op("gauge", ops[27], "Daily Min Soc")
  BY <1>0, <1>1, <1>2 DEF GaugeOps
<1> HIDE DEF Count, Phrase, String
<1>4. ops = [k \in 1 .. 27 |-> ops[k]]
  <2>1. GaugeOps(g) = [k \in 1 .. 27 |-> GaugeOps(g)[k]]
    BY DEF GaugeOps
  <2> QED
    BY <1>0, <2>1
<1>5. ASSUME NEW k \in 1 .. 27 PROVE \E name : Op("gauge", ops[k], name)
  <2>1. k = 1 \/ k = 2 \/ k = 3 \/ k = 4 \/ k = 5 \/ k = 6 \/ k = 7 \/ k = 8 \/ k = 9 \/ k = 10 \/
        k = 11 \/ k = 12 \/ k = 13 \/ k = 14 \/ k = 15 \/ k = 16 \/ k = 17 \/ k = 18 \/ k = 19 \/
        k = 20 \/ k = 21 \/ k = 22 \/ k = 23 \/ k = 24 \/ k = 25 \/ k = 26 \/ k = 27
    OBVIOUS
  <2> QED
    BY <1>3, <2>1
<1>6. Fits("gauge", ops) /\ Skips("gauge", ops)
  BY <1>4, <1>5, FitsList
<1>7. \A k \in 1 .. 27 : \A name : Op("gauge", ops[k], name) => Covers(ops, name)
  BY <1>4 DEF Op, Covers
<1>8. 1 \in 1 .. 27 /\ 2 \in 1 .. 27 /\ 3 \in 1 .. 27 /\ 4 \in 1 .. 27 /\ 5 \in 1 .. 27 /\
      6 \in 1 .. 27 /\ 7 \in 1 .. 27 /\ 8 \in 1 .. 27 /\ 9 \in 1 .. 27 /\ 10 \in 1 .. 27 /\
      11 \in 1 .. 27 /\ 12 \in 1 .. 27 /\ 13 \in 1 .. 27 /\ 14 \in 1 .. 27 /\ 15 \in 1 .. 27 /\
      16 \in 1 .. 27 /\ 17 \in 1 .. 27 /\ 18 \in 1 .. 27 /\ 19 \in 1 .. 27 /\ 20 \in 1 .. 27 /\
      21 \in 1 .. 27 /\ 22 \in 1 .. 27 /\ 23 \in 1 .. 27 /\ 24 \in 1 .. 27 /\ 25 \in 1 .. 27 /\
      26 \in 1 .. 27 /\ 27 \in 1 .. 27
  OBVIOUS
<1>9. Covers(ops, "Device Name") /\ Covers(ops, "Battery Uptime") /\ Covers(ops, "Qmax") /\
      Covers(ops, "DOD0 Reference") /\ Covers(ops, "Passed Charge") /\ Covers(ops, "Voltage") /\
      Covers(ops, "Avg. Current") /\ Covers(ops, "Avg. Power") /\ Covers(ops, "Cell Count") /\
      Covers(ops, "Time to Empty") /\ Covers(ops, "Cycle Count") /\
      Covers(ops, "Designed Cycle Count") /\ Covers(ops, "State of Charge") /\
      Covers(ops, "State of Charge (UI)") /\ Covers(ops, "Resistance Scale") /\
      Covers(ops, "Battery Serial No.") /\ Covers(ops, "Chemistry ID") /\ Covers(ops, "Flags") /\
      Covers(ops, "True Remaining Capacity") /\ Covers(ops, "OCV Current") /\
      Covers(ops, "OCV Voltage") /\ Covers(ops, "Max Load Current") /\
      Covers(ops, "Max Load Current 2") /\ Covers(ops, "IT Misc Status") /\
      Covers(ops, "Simulation Rate") /\ Covers(ops, "Daily Max Soc") /\
      Covers(ops, "Daily Min Soc")
  BY <1>3, <1>7, <1>8, Zenon
<1> QED
  BY <1>0, <1>6, <1>9 DEF Covered, GaugeNames

\* The adapter.
LEMMA AdapterFits ==
    ASSUME NEW family
    PROVE  LET ops == AdapterOps(family) IN
           /\ Fits("adapter", ops) /\ Skips("adapter", ops)
           /\ Covered(ops, AdapterNames)
<1> DEFINE Number(name) == \A v : Op("adapter", Set(name, v), name)
           Phrase(name) == \A c, v : Op("adapter", TextIf(c, name, v), name)
           String(name) == \A v : Op("adapter", Text(name, v), name)
<1>0. PICK ops : ops = AdapterOps(family)
  OBVIOUS
<1>1. Number("Port") /\ Number("Current Rating") /\ Number("Voltage Rating") /\
      Number("Input Current") /\ Number("Input Voltage") /\ Number("Charging Current") /\
      Number("Charging Voltage") /\ Number("Charger Configuration")
  BY NumberOp DEF Ids, TextNames, Counted, Skipped
<1>2. Phrase("Model Name") /\ Phrase("Manufacturer") /\ Phrase("Model") /\
      Phrase("Firmware Version") /\ Phrase("Hardware Version") /\ Phrase("Description") /\
      Phrase("Serial No.") /\ Phrase("PMU Configuration") /\ Phrase("Reason") /\
      Phrase("Adapter Type") /\ String("Compatibility") /\ String("Type") /\ String("Status") /\
      String("Charger IC ID")
  BY TextOp DEF Ids, TextNames, Counted, Skipped
<1>3. Op("adapter", ops[1], "Port") /\ Op("adapter", ops[2], "Compatibility") /\
      Op("adapter", ops[3], "Type") /\ Op("adapter", ops[4], "Status") /\
      Op("adapter", ops[5], "Current Rating") /\ Op("adapter", ops[6], "Voltage Rating") /\
      Op("adapter", ops[7], "Input Current") /\ Op("adapter", ops[8], "Input Voltage") /\
      Op("adapter", ops[9], "Charging Current") /\ Op("adapter", ops[10], "Charging Voltage") /\
      Op("adapter", ops[11], "Charger IC ID") /\ Op("adapter", ops[12], "Model Name") /\
      Op("adapter", ops[13], "Manufacturer") /\ Op("adapter", ops[14], "Model") /\
      Op("adapter", ops[15], "Firmware Version") /\ Op("adapter", ops[16], "Hardware Version") /\
      Op("adapter", ops[17], "Description") /\ Op("adapter", ops[18], "Serial No.") /\
      Op("adapter", ops[19], "PMU Configuration") /\
      Op("adapter", ops[20], "PMU Configuration") /\
      Op("adapter", ops[21], "Charger Configuration") /\ Op("adapter", ops[22], "Reason") /\
      Op("adapter", ops[23], "Adapter Type")
  BY <1>0, <1>1, <1>2 DEF AdapterOps
<1> HIDE DEF Number, Phrase, String
<1>4. ops = [k \in 1 .. 23 |-> ops[k]]
  <2>1. AdapterOps(family) = [k \in 1 .. 23 |-> AdapterOps(family)[k]]
    BY DEF AdapterOps
  <2> QED
    BY <1>0, <2>1
<1>5. ASSUME NEW k \in 1 .. 23 PROVE \E name : Op("adapter", ops[k], name)
  <2>1. k = 1 \/ k = 2 \/ k = 3 \/ k = 4 \/ k = 5 \/ k = 6 \/ k = 7 \/ k = 8 \/ k = 9 \/ k = 10 \/
        k = 11 \/ k = 12 \/ k = 13 \/ k = 14 \/ k = 15 \/ k = 16 \/ k = 17 \/ k = 18 \/ k = 19 \/
        k = 20 \/ k = 21 \/ k = 22 \/ k = 23
    OBVIOUS
  <2> QED
    BY <1>3, <2>1
<1>6. Fits("adapter", ops) /\ Skips("adapter", ops)
  BY <1>4, <1>5, FitsList
<1>7. \A k \in 1 .. 23 : \A name : Op("adapter", ops[k], name) => Covers(ops, name)
  BY <1>4 DEF Op, Covers
<1>8. 1 \in 1 .. 23 /\ 2 \in 1 .. 23 /\ 3 \in 1 .. 23 /\ 4 \in 1 .. 23 /\ 5 \in 1 .. 23 /\
      6 \in 1 .. 23 /\ 7 \in 1 .. 23 /\ 8 \in 1 .. 23 /\ 9 \in 1 .. 23 /\ 10 \in 1 .. 23 /\
      11 \in 1 .. 23 /\ 12 \in 1 .. 23 /\ 13 \in 1 .. 23 /\ 14 \in 1 .. 23 /\ 15 \in 1 .. 23 /\
      16 \in 1 .. 23 /\ 17 \in 1 .. 23 /\ 18 \in 1 .. 23 /\ 19 \in 1 .. 23 /\ 20 \in 1 .. 23 /\
      21 \in 1 .. 23 /\ 22 \in 1 .. 23 /\ 23 \in 1 .. 23
  OBVIOUS
<1>9. Covers(ops, "Port") /\ Covers(ops, "Compatibility") /\ Covers(ops, "Type") /\
      Covers(ops, "Status") /\ Covers(ops, "Current Rating") /\ Covers(ops, "Voltage Rating") /\
      Covers(ops, "Input Current") /\ Covers(ops, "Input Voltage") /\
      Covers(ops, "Charging Current") /\ Covers(ops, "Charging Voltage") /\
      Covers(ops, "Charger IC ID") /\ Covers(ops, "Model Name") /\ Covers(ops, "Manufacturer") /\
      Covers(ops, "Model") /\ Covers(ops, "Firmware Version") /\
      Covers(ops, "Hardware Version") /\ Covers(ops, "Description") /\
      Covers(ops, "Serial No.") /\ Covers(ops, "PMU Configuration") /\
      Covers(ops, "Charger Configuration") /\ Covers(ops, "Reason") /\ Covers(ops, "Adapter Type")
  BY <1>3, <1>7, <1>8, Zenon
<1> QED
  BY <1>0, <1>6, <1>9 DEF Covered, AdapterNames

\* The first half of the gauge.
LEMMA CapacityFits ==
    ASSUME NEW c
    PROVE  LET ops == CapacityOps(c) IN
           /\ Fits("gauge", ops) /\ Skips("gauge", ops)
           /\ Covered(ops, CapacityNames)
<1> DEFINE Count(name) == \A b, v : Op("gauge", SetIf(b, name, v), name)
           Number(name) == Op("gauge", SocOp(c), name)
<1>0. PICK ops : ops = CapacityOps(c)
  OBVIOUS
<1>1. Count("Health") /\ Count("Avg. Temperature") /\ Count("Charging") /\
      Count("ASoC(Hidden)") /\ Count("Full Charge Capacity") /\ Count("Designed Capacity") /\
      Count("Remaining Capacity") /\ Number("SoC")
  BY NumberOp DEF SocOp, Ids, TextNames, Counted, Skipped
<1>3. Op("gauge", ops[1], "Health") /\ Op("gauge", ops[2], "SoC") /\
      Op("gauge", ops[3], "Avg. Temperature") /\ Op("gauge", ops[4], "Charging") /\
      Op("gauge", ops[5], "ASoC(Hidden)") /\ Op("gauge", ops[6], "Full Charge Capacity") /\
      Op("gauge", ops[7], "Designed Capacity") /\ Op("gauge", ops[8], "Remaining Capacity")
  BY <1>0, <1>1 DEF CapacityOps
<1> HIDE DEF Count, Number
<1>4. ops = [k \in 1 .. 8 |-> ops[k]]
  <2>1. CapacityOps(c) = [k \in 1 .. 8 |-> CapacityOps(c)[k]]
    BY DEF CapacityOps
  <2> QED
    BY <1>0, <2>1
<1>5. ASSUME NEW k \in 1 .. 8 PROVE \E name : Op("gauge", ops[k], name)
  <2>1. k = 1 \/ k = 2 \/ k = 3 \/ k = 4 \/ k = 5 \/ k = 6 \/ k = 7 \/ k = 8
    OBVIOUS
  <2> QED
    BY <1>3, <2>1
<1>6. Fits("gauge", ops) /\ Skips("gauge", ops)
  BY <1>4, <1>5, FitsList
<1>7. \A k \in 1 .. 8 : \A name : Op("gauge", ops[k], name) => Covers(ops, name)
  BY <1>4 DEF Op, Covers
<1>8. 1 \in 1 .. 8 /\ 2 \in 1 .. 8 /\ 3 \in 1 .. 8 /\ 4 \in 1 .. 8 /\ 5 \in 1 .. 8 /\
      6 \in 1 .. 8 /\ 7 \in 1 .. 8 /\ 8 \in 1 .. 8
  OBVIOUS
<1>9. Covers(ops, "Health") /\ Covers(ops, "SoC") /\ Covers(ops, "Avg. Temperature") /\
      Covers(ops, "Charging") /\ Covers(ops, "ASoC(Hidden)") /\
      Covers(ops, "Full Charge Capacity") /\ Covers(ops, "Designed Capacity") /\
      Covers(ops, "Remaining Capacity")
  BY <1>3, <1>7, <1>8, Zenon
<1> QED
  BY <1>0, <1>6, <1>9 DEF Covered, CapacityNames

\* An accessory on either port.
LEMMA PortFits ==
    ASSUME NEW p \in Ports, NEW a
    PROVE  LET ops == PortOps(a) IN
           /\ Fits(p, ops) /\ Skips(p, ops)
           /\ Covered(ops, PortNames)
<1> DEFINE Count(name) == \A c, v : Op(p, SetIf(c, name, v), name)
           Phrase(name) == \A c, v : Op(p, TextIf(c, name, v), name)
           String(name) == \A v : Op(p, Text(name, v), name)
<1>0. PICK ops : ops = PortOps(a)
  OBVIOUS
<1>1. Count("Supervised Acc. Attached") /\ Count("Supervised Transports Restricted")
  BY NumberOp DEF Ports, Ids, TextNames, Counted, Skipped
<1>2. Phrase("Allowed Features") /\ Phrase("Port Type") /\ Phrase("Serial No.") /\
      Phrase("Manufacturer") /\ Phrase("Model") /\ Phrase("Name") /\ Phrase("PPID") /\
      Phrase("Firmware Version") /\ Phrase("Hardware Version") /\ String("Acc. ID") /\
      String("Battery Pack") /\ String("Power Mode") /\ String("Sleep Power")
  BY TextOp DEF Ports, Ids, TextNames, Counted, Skipped
<1>3. Op(p, ops[1], "Acc. ID") /\ Op(p, ops[2], "Allowed Features") /\
      Op(p, ops[3], "Port Type") /\ Op(p, ops[4], "Serial No.") /\
      Op(p, ops[5], "Manufacturer") /\ Op(p, ops[6], "Model") /\ Op(p, ops[7], "Name") /\
      Op(p, ops[8], "PPID") /\ Op(p, ops[9], "Firmware Version") /\
      Op(p, ops[10], "Hardware Version") /\ Op(p, ops[11], "Battery Pack") /\
      Op(p, ops[12], "Power Mode") /\ Op(p, ops[13], "Sleep Power") /\
      Op(p, ops[14], "Supervised Acc. Attached") /\
      Op(p, ops[15], "Supervised Transports Restricted")
  BY <1>0, <1>1, <1>2 DEF PortOps
<1> HIDE DEF Count, Phrase, String
<1>4. ops = [k \in 1 .. 15 |-> ops[k]]
  <2>1. PortOps(a) = [k \in 1 .. 15 |-> PortOps(a)[k]]
    BY DEF PortOps
  <2> QED
    BY <1>0, <2>1
<1>5. ASSUME NEW k \in 1 .. 15 PROVE \E name : Op(p, ops[k], name)
  <2>1. k = 1 \/ k = 2 \/ k = 3 \/ k = 4 \/ k = 5 \/ k = 6 \/ k = 7 \/ k = 8 \/ k = 9 \/ k = 10 \/
        k = 11 \/ k = 12 \/ k = 13 \/ k = 14 \/ k = 15
    OBVIOUS
  <2> QED
    BY <1>3, <2>1
<1>6. Fits(p, ops) /\ Skips(p, ops)
  BY <1>4, <1>5, FitsList
<1>7. \A k \in 1 .. 15 : \A name : Op(p, ops[k], name) => Covers(ops, name)
  BY <1>4 DEF Op, Covers
<1>8. 1 \in 1 .. 15 /\ 2 \in 1 .. 15 /\ 3 \in 1 .. 15 /\ 4 \in 1 .. 15 /\ 5 \in 1 .. 15 /\
      6 \in 1 .. 15 /\ 7 \in 1 .. 15 /\ 8 \in 1 .. 15 /\ 9 \in 1 .. 15 /\ 10 \in 1 .. 15 /\
      11 \in 1 .. 15 /\ 12 \in 1 .. 15 /\ 13 \in 1 .. 15 /\ 14 \in 1 .. 15 /\ 15 \in 1 .. 15
  OBVIOUS
<1>9. Covers(ops, "Acc. ID") /\ Covers(ops, "Allowed Features") /\ Covers(ops, "Port Type") /\
      Covers(ops, "Serial No.") /\ Covers(ops, "Manufacturer") /\ Covers(ops, "Model") /\
      Covers(ops, "Name") /\ Covers(ops, "PPID") /\ Covers(ops, "Firmware Version") /\
      Covers(ops, "Hardware Version") /\ Covers(ops, "Battery Pack") /\
      Covers(ops, "Power Mode") /\ Covers(ops, "Sleep Power") /\
      Covers(ops, "Supervised Acc. Attached") /\ Covers(ops, "Supervised Transports Restricted")
  BY <1>3, <1>7, <1>8, Zenon
<1> QED
  BY <1>0, <1>6, <1>9 DEF Covered, PortNames

\* The snapshot of an accessory battery.
LEMMA UpsFits ==
    ASSUME NEW p \in Ports
    PROVE  LET ops == UpsOps IN
           /\ Fits(p, ops) /\ Skips(p, ops)
           /\ Covered(ops, UpsNames)
<1> DEFINE Count(name) == \A c, v : Op(p, SetIf(c, name, v), name)
<1>0. PICK ops : ops = UpsOps
  OBVIOUS
<1>1. Count("Cell Count") /\ Count("Current Capacity") /\ Count("Max Capacity") /\
      Count("Cycle Count") /\ Count("Charging Voltage Rating") /\
      Count("Avg. Charging Current") /\ Count("Current") /\ Count("Voltage") /\
      Count("Incoming Current") /\ Count("Incoming Voltage") /\ Count("Accepting Charge") /\
      Count("Temperature") /\ Count("Acc. Time to Empty") /\ Count("Acc. Time to Full")
  BY NumberOp DEF Ports, Ids, TextNames, Counted, Skipped
<1>3. Op(p, ops[1], "Cell Count") /\ Op(p, ops[2], "Current Capacity") /\
      Op(p, ops[3], "Max Capacity") /\ Op(p, ops[4], "Cycle Count") /\
      Op(p, ops[5], "Charging Voltage Rating") /\ Op(p, ops[6], "Avg. Charging Current") /\
      Op(p, ops[7], "Current") /\ Op(p, ops[8], "Voltage") /\ Op(p, ops[9], "Incoming Current") /\
      Op(p, ops[10], "Incoming Voltage") /\ Op(p, ops[11], "Accepting Charge") /\
      Op(p, ops[12], "Temperature") /\ Op(p, ops[13], "Acc. Time to Empty") /\
      Op(p, ops[14], "Acc. Time to Full")
  BY <1>0, <1>1 DEF UpsOps
<1> HIDE DEF Count
<1>4. ops = [k \in 1 .. 14 |-> ops[k]]
  <2>1. UpsOps = [k \in 1 .. 14 |-> UpsOps[k]]
    BY DEF UpsOps
  <2> QED
    BY <1>0, <2>1
<1>5. ASSUME NEW k \in 1 .. 14 PROVE \E name : Op(p, ops[k], name)
  <2>1. k = 1 \/ k = 2 \/ k = 3 \/ k = 4 \/ k = 5 \/ k = 6 \/ k = 7 \/ k = 8 \/ k = 9 \/ k = 10 \/
        k = 11 \/ k = 12 \/ k = 13 \/ k = 14
    OBVIOUS
  <2> QED
    BY <1>3, <2>1
<1>6. Fits(p, ops) /\ Skips(p, ops)
  BY <1>4, <1>5, FitsList
<1>7. \A k \in 1 .. 14 : \A name : Op(p, ops[k], name) => Covers(ops, name)
  BY <1>4 DEF Op, Covers
<1>8. 1 \in 1 .. 14 /\ 2 \in 1 .. 14 /\ 3 \in 1 .. 14 /\ 4 \in 1 .. 14 /\ 5 \in 1 .. 14 /\
      6 \in 1 .. 14 /\ 7 \in 1 .. 14 /\ 8 \in 1 .. 14 /\ 9 \in 1 .. 14 /\ 10 \in 1 .. 14 /\
      11 \in 1 .. 14 /\ 12 \in 1 .. 14 /\ 13 \in 1 .. 14 /\ 14 \in 1 .. 14
  OBVIOUS
<1>9. Covers(ops, "Cell Count") /\ Covers(ops, "Current Capacity") /\
      Covers(ops, "Max Capacity") /\ Covers(ops, "Cycle Count") /\
      Covers(ops, "Charging Voltage Rating") /\ Covers(ops, "Avg. Charging Current") /\
      Covers(ops, "Current") /\ Covers(ops, "Voltage") /\ Covers(ops, "Incoming Current") /\
      Covers(ops, "Incoming Voltage") /\ Covers(ops, "Accepting Charge") /\
      Covers(ops, "Temperature") /\ Covers(ops, "Acc. Time to Empty") /\
      Covers(ops, "Acc. Time to Full")
  BY <1>3, <1>7, <1>8, Zenon
<1> QED
  BY <1>0, <1>6, <1>9 DEF Covered, UpsNames

\* The wireless mode of an accessory.
LEMMA InductiveFits ==
    ASSUME NEW p \in Ports, NEW a
    PROVE  LET ops == InductiveOps(a) IN
           /\ Fits(p, ops) /\ Skips(p, ops)
           /\ Covered(ops, InductiveNames)
<1> DEFINE Count(name) == \A c, v : Op(p, SetIf(c, name, v), name)
           Phrase(name) == \A c, v : Op(p, TextIf(c, name, v), name)
<1>0. PICK ops : ops = InductiveOps(a)
  OBVIOUS
<1>1. Count("Inductive Auth Timeout")
  BY NumberOp DEF Ports, Ids, TextNames, Counted, Skipped
<1>2. Phrase("Inductive FW Mode") /\ Phrase("Inductive Region Code")
  BY TextOp DEF Ports, Ids, TextNames, Counted, Skipped
<1>3. Op(p, ops[1], "Inductive FW Mode") /\ Op(p, ops[2], "Inductive Region Code") /\
      Op(p, ops[3], "Inductive Auth Timeout")
  BY <1>0, <1>1, <1>2 DEF InductiveOps
<1> HIDE DEF Count, Phrase
<1>4. ops = [k \in 1 .. 3 |-> ops[k]]
  <2>1. InductiveOps(a) = [k \in 1 .. 3 |-> InductiveOps(a)[k]]
    BY DEF InductiveOps
  <2> QED
    BY <1>0, <2>1
<1>5. ASSUME NEW k \in 1 .. 3 PROVE \E name : Op(p, ops[k], name)
  <2>1. k = 1 \/ k = 2 \/ k = 3
    OBVIOUS
  <2> QED
    BY <1>3, <2>1
<1>6. Fits(p, ops) /\ Skips(p, ops)
  BY <1>4, <1>5, FitsList
<1>7. \A k \in 1 .. 3 : \A name : Op(p, ops[k], name) => Covers(ops, name)
  BY <1>4 DEF Op, Covers
<1>8. 1 \in 1 .. 3 /\ 2 \in 1 .. 3 /\ 3 \in 1 .. 3
  OBVIOUS
<1>9. Covers(ops, "Inductive FW Mode") /\ Covers(ops, "Inductive Region Code") /\
      Covers(ops, "Inductive Auth Timeout")
  BY <1>3, <1>7, <1>8, Zenon
<1> QED
  BY <1>0, <1>6, <1>9 DEF Covered, InductiveNames

\* The vendor of an accessory, on the wireless port.
LEMMA VendorFits ==
    ASSUME NEW v
    PROVE  LET ops == VendorOps(v) IN
           /\ Fits("inductive", ops) /\ Skips("inductive", ops)
           /\ Covered(ops, {"Vendor ID", "Product ID"})
<1> DEFINE Phrase(name) == \A c, w : Op("inductive", TextIf(c, name, w), name)
<1>0. PICK ops : ops = VendorOps(v)
  OBVIOUS
<1>2. Phrase("Vendor ID") /\ Phrase("Product ID")
  BY TextOp DEF Ids, TextNames, Counted, Skipped
<1>3. Op("inductive", ops[1], "Vendor ID") /\ Op("inductive", ops[2], "Product ID")
  BY <1>0, <1>2 DEF VendorOps
<1> HIDE DEF Phrase
<1>4. ops = [k \in 1 .. 2 |-> ops[k]]
  <2>1. VendorOps(v) = [k \in 1 .. 2 |-> VendorOps(v)[k]]
    BY DEF VendorOps
  <2> QED
    BY <1>0, <2>1
<1>5. ASSUME NEW k \in 1 .. 2 PROVE \E name : Op("inductive", ops[k], name)
  <2>1. k = 1 \/ k = 2
    OBVIOUS
  <2> QED
    BY <1>3, <2>1
<1>6. Fits("inductive", ops) /\ Skips("inductive", ops)
  BY <1>4, <1>5, FitsList
<1>7. \A k \in 1 .. 2 : \A name : Op("inductive", ops[k], name) => Covers(ops, name)
  BY <1>4 DEF Op, Covers
<1>8. 1 \in 1 .. 2 /\ 2 \in 1 .. 2
  OBVIOUS
<1>9. Covers(ops, "Vendor ID") /\ Covers(ops, "Product ID")
  BY <1>3, <1>7, <1>8, Zenon
<1> QED
  BY <1>0, <1>6, <1>9 DEF Covered

\* The numbers of a digital identity, on the serial port.
LEMMA DigitalFits ==
    ASSUME NEW a
    PROVE  LET ops == DigitalOps(a) IN
           /\ Fits("serial", ops) /\ Skips("serial", ops)
           /\ Covered(ops, {"Digital ID", "ID Serial No.", "IM Serial No."})
<1> DEFINE Phrase(name) == \A c, v : Op("serial", TextIf(c, name, v), name)
<1>0. PICK ops : ops = DigitalOps(a)
  OBVIOUS
<1>2. Phrase("Digital ID") /\ Phrase("ID Serial No.") /\ Phrase("IM Serial No.")
  BY TextOp DEF Ids, TextNames, Counted, Skipped
<1>3. Op("serial", ops[1], "Digital ID") /\ Op("serial", ops[2], "ID Serial No.") /\
      Op("serial", ops[3], "IM Serial No.")
  BY <1>0, <1>2 DEF DigitalOps
<1> HIDE DEF Phrase
<1>4. ops = [k \in 1 .. 3 |-> ops[k]]
  <2>1. DigitalOps(a) = [k \in 1 .. 3 |-> DigitalOps(a)[k]]
    BY DEF DigitalOps
  <2> QED
    BY <1>0, <2>1
<1>5. ASSUME NEW k \in 1 .. 3 PROVE \E name : Op("serial", ops[k], name)
  <2>1. k = 1 \/ k = 2 \/ k = 3
    OBVIOUS
  <2> QED
    BY <1>3, <2>1
<1>6. Fits("serial", ops) /\ Skips("serial", ops)
  BY <1>4, <1>5, FitsList
<1>7. \A k \in 1 .. 3 : \A name : Op("serial", ops[k], name) => Covers(ops, name)
  BY <1>4 DEF Op, Covers
<1>8. 1 \in 1 .. 3 /\ 2 \in 1 .. 3 /\ 3 \in 1 .. 3
  OBVIOUS
<1>9. Covers(ops, "Digital ID") /\ Covers(ops, "ID Serial No.") /\ Covers(ops, "IM Serial No.")
  BY <1>3, <1>7, <1>8, Zenon
<1> QED
  BY <1>0, <1>6, <1>9 DEF Covered

-----------------------------------------------------------------------------
(* Whole updates.                                                          *)

\* An update that does what Fresh asks of it, row by row.
Reaches(id, ops) ==
    \A j \in DOMAIN Template[id] :
        Template[id][j][1] \in NotReached(id) \cup Skipped(id) \/ Covers(ops, Template[id][j][1])

\* A row may be hidden under its name.
LEMMA HideOp ==
    ASSUME NEW id \in Ids, NEW name, name \notin Skipped(id)
    PROVE  Op(id, Hide(name), name)
BY DEF Op, OpFits, Hide

\* No operation is a list that fits.
LEMMA NoneFits == ASSUME NEW id PROVE Fits(id, <<>>) /\ Skips(id, <<>>)
<1>1. <<>> \in Seq({}) /\ DOMAIN <<>> = {}
  OBVIOUS
<1> QED
  BY <1>1 DEF Fits, Skips

\* One operation that fits is a list that fits.
LEMMA OneFits ==
    ASSUME NEW id, NEW op, NEW name, Op(id, op, name)
    PROVE  Fits(id, <<op>>) /\ Skips(id, <<op>>) /\ Covers(<<op>>, name)
<1> DEFINE ops == <<op>>
<1>1. ops = [k \in 1 .. 1 |-> ops[k]] /\ ops[1] = op
  OBVIOUS
<1> HIDE DEF ops
<1>2. \A k \in 1 .. 1 : Op(id, ops[k], name)
  BY <1>1
<1>3. Fits(id, ops) /\ Skips(id, ops)
  BY <1>1, <1>2, FitsList
<1>4. Covers(ops, name)
  <2>1. DOMAIN ops = 1 .. 1
    BY <1>1
  <2> QED
    BY <1>2, <2>1 DEF Covers, Op
<1> QED
  BY <1>3, <1>4 DEF ops

\* Lists one after the other do what both do.
LEMMA BothFit ==
    ASSUME NEW id, NEW a, Fits(id, a), Skips(id, a), NEW b, Fits(id, b), Skips(id, b)
    PROVE  /\ Fits(id, a \o b) /\ Skips(id, a \o b)
           /\ \A name : Covers(a, name) \/ Covers(b, name) => Covers(a \o b, name)
<1>1. PICK S : a \in Seq(S)
  BY DEF Fits
<1>2. PICK T : b \in Seq(T)
  BY DEF Fits
<1> DEFINE ab == a \o b
<1>3. a \in Seq(S \cup T) /\ b \in Seq(S \cup T)
  BY <1>1, <1>2
<1>4. ab \in Seq(S \cup T) /\ DOMAIN ab = 1 .. Len(a) + Len(b)
  BY <1>3
<1>5. DOMAIN a = 1 .. Len(a) /\ DOMAIN b = 1 .. Len(b) /\ Len(a) \in Nat /\ Len(b) \in Nat
  BY <1>3
<1>6. \A k \in 1 .. Len(a) : ab[k] = a[k]
  BY <1>3
<1>7. \A k \in 1 .. Len(b) : ab[Len(a) + k] = b[k]
  BY <1>3
<1> HIDE DEF ab
<1>8. ASSUME NEW k \in DOMAIN ab
      PROVE  \/ k \in DOMAIN a /\ ab[k] = a[k]
             \/ k - Len(a) \in DOMAIN b /\ ab[k] = b[k - Len(a)]
  <2> DEFINE la == Len(a)
             lb == Len(b)
  <2>1. la \in Nat /\ lb \in Nat /\ k \in 1 .. la + lb
    BY <1>4, <1>5
  <2> HIDE DEF la, lb
  <2>2. CASE k <= la
    <3>1. k \in 1 .. la
      BY <2>1, <2>2
    <3> QED
      BY <1>5, <1>6, <3>1 DEF la
  <2>3. CASE ~ (k <= la)
    <3>1. k - la \in 1 .. lb /\ la + (k - la) = k
      BY <2>1, <2>3
    <3> QED
      BY <1>5, <1>7, <3>1 DEF la, lb
  <2> QED
    BY <2>2, <2>3
<1>9. Fits(id, ab)
  BY <1>4, <1>8 DEF Fits
<1>10. Skips(id, ab)
  BY <1>8 DEF Skips
<1>11. ASSUME NEW name, Covers(a, name) PROVE Covers(ab, name)
  <2>1. PICK k \in 1 .. Len(a) : a[k].name = name
    BY <1>5, <1>11 DEF Covers
  <2>2. k \in DOMAIN ab
    BY <1>4, <1>5, <2>1
  <2> QED
    BY <1>6, <2>1, <2>2 DEF Covers
<1>12. ASSUME NEW name, Covers(b, name) PROVE Covers(ab, name)
  <2>1. PICK k \in 1 .. Len(b) : b[k].name = name
    BY <1>5, <1>12 DEF Covers
  <2>2. Len(a) + k \in DOMAIN ab
    BY <1>4, <1>5, <2>1
  <2> QED
    BY <1>7, <2>1, <2>2 DEF Covers
<1> QED
  BY <1>9, <1>10, <1>11, <1>12 DEF ab

\* What two lists cover, they cover one after the other.
LEMMA BothCover ==
    ASSUME NEW id, NEW a, Fits(id, a), Skips(id, a), NEW b, Fits(id, b), Skips(id, b),
           NEW A, Covered(a, A), NEW B, Covered(b, B)
    PROVE  Fits(id, a \o b) /\ Skips(id, a \o b) /\ Covered(a \o b, A \cup B)
BY BothFit DEF Covered

\* Every list covers no names.
LEMMA CoversNone == ASSUME NEW ops PROVE Covered(ops, {})
BY DEF Covered

\* Every row that an update has to reach is named by one of its operations.
LEMMA GaugeReached ==
    /\ \A j \in 1 .. 35 : GaugeTemplate[j][1] \in {"Daily Max SoC", "Daily Min SoC"}
                                                  \cup (CapacityNames \cup GaugeNames)
    /\ \A j \in 1 .. 23 : AdapterTemplate[j][1] \in {"HVC Mode"} \cup AdapterNames
BY DEF GaugeTemplate, CapacityNames, GaugeNames, AdapterTemplate, AdapterNames

\* The same of the ports.
LEMMA PortReached ==
    /\ \A j \in 1 .. 38 : InductiveTemplate[j][1] \in NotReached("inductive")
                                                      \cup (PortNames \cup InductiveNames)
    /\ \A j \in 1 .. 38 : SerialTemplate[j][1] \in
          ({"Digital ID", "ID Serial No.", "IM Serial No.", "USB Current Config"}
           \cup {"Vendor ID", "Product ID"}) \cup (PortNames \cup (SerialNames \cup UpsNames))
BY DEF InductiveTemplate, SerialTemplate, NotReached, PortNames, InductiveNames, SerialNames, UpsNames

\* A list with these names reaches what the gauge asks of it.
LEMMA GaugeWhole ==
    ASSUME NEW ops, Covered(ops, CapacityNames \cup GaugeNames)
    PROVE  Reaches("gauge", ops)
<1>1. Template["gauge"] = GaugeTemplate /\ Skipped("gauge") = {"Daily Max SoC", "Daily Min SoC"}
  BY DEF Template, Skipped
<1> QED
  BY <1>1, GaugeReached, GaugeRows DEF Reaches, Covered

\* The same of the adapter.
LEMMA AdapterWhole ==
    ASSUME NEW ops, Covered(ops, AdapterNames)
    PROVE  Reaches("adapter", ops)
<1>1. Template["adapter"] = AdapterTemplate /\ Skipped("adapter") = {"HVC Mode"}
  BY DEF Template, Skipped
<1> QED
  BY <1>1, GaugeReached, AdapterRows DEF Reaches, Covered

\* The same of the wireless port.
LEMMA InductiveWhole ==
    ASSUME NEW ops, Covered(ops, PortNames \cup InductiveNames)
    PROVE  Reaches("inductive", ops)
<1>1. Template["inductive"] = InductiveTemplate
  BY DEF Template
<1> QED
  BY <1>1, PortReached, InductiveRows DEF Reaches, Covered

\* The same of the serial port.
LEMMA SerialWhole ==
    ASSUME NEW ops, Covered(ops, PortNames \cup (SerialNames \cup UpsNames))
    PROVE  Reaches("serial", ops)
<1>1. /\ Template["serial"] = SerialTemplate
      /\ Skipped("serial") = {"Vendor ID", "Product ID"}
      /\ NotReached("serial") = {"Digital ID", "ID Serial No.", "IM Serial No.", "USB Current Config"}
  BY DEF Template, Skipped, NotReached
<1> QED
  BY <1>1, PortReached, SerialRows DEF Reaches, Covered

\* Two operations that fit.
LEMMA TwoFit ==
    ASSUME NEW id, NEW o, NEW m, Op(id, o, m), NEW q, NEW n, Op(id, q, n)
    PROVE  Fits(id, <<o, q>>) /\ Skips(id, <<o, q>>) /\ Covered(<<o, q>>, {m, n})
<1>1. <<o, q>> = <<o>> \o <<q>>
  OBVIOUS
<1> DEFINE a == <<o>>
           b == <<q>>
<1>2. Fits(id, a) /\ Skips(id, a) /\ Covers(a, m)
  BY OneFits
<1>3. Fits(id, b) /\ Skips(id, b) /\ Covers(b, n)
  BY OneFits
<1> HIDE DEF a, b
<1>4. Fits(id, a \o b) /\ Skips(id, a \o b) /\ Covers(a \o b, m) /\ Covers(a \o b, n)
  BY <1>2, <1>3, BothFit
<1> QED
  BY <1>1, <1>4 DEF Covered, a, b

\* Three operations that fit.
LEMMA ThreeFit ==
    ASSUME NEW id, NEW o, NEW m, Op(id, o, m), NEW q, NEW n, Op(id, q, n), NEW r, NEW l, Op(id, r, l)
    PROVE  Fits(id, <<o, q, r>>) /\ Skips(id, <<o, q, r>>)
<1>1. <<o, q, r>> = <<o, q>> \o <<r>>
  OBVIOUS
<1> DEFINE a == <<o, q>>
           b == <<r>>
<1>2. Fits(id, a) /\ Skips(id, a)
  BY TwoFit
<1>3. Fits(id, b) /\ Skips(id, b)
  BY OneFits
<1> HIDE DEF a, b
<1>4. Fits(id, a \o b) /\ Skips(id, a \o b)
  BY <1>2, <1>3, BothFit
<1> QED
  BY <1>1, <1>4 DEF a, b

\* What an update of a port takes from the controller fits.
LEMMA SmcFits == ASSUME NEW p \in Ports PROVE Fits(p, SmcOps(p)) /\ Skips(p, SmcOps(p))
<1>1. CASE ~ FromSmc(p)
  <2>1. SmcOps(p) = <<Hide("Accepting Charge")>>
    BY <1>1 DEF SmcOps
  <2>2. Op(p, Hide("Accepting Charge"), "Accepting Charge")
    BY HideOp DEF Ports, Ids, Skipped
  <2> QED
    BY <2>1, <2>2, OneFits
<1>2. CASE FromSmc(p)
  <2> DEFINE array == get_iktara_accessory_array
             v == [vid |-> array.VID, pid |-> array.PID]
             o1 == Set("Providing Power", IF vbus_port = 2 THEN 1 ELSE 0)
             o2 == TextIf(array.capacity # -1, "State of Charge", <<array.capacity>>)
             o3 == SetIf(array.charging # -1, "Accepting Charge", array.charging)
             o4 == TextIf(array.status # 0, "Status", <<array.status>>)
  <2>1. p = "inductive"
    BY <1>2 DEF FromSmc
  <2>2. /\ Op("inductive", o1, "Providing Power")
        /\ Op("inductive", o3, "Accepting Charge")
    BY NumberOp DEF Ids, TextNames, Skipped
  <2>3. /\ Op("inductive", o2, "State of Charge")
        /\ Op("inductive", o4, "Status")
    BY TextOp DEF Ids, TextNames, Skipped, Counted
  <2>4. Fits("inductive", VendorOps(v)) /\ Skips("inductive", VendorOps(v))
    BY VendorFits
  <2>5. SmcOps(p) = <<o1>> \o IF ~ PresentArray(p) THEN <<>> ELSE VendorOps(v) \o <<o2, o3, o4>>
    BY <1>2, Zenon DEF SmcOps
  <2> HIDE DEF o1, o2, o3, o4, v
  <2> DEFINE a == <<o1>>
             b == <<o2, o3, o4>>
             none == <<>>
             vendor == VendorOps(v)
  <2>6. Fits("inductive", a) /\ Skips("inductive", a)
    BY <2>2, OneFits
  <2>7. Fits("inductive", b) /\ Skips("inductive", b)
    BY <2>2, <2>3, ThreeFit
  <2>8. Fits("inductive", none) /\ Skips("inductive", none)
    BY NoneFits
  <2>9. SmcOps(p) = a \o (IF ~ PresentArray(p) THEN none ELSE vendor \o b)
    BY <2>5
  <2> HIDE DEF a, b, none, vendor
  <2>10. Fits("inductive", vendor \o b) /\ Skips("inductive", vendor \o b)
    BY <2>4, <2>7, BothFit DEF vendor
  <2>11. Fits("inductive", a \o none) /\ Skips("inductive", a \o none)
    BY <2>6, <2>8, BothFit
  <2>12. Fits("inductive", a \o (vendor \o b)) /\ Skips("inductive", a \o (vendor \o b))
    BY <2>6, <2>10, BothFit
  <2> QED
    BY <2>1, <2>9, <2>11, <2>12
<1> QED
  BY <1>1, <1>2

\* What only the serial port shows fits.
LEMMA SerialFits ==
    ASSUME NEW a
    PROVE  /\ Fits("serial", SerialOps(a)) /\ Skips("serial", SerialOps(a))
           /\ Covered(SerialOps(a), SerialNames)
<1> DEFINE usb == get_acc_usb_connstat(a)
           ilim == get_acc_usb_ilim(a)
           volt == get_acc_usb_voltage(a)
           o1 == Set("Providing Power", IF vbus_port = 1 THEN 1 ELSE 0)
           o2 == TextIf(usb.found, "USB Connect State",
                        <<usb.active, acc_usb_connstat_string(usb.type),
                          acc_usb_connstat_string(usb.published_type)>>)
           o3 == SetIf(volt.attached, "USB Charging Volt.", volt.voltage)
           o4 == Text("USB Current Config", <<acc_usb_ilim_string_multiline(ilim.values)>>)
           digital == get_accid(a) = 91
           limited == ilim.attached
<1>1. Op("serial", o1, "Providing Power") /\ Op("serial", o3, "USB Charging Volt.")
  BY NumberOp DEF Ids, TextNames, Skipped
<1>2. Op("serial", o2, "USB Connect State") /\ Op("serial", o4, "USB Current Config")
  BY TextOp DEF Ids, TextNames, Skipped, Counted
<1>3. Fits("serial", DigitalOps(a)) /\ Skips("serial", DigitalOps(a))
  BY DigitalFits
<1>4. SerialOps(a) = <<o1>> \o (IF digital THEN DigitalOps(a) ELSE <<>>) \o <<o2, o3>>
                     \o (IF limited THEN <<o4>> ELSE <<>>)
  BY Zenon DEF SerialOps
<1> HIDE DEF o1, o2, o3, o4, digital, limited
<1> DEFINE la == <<o1>>
           lb == IF digital THEN DigitalOps(a) ELSE <<>>
           lc == <<o2, o3>>
           ld == IF limited THEN <<o4>> ELSE <<>>
           A == {"Providing Power"}
           C == {"USB Connect State", "USB Charging Volt."}
<1>5. Fits("serial", la) /\ Skips("serial", la) /\ Covered(la, A)
  BY <1>1, OneFits DEF Covered
<1>6. Fits("serial", lb) /\ Skips("serial", lb) /\ Covered(lb, {})
  <2>1. CASE digital
    BY <1>3, <2>1, CoversNone
  <2>2. CASE ~ digital
    BY <2>2, NoneFits, CoversNone
  <2> QED
    BY <2>1, <2>2
<1>7. Fits("serial", lc) /\ Skips("serial", lc) /\ Covered(lc, C)
  BY <1>1, <1>2, TwoFit
<1>8. Fits("serial", ld) /\ Skips("serial", ld) /\ Covered(ld, {})
  <2>1. CASE limited
    BY <1>2, <2>1, OneFits, CoversNone
  <2>2. CASE ~ limited
    BY <2>2, NoneFits, CoversNone
  <2> QED
    BY <2>1, <2>2
<1>9. SerialOps(a) = la \o lb \o lc \o ld
  BY <1>4
<1> HIDE DEF la, lb, lc, ld, A, C
<1>10. Fits("serial", la \o lb) /\ Skips("serial", la \o lb) /\ Covered(la \o lb, A \cup {})
  BY <1>5, <1>6, BothCover
<1> DEFINE lab == la \o lb
<1> HIDE DEF lab
<1>11. Fits("serial", lab) /\ Skips("serial", lab) /\ Covered(lab, A)
  BY <1>10 DEF lab
<1> DEFINE labc == lab \o lc
<1>12. Fits("serial", labc) /\ Skips("serial", labc) /\ Covered(labc, A \cup C)
  BY <1>7, <1>11, BothCover
<1> HIDE DEF labc
<1>13. Fits("serial", labc \o ld) /\ Skips("serial", labc \o ld) /\ Covered(labc \o ld, (A \cup C) \cup {})
  BY <1>8, <1>12, BothCover
<1>14. SerialNames = (A \cup C) \cup {}
  BY DEF A, C, SerialNames
<1> QED
  BY <1>9, <1>13, <1>14 DEF lab, labc

\* An update of a port fits its section and reaches what it has to.
LEMMA AccessoryFits ==
    ASSUME NEW p \in Ports, NEW a
    PROVE  Fits(p, AccessoryOps(p, a)) /\ Skips(p, AccessoryOps(p, a)) /\ Reaches(p, AccessoryOps(p, a))
<1> DEFINE hid == Vendor(p).by = "hid"
           lport == PortOps(a)
           lsmc == SmcOps(p)
           lhid == IF hid THEN VendorOps(Vendor(p)) ELSE <<>>
           lserial == IF p = "serial" THEN SerialOps(a) ELSE <<>>
           lind == InductiveOps(a)
           lups == IF HasUps(p) THEN UpsOps ELSE <<>>
<1>1. AccessoryOps(p, a) = lport \o lsmc \o lhid \o lserial \o lind \o lups
  BY DEF AccessoryOps
<1>2. Fits(p, lport) /\ Skips(p, lport) /\ Covered(lport, PortNames)
  BY PortFits DEF PortNames
<1>3. Fits(p, lsmc) /\ Skips(p, lsmc) /\ Covered(lsmc, {})
  BY SmcFits, CoversNone
<1>4. Fits(p, lhid) /\ Skips(p, lhid) /\ Covered(lhid, {})
  <2>1. CASE hid
    <3>1. p = "inductive"
      BY <2>1 DEF Vendor, PresentArray, FromSmc
    <3> QED
      BY <2>1, <3>1, VendorFits, CoversNone
  <2>2. CASE ~ hid
    BY <2>2, NoneFits, CoversNone
  <2> QED
    BY <2>1, <2>2
<1>5. /\ Fits(p, lserial) /\ Skips(p, lserial)
      /\ Covered(lserial, IF p = "serial" THEN SerialNames ELSE {})
  <2>1. CASE p = "serial"
    BY <2>1, SerialFits
  <2>2. CASE p # "serial"
    BY <2>2, NoneFits, CoversNone
  <2> QED
    BY <2>1, <2>2
<1>6. Fits(p, lind) /\ Skips(p, lind) /\ Covered(lind, InductiveNames)
  BY InductiveFits DEF InductiveNames
<1>7. /\ Fits(p, lups) /\ Skips(p, lups)
      /\ Covered(lups, IF p = "serial" THEN UpsNames ELSE {})
  <2>1. CASE p = "serial"
    <3>1. HasUps(p)
      BY <2>1 DEF HasUps
    <3> QED
      BY <2>1, <3>1, UpsFits DEF UpsNames
  <2>2. CASE p # "serial" /\ HasUps(p)
    BY <2>2, UpsFits, CoversNone
  <2>3. CASE p # "serial" /\ ~ HasUps(p)
    BY <2>3, NoneFits, CoversNone
  <2> QED
    BY <2>1, <2>2, <2>3
<1> DEFINE S == IF p = "serial" THEN SerialNames ELSE {}
           U == IF p = "serial" THEN UpsNames ELSE {}
           names == (((((PortNames \cup {}) \cup {}) \cup S) \cup InductiveNames) \cup U)
<1> HIDE DEF lport, lsmc, lhid, lserial, lind, lups, S, U
<1>8. /\ Fits(p, AccessoryOps(p, a)) /\ Skips(p, AccessoryOps(p, a))
      /\ Covered(AccessoryOps(p, a), names)
  <2> DEFINE l1 == lport \o lsmc
             l2 == l1 \o lhid
             l3 == l2 \o lserial
             l4 == l3 \o lind
             l5 == l4 \o lups
  <2>1. Fits(p, l1) /\ Skips(p, l1) /\ Covered(l1, PortNames \cup {})
    BY <1>2, <1>3, BothCover
  <2> HIDE DEF l1
  <2>2. Fits(p, l2) /\ Skips(p, l2) /\ Covered(l2, (PortNames \cup {}) \cup {})
    BY <1>4, <2>1, BothCover
  <2> HIDE DEF l2
  <2>3. Fits(p, l3) /\ Skips(p, l3) /\ Covered(l3, ((PortNames \cup {}) \cup {}) \cup S)
    BY <1>5, <2>2, BothCover DEF S
  <2> HIDE DEF l3
  <2>4. Fits(p, l4) /\ Skips(p, l4) /\ Covered(l4, (((PortNames \cup {}) \cup {}) \cup S) \cup InductiveNames)
    BY <1>6, <2>3, BothCover
  <2> HIDE DEF l4
  <2>5. Fits(p, l5) /\ Skips(p, l5) /\ Covered(l5, names)
    BY <1>7, <2>4, BothCover DEF U
  <2> QED
    BY <1>1, <2>5 DEF l1, l2, l3, l4, l5
<1>9. CASE p = "inductive"
  <2>1. Covered(AccessoryOps(p, a), PortNames \cup InductiveNames)
    BY <1>8 DEF Covered
  <2> QED
    BY <1>8, <1>9, <2>1, InductiveWhole
<1>10. CASE p = "serial"
  <2>1. Covered(AccessoryOps(p, a), PortNames \cup (SerialNames \cup UpsNames))
    BY <1>8, <1>10 DEF Covered, S, U
  <2> QED
    BY <1>8, <1>10, <2>1, SerialWhole
<1> QED
  BY <1>9, <1>10, <1>8 DEF Ports

\* The rows that no update names are as they were made.
Kept(id, rows) ==
    \A j \in DOMAIN Template[id] :
        Template[id][j][1] \in Skipped(id) => rows[j] = NewRow(Template[id][j][2])

\* The rows of a new section are true.
LEMMA NewRowsTrue ==
    ASSUME NEW id \in Ids
    PROVE  RowsTrue(id, NewRows(id)) /\ Kept(id, NewRows(id))
<1> DEFINE rows == NewRows(id)
<1>1. rows = [j \in DOMAIN Template[id] |-> NewRow(Template[id][j][2])]
  BY DEF NewRows, bi_make_section
<1>2. \A j \in DOMAIN Template[id] : rows[j] = NewRow(Template[id][j][2])
  BY <1>1
<1>3. rows = [j \in DOMAIN Template[id] |-> rows[j]]
  BY <1>1
<1> HIDE DEF rows
<1>4. RowsTrue(id, rows)
  BY <1>2, <1>3, NewTrue DEF RowsTrue, IsBuffer
<1>5. Kept(id, rows)
  BY <1>2 DEF Kept
<1> QED
  BY <1>4, <1>5 DEF rows

\* An update that reaches every row it has to leaves what it would leave in new rows.
LEMMA WholeUpdate ==
    ASSUME NEW id \in Ids, NEW rows, RowsTrue(id, rows), Kept(id, rows),
           NEW ops, Fits(id, ops), Skips(id, ops), Reaches(id, ops)
    PROVE  LET new == Apply(id, rows, ops) IN
           /\ RowsTrue(id, new) /\ Kept(id, new)
           /\ SameRows(id, new, Apply(id, NewRows(id), ops))
<1> DEFINE new == Apply(id, rows, ops)
           fresh == Apply(id, NewRows(id), ops)
<1>1. RowsTrue(id, NewRows(id)) /\ Kept(id, NewRows(id))
  BY NewRowsTrue
<1>2. /\ RowsTrue(id, new)
      /\ \A j \in DOMAIN Template[id] :
            /\ Covers(ops, Template[id][j][1]) /\ Template[id][j][1] \notin NotReached(id)
                 => new[j] = fresh[j]
            /\ ~ Covers(ops, Template[id][j][1]) => new[j] = rows[j]
  BY <1>1, ApplySame
<1>3. \A j \in DOMAIN Template[id] : ~ Covers(ops, Template[id][j][1]) => fresh[j] = NewRows(id)[j]
  BY <1>1, ApplySame
<1> HIDE DEF new, fresh
<1>4. \A name \in Skipped(id) : ~ Covers(ops, name)
  BY DEF Skips, Covers
<1>5. Kept(id, new)
  BY <1>2, <1>4 DEF Kept
<1>6. SameRows(id, new, fresh)
  <2> SUFFICES ASSUME NEW j \in DOMAIN Template[id], Template[id][j][1] \notin NotReached(id)
               PROVE  new[j] = fresh[j]
    <3>1. DOMAIN new = DOMAIN Template[id]
      BY <1>2 DEF RowsTrue
    <3> QED
      BY <3>1 DEF SameRows
  <2>1. CASE Template[id][j][1] \in Skipped(id)
    BY <1>1, <1>2, <1>3, <1>4, <2>1 DEF Kept
  <2>2. CASE Template[id][j][1] \notin Skipped(id)
    BY <1>2, <2>2 DEF Reaches
  <2> QED
    BY <2>1, <2>2
<1> QED
  BY <1>2, <1>5, <1>6 DEF new, fresh

\* An update that names every row leaves what it would leave in new rows.
LEMMA CoveredUpdate ==
    ASSUME NEW id \in Ids, NEW rows, RowsTrue(id, rows), NEW ops, Fits(id, ops),
           \A j \in DOMAIN Template[id] : Covers(ops, Template[id][j][1])
    PROVE  LET new == Apply(id, rows, ops) IN
           RowsTrue(id, new) /\ SameRows(id, new, Apply(id, NewRows(id), ops))
<1> DEFINE new == Apply(id, rows, ops)
           fresh == Apply(id, NewRows(id), ops)
<1>1. RowsTrue(id, NewRows(id))
  BY NewRowsTrue
<1>2. /\ RowsTrue(id, new)
      /\ \A j \in DOMAIN Template[id] :
            Covers(ops, Template[id][j][1]) /\ Template[id][j][1] \notin NotReached(id)
              => new[j] = fresh[j]
  BY <1>1, ApplySame
<1> HIDE DEF new, fresh
<1>3. DOMAIN new = DOMAIN Template[id]
  BY <1>2 DEF RowsTrue
<1>4. SameRows(id, new, fresh)
  BY <1>2, <1>3 DEF SameRows
<1> QED
  BY <1>2, <1>4 DEF new, fresh

\* Without the controller every row of the gauge is hidden.
LEMMA HiddenUpdate ==
    ASSUME NEW rows, RowsTrue("gauge", rows)
    PROVE  LET ops == [i \in DOMAIN GaugeTemplate |-> Hide(GaugeTemplate[i][1])]
               new == Apply("gauge", rows, ops)
           IN  RowsTrue("gauge", new) /\ SameRows("gauge", new, Apply("gauge", NewRows("gauge"), ops))
<1> DEFINE ops == [i \in DOMAIN GaugeTemplate |-> Hide(GaugeTemplate[i][1])]
<1>1. Template["gauge"] = GaugeTemplate /\ DOMAIN GaugeTemplate = 1 .. 35 /\ "gauge" \in Ids
  BY GaugeRows DEF Template, Ids
<1>2. /\ ops = [i \in 1 .. 35 |-> ops[i]]
      /\ \A i \in 1 .. 35 : ops[i] = Hide(GaugeTemplate[i][1])
  BY <1>1
<1> HIDE DEF ops
<1>3. \A i \in 1 .. 35 : OpFits("gauge", ops[i]) /\ ops[i].name = GaugeTemplate[i][1]
  <2>1. \A name : OpFits("gauge", Hide(name)) /\ Hide(name).name = name
    BY DEF OpFits, Hide
  <2> QED
    BY <1>2, <2>1
<1>4. Fits("gauge", ops)
  <2>1. ops \in Seq({ops[i] : i \in 1 .. 35}) /\ DOMAIN ops = 1 .. 35
    BY <1>2
  <2> QED
    BY <1>3, <2>1 DEF Fits
<1>5. \A j \in DOMAIN Template["gauge"] : Covers(ops, Template["gauge"][j][1])
  <2>1. DOMAIN ops = 1 .. 35
    BY <1>2
  <2> QED
    BY <1>1, <1>3, <2>1 DEF Covers
<1> QED
  BY <1>1, <1>4, <1>5, CoveredUpdate DEF ops

\* An update of the gauge, with its controller and without.
LEMMA GaugeUpdate ==
    ASSUME NEW rows, RowsTrue("gauge", rows), hasSMC => Kept("gauge", rows)
    PROVE  LET new == battery_info_update_smc(rows) IN
           /\ RowsTrue("gauge", new) /\ (hasSMC => Kept("gauge", new))
           /\ SameRows("gauge", new, battery_info_update_smc(NewRows("gauge")))
<1>1. CASE ~ hasSMC
  <2>1. \A r : battery_info_update_smc(r)
                 = Apply("gauge", r, [i \in DOMAIN GaugeTemplate |-> Hide(GaugeTemplate[i][1])])
    BY <1>1, Zenon DEF battery_info_update_smc
  <2> QED
    BY <1>1, <2>1, HiddenUpdate
<1>2. CASE hasSMC
  <2> DEFINE a == CapacityOps(get_capacity)
             b == GaugeOps(get_gas_gauge)
             ops == a \o b
  <2>1. \A r : battery_info_update_smc(r) = Apply("gauge", r, ops)
    BY <1>2, Zenon DEF battery_info_update_smc
  <2>2. Fits("gauge", a) /\ Skips("gauge", a) /\ Covered(a, CapacityNames)
    BY CapacityFits, Zenon DEF CapacityNames
  <2>3. Fits("gauge", b) /\ Skips("gauge", b) /\ Covered(b, GaugeNames)
    BY GaugeFits, Zenon DEF GaugeNames
  <2> HIDE DEF a, b
  <2>4. Fits("gauge", ops) /\ Skips("gauge", ops) /\ Covered(ops, CapacityNames \cup GaugeNames)
    BY <2>2, <2>3, BothCover
  <2> HIDE DEF ops
  <2>5. Reaches("gauge", ops) /\ "gauge" \in Ids
    BY <2>4, GaugeWhole DEF Ids
  <2> QED
    BY <1>2, <2>1, <2>4, <2>5, WholeUpdate
<1> QED
  BY <1>1, <1>2

\* An update of the adapter, for any family.
LEMMA AdapterUpdate ==
    ASSUME NEW rows, RowsTrue("adapter", rows), Kept("adapter", rows), NEW family
    PROVE  LET new == adapter_info_update_smc(rows, family) IN
           /\ RowsTrue("adapter", new) /\ Kept("adapter", new)
           /\ SameRows("adapter", new, adapter_info_update_smc(NewRows("adapter"), family))
<1> DEFINE ops == AdapterOps(family)
<1>1. \A r : adapter_info_update_smc(r, family) = Apply("adapter", r, ops)
  BY Zenon DEF adapter_info_update_smc
<1>2. Fits("adapter", ops) /\ Skips("adapter", ops) /\ Covered(ops, AdapterNames)
  BY AdapterFits, Zenon DEF AdapterNames
<1> HIDE DEF ops
<1>3. Reaches("adapter", ops) /\ "adapter" \in Ids
  BY <1>2, AdapterWhole DEF Ids
<1> QED
  BY <1>1, <1>2, <1>3, WholeUpdate

\* An update of a port.
LEMMA AccessoryUpdate ==
    ASSUME NEW p \in Ports, NEW rows, RowsTrue(p, rows), Kept(p, rows)
    PROVE  LET new == accessory_info_update(p, rows) IN
           /\ RowsTrue(p, new) /\ Kept(p, new)
           /\ SameRows(p, new, accessory_info_update(p, NewRows(p)))
<1> DEFINE ops == AccessoryOps(p, ServiceOf(p))
<1>1. \A r : accessory_info_update(p, r) = Apply(p, r, ops)
  BY Zenon DEF accessory_info_update
<1>2. Fits(p, ops) /\ Skips(p, ops) /\ Reaches(p, ops)
  BY AccessoryFits
<1> HIDE DEF ops
<1>3. p \in Ids
  BY DEF Ports, Ids
<1> QED
  BY <1>1, <1>2, <1>3, WholeUpdate

-----------------------------------------------------------------------------
(* The rows of every section, and where the walk is.                       *)

\* A section's rows are true; those that no update names are new, but in a gauge that has lost
\* its controller.
RowsOf(s) == RowsTrue(s.id, s.rows) /\ (hasSMC \/ s.id # "gauge" => Kept(s.id, s.rows))

RowsInv == at \in Nat \ {0} /\ \A i \in DOMAIN sections : RowsOf(sections[i])

\* Every section of the list is one of the old ones or new.
LEMMA AddedHas ==
    ASSUME NEW list, IsList(list), Ordered(list), NEW id \in Ids, NEW wanted
    PROVE  LET new == Added(list, id, wanted) IN
           \A j \in DOMAIN new : new[j] = bi_make_section(id) \/ \E i \in DOMAIN list : new[j] = list[i]
<1> DEFINE new == Added(list, id, wanted)
<1>1. CASE ~ (wanted /\ ~ battery_info_has(list, id))
  <2>1. new = list
    BY <1>1 DEF Added
  <2> QED
    BY <2>1
<1>2. CASE wanted /\ ~ battery_info_has(list, id)
  <2> DEFINE s == bi_make_section(id)
             n == Len(list)
             ins == battery_info_insert_section(s, list)
  <2>1. new = ins
    BY <1>2 DEF Added
  <2>3. PICK S : list \in Seq(S) /\ s \in S
    <3>1. PICK T : list \in Seq(T)
      BY DEF IsList
    <3>2. list \in Seq(T \cup {s})
      BY <3>1, SeqMonotonic
    <3> QED
      BY <3>2
  <2>4. n \in Nat /\ DOMAIN list = 1 .. n
    BY <2>3, LenProperties
  <2>5. ins \in Seq(S) /\ Len(ins) = n + 1 /\ DOMAIN ins = 1 .. n + 1
    BY <2>3, Inserted, LenProperties
  <2>6. PICK k \in 1 .. n + 1 :
          /\ ins[k] = s
          /\ \A j \in 1 .. k - 1 : ins[j] = list[j]
          /\ \A j \in k + 1 .. n + 1 : ins[j] = list[j - 1]
          /\ \A j \in 1 .. k - 1 : ~ (Priority[s.id] > Priority[list[j].id])
          /\ k <= n => Priority[s.id] > Priority[list[k].id]
    BY <2>3, Inserted
  <2> HIDE DEF s, new, n, ins
  <2>7. \A j \in 1 .. n + 1 : \/ j = k
                              \/ j \in 1 .. k - 1 /\ j \in 1 .. n
                              \/ j \in k + 1 .. n + 1 /\ j - 1 \in 1 .. n
    BY <2>4
  <2>8. \A j \in 1 .. n + 1 : ins[j] = s \/ \E i \in 1 .. n : ins[j] = list[i]
    BY <2>6, <2>7
  <2> QED
    BY <2>1, <2>4, <2>5, <2>8 DEF s, new
<1> QED
  BY <1>1, <1>2

\* A poll leaves a list whose sections all have true rows.
LEMMA AddedRows ==
    ASSUME NEW list, IsList(list), Ordered(list), NEW id \in Ids, NEW wanted,
           \A i \in DOMAIN list : RowsOf(list[i])
    PROVE  /\ IsList(Added(list, id, wanted)) /\ Ordered(Added(list, id, wanted))
           /\ \A i \in DOMAIN Added(list, id, wanted) : RowsOf(Added(list, id, wanted)[i])
<1> DEFINE s == bi_make_section(id)
<1>1. s.id = id /\ s.rows = NewRows(id)
  BY DEF bi_make_section, NewRows
<1> HIDE DEF s
<1>2. RowsOf(s)
  BY <1>1, NewRowsTrue DEF RowsOf
<1>3. \A i \in DOMAIN Added(list, id, wanted) : RowsOf(Added(list, id, wanted)[i])
  BY <1>2, AddedHas DEF s
<1> QED
  BY <1>3, AddedKeeps

\* A controller that was lost stays lost.
LEMMA SmcMonotone == ASSUME smc_open PROVE hasSMC' => hasSMC
BY DEF smc_open

\* What is true of a section stays so while the controller is found or was lost.
LEMMA RowsLater ==
    ASSUME NEW s, RowsOf(s), hasSMC' => hasSMC
    PROVE  RowsTrue(s.id, s.rows) /\ (hasSMC' \/ s.id # "gauge" => Kept(s.id, s.rows))
BY DEF RowsOf

\* A step after which every section has true rows or those of an old one.
LEMMA RowsAfter ==
    ASSUME RowsInv, hasSMC' => hasSMC, at' \in Nat \ {0},
           \A i \in DOMAIN sections' :
              \/ RowsOf(sections'[i])
              \/ \E j \in DOMAIN sections : /\ sections'[i].id = sections[j].id
                                            /\ sections'[i].rows = sections[j].rows
    PROVE  RowsInv'
<1> SUFFICES ASSUME NEW i \in DOMAIN sections'
             PROVE  /\ RowsTrue(sections'[i].id, sections'[i].rows)
                    /\ hasSMC' \/ sections'[i].id # "gauge" => Kept(sections'[i].id, sections'[i].rows)
  BY DEF RowsInv, RowsOf
<1>1. RowsOf(sections'[i])
  BY DEF RowsInv, RowsOf
<1> QED
  BY <1>1, RowsLater

\* The poll.
LEMMA RowsPoll == ASSUME ListInv, RowsInv, battery_info_poll PROVE RowsInv'
<1> DEFINE charging == hasSMC /\ is_charging > 0
           withGauge == Added(sections, "gauge", hasSMC)
           withAdapter == Added(withGauge, "adapter", charging)
           withInductive == Added(withAdapter, "inductive", Present("inductive"))
           withPorts == Added(withInductive, "serial", Present("serial"))
<1>1. sections' = withPorts /\ at' = 1 /\ (hasSMC' => hasSMC)
  BY SmcMonotone DEF battery_info_poll
<1>2. {"gauge", "adapter", "inductive", "serial"} \subseteq Ids
  BY DEF Ids
<1> HIDE DEF charging
<1>3. IsList(withGauge) /\ Ordered(withGauge) /\ \A i \in DOMAIN withGauge : RowsOf(withGauge[i])
  BY <1>2, AddedRows DEF ListInv, RowsInv
<1> HIDE DEF withGauge
<1>4. IsList(withAdapter) /\ Ordered(withAdapter) /\ \A i \in DOMAIN withAdapter : RowsOf(withAdapter[i])
  BY <1>2, <1>3, AddedRows
<1> HIDE DEF withAdapter
<1>5. /\ IsList(withInductive) /\ Ordered(withInductive)
      /\ \A i \in DOMAIN withInductive : RowsOf(withInductive[i])
  BY <1>2, <1>4, AddedRows
<1> HIDE DEF withInductive
<1>6. \A i \in DOMAIN withPorts : RowsOf(withPorts[i])
  BY <1>2, <1>5, AddedRows
<1> HIDE DEF withPorts
<1> QED
  BY <1>1, <1>6, RowsAfter

\* The removal of a section.
LEMMA RowsRemove == ASSUME ListInv, RowsInv, RemoveSection PROVE RowsInv'
<1> DEFINE n == Len(sections)
<1>1. PICK S : sections \in Seq(S)
  BY DEF ListInv, IsList
<1>2. at \in DOMAIN sections /\ sections' = RemoveAt(sections, at) /\ at' = 1 /\ hasSMC' = hasSMC
  BY DEF RemoveSection, statics
<1>3. /\ sections' \in Seq(S) /\ Len(sections') = n - 1 /\ n \in Nat /\ at \in 1 .. n
      /\ \A j \in 1 .. n - 1 : sections'[j] = IF j < at THEN sections[j] ELSE sections[j + 1]
  BY <1>1, <1>2, Removed
<1>4. DOMAIN sections = 1 .. n /\ DOMAIN sections' = 1 .. n - 1
  BY <1>1, <1>3, LenProperties
<1> HIDE DEF n
<1>5. \A j \in 1 .. n - 1 : \E i \in 1 .. n : sections'[j] = sections[i]
  BY <1>3
<1>6. \A j \in DOMAIN sections' : \E i \in DOMAIN sections :
          sections'[j].id = sections[i].id /\ sections'[j].rows = sections[i].rows
  BY <1>4, <1>5
<1> QED
  BY <1>2, <1>6, RowsAfter

\* A section that is destroyed keeps its rows.
LEMMA RowsDestroy ==
    ASSUME ListInv, RowsInv, at \in DOMAIN sections, Destroy, hasSMC' => hasSMC
    PROVE  RowsInv'
<1>1. /\ sections' = [sections EXCEPT ![at] = [@ EXCEPT !["gone"] = TRUE]]
      /\ at' = 1
  BY DEF Destroy, bi_destroy_section
<1>2. DOMAIN sections' = DOMAIN sections
  BY <1>1
<1>3. \A i \in DOMAIN sections : sections'[i].id = sections[i].id /\ sections'[i].rows = sections[i].rows
  BY <1>1
<1> QED
  BY <1>1, <1>2, <1>3, RowsAfter

\* A section that is updated has the rows of its update.
LEMMA RowsUpdate ==
    ASSUME ListInv, RowsInv, at \in DOMAIN sections, hasSMC' => hasSMC, NEW rows, UpdateTo(rows),
           RowsTrue(Current.id, rows), hasSMC \/ Current.id # "gauge" => Kept(Current.id, rows)
    PROVE  RowsInv' /\ sections'[at].rows = rows
<1>1. /\ sections' = [sections EXCEPT ![at] = [@ EXCEPT !["rows"] = rows]]
      /\ at' = at + 1
  BY DEF UpdateTo
<1>2. DOMAIN sections' = DOMAIN sections
  BY <1>1
<1>3. \A i \in DOMAIN sections : i # at => sections'[i] = sections[i]
  BY <1>1
<1>4. sections'[at].id = Current.id /\ sections'[at].rows = rows
  <2>1. DOMAIN sections[at] = {"id", "gone", "rows"}
    BY DEF ListInv, IsList
  <2> QED
    BY <1>1, <2>1 DEF Current
<1>5. RowsOf(sections'[at])
  BY <1>4 DEF RowsOf
<1>6. at' \in Nat \ {0}
  BY <1>1 DEF RowsInv
<1> QED
  BY <1>2, <1>3, <1>4, <1>5, <1>6, RowsAfter

\* The section of the walk.
LEMMA WalkRows ==
    ASSUME RowsInv, at \in DOMAIN sections
    PROVE  RowsOf(Current) /\ at \in Nat \ {0}
BY DEF RowsInv, Current

\* The update of the gauge in the walk.
LEMMA GaugeStep ==
    ASSUME ListInv, RowsInv, UpdateGauge
    PROVE  RowsInv' /\ FreshRows(Current.id, sections'[at].rows)
<1> DEFINE rows == battery_info_update_smc(Current.rows)
<1>1. /\ at \in DOMAIN sections /\ Current.id = "gauge" /\ UpdateTo(rows)
      /\ hasSMC' => hasSMC
  BY SmcMonotone DEF UpdateGauge, InWalk
<1>2. RowsTrue("gauge", Current.rows) /\ (hasSMC => Kept("gauge", Current.rows))
  BY <1>1, WalkRows DEF RowsOf
<1>3. /\ RowsTrue("gauge", rows) /\ (hasSMC => Kept("gauge", rows))
      /\ SameRows("gauge", rows, battery_info_update_smc(NewRows("gauge")))
  BY <1>2, GaugeUpdate
<1> HIDE DEF rows
<1>4. RowsInv' /\ sections'[at].rows = rows
  BY <1>1, <1>3, RowsUpdate
<1> QED
  BY <1>1, <1>3, <1>4 DEF FreshRows

\* The update of the adapter in the walk, or its end.
LEMMA AdapterStep ==
    ASSUME ListInv, RowsInv, UpdateAdapter
    PROVE  RowsInv' /\ (at' = 1 \/ FreshRows(Current.id, sections'[at].rows))
<1>1. at \in DOMAIN sections /\ Current.id = "adapter" /\ (hasSMC' => hasSMC)
  BY SmcMonotone DEF UpdateAdapter, InWalk
<1>2. RowsTrue("adapter", Current.rows) /\ Kept("adapter", Current.rows)
  BY <1>1, WalkRows DEF RowsOf
<1>3. CASE Destroy
  BY <1>1, <1>3, RowsDestroy DEF Destroy
<1>4. CASE \E family \in AdapterFamilies(Garbage) :
              UpdateTo(adapter_info_update_smc(Current.rows, family))
  <2>1. PICK family \in AdapterFamilies(Garbage) :
               UpdateTo(adapter_info_update_smc(Current.rows, family))
    BY <1>4
  <2> DEFINE rows == adapter_info_update_smc(Current.rows, family)
  <2>2. /\ RowsTrue("adapter", rows) /\ Kept("adapter", rows)
        /\ SameRows("adapter", rows, adapter_info_update_smc(NewRows("adapter"), family))
    BY <1>2, AdapterUpdate
  <2>3. UpdateTo(rows)
    BY <2>1
  <2> HIDE DEF rows
  <2>4. RowsInv' /\ sections'[at].rows = rows
    BY <1>1, <2>2, <2>3, RowsUpdate
  <2>5. \E f \in AdapterFamilies(Garbage) :
           SameRows("adapter", rows, adapter_info_update_smc(NewRows("adapter"), f))
    BY <2>2
  <2> QED
    BY <1>1, <2>4, <2>5 DEF FreshRows
<1> QED
  BY <1>3, <1>4 DEF UpdateAdapter

\* The update of a port in the walk, or its end.
LEMMA AccessoryStep ==
    ASSUME ListInv, RowsInv, NEW p \in Ports, UpdateAccessory(p)
    PROVE  RowsInv' /\ (at' = 1 \/ at' = at \/ FreshRows(Current.id, sections'[at].rows))
<1> DEFINE rows == accessory_info_update(p, Current.rows)
<1>1. at \in DOMAIN sections /\ Current.id = p
  BY DEF UpdateAccessory, InWalk
<1>2. p # "gauge" /\ p # "adapter"
  BY DEF Ports
<1>3. RowsTrue(p, Current.rows) /\ Kept(p, Current.rows)
  BY <1>1, <1>2, WalkRows DEF RowsOf
<1>4. /\ RowsTrue(p, rows) /\ Kept(p, rows)
      /\ SameRows(p, rows, accessory_info_update(p, NewRows(p)))
  BY <1>3, AccessoryUpdate
<1>5. hasSMC' => hasSMC
  BY SmcMonotone DEF UpdateAccessory, statics
<1>6. \/ Destroy
      \/ UNCHANGED <<sections, at>>
      \/ UpdateTo(rows)
  BY DEF UpdateAccessory
<1> HIDE DEF rows
<1>7. CASE Destroy
  BY <1>1, <1>5, <1>7, RowsDestroy DEF Destroy
<1>8. CASE UNCHANGED <<sections, at>>
  BY <1>1, <1>5, <1>8, WalkRows, RowsAfter
<1>9. CASE UpdateTo(rows)
  <2>1. RowsInv' /\ sections'[at].rows = rows
    BY <1>1, <1>4, <1>5, <1>9, RowsUpdate
  <2>2. FreshRows(p, rows)
    BY <1>2, <1>4 DEF FreshRows
  <2> QED
    BY <1>1, <2>1, <2>2
<1> QED
  BY <1>6, <1>7, <1>8, <1>9

\* A step that leaves the list alone.
LEMMA RowsUnchanged ==
    ASSUME RowsInv, UNCHANGED <<sections, at, hasSMC>>
    PROVE  RowsInv'
<1>1. at' \in Nat \ {0}
  BY DEF RowsInv
<1> QED
  BY <1>1, RowsAfter

\* Every step keeps the rows true, and an update leaves what it would leave in a new section.
LEMMA FreshStep ==
    ASSUME ListInv, RowsInv, [Next]_vars
    PROVE  RowsInv' /\ (Updated => FreshRows(Current.id, sections'[at].rows))
<1>1. at \in Nat \ {0}
  BY DEF RowsInv
<1>2. Updated => pc = "walk" /\ pc' = "walk" /\ at' # at /\ at' # 1
  BY <1>1 DEF Updated
<1>3. CASE Refresh
  BY <1>2, <1>3, RowsUnchanged DEF Refresh, statics
<1>4. CASE battery_info_poll
  BY <1>2, <1>4, RowsPoll DEF battery_info_poll
<1>5. CASE UpdateGauge
  BY <1>5, GaugeStep
<1>6. CASE UpdateAdapter
  BY <1>2, <1>6, AdapterStep
<1>7. ASSUME NEW p \in Ports, UpdateAccessory(p)
      PROVE  RowsInv' /\ (Updated => FreshRows(Current.id, sections'[at].rows))
  BY <1>2, <1>7, AccessoryStep
<1>8. CASE RemoveSection
  BY <1>2, <1>8, RowsRemove DEF RemoveSection
<1>9. CASE UpdateReturns
  BY <1>2, <1>9, RowsUnchanged DEF UpdateReturns, statics
<1>10. CASE HardwareChanges
  BY <1>2, <1>10, RowsUnchanged DEF HardwareChanges, tableVars, statics
<1>11. CASE UNCHANGED vars
  BY <1>2, <1>11, RowsUnchanged DEF vars, tableVars, statics
<1> QED
  BY <1>3, <1>4, <1>5, <1>6, <1>7, <1>8, <1>9, <1>10, <1>11 DEF Next, battery_info_update

\* An empty list has no rows.
LEMMA RowsInit == ASSUME Init PROVE RowsInv
BY DEF Init, RowsInv

\* Every row of every section holds nothing of an earlier update but who hid it.
THEOREM RowsInvariance == Spec => []RowsInv
BY ListInvariance, RowsInit, FreshStep, PTL DEF Spec

\* An update leaves in a section what it would leave in a new one: whatever the updates before
\* it met, no row stays hidden after its value is back and no old value is shown, but in the rows
\* that it may not reach (battery_info.c:339-389, 449-527).
THEOREM FreshHolds == Spec => Fresh
<1>1. ListInv /\ RowsInv /\ [Next]_vars => [Updated => FreshRows(Current.id, sections'[at].rows)]_vars
  BY FreshStep
<1> QED
  BY <1>1, ListInvariance, RowsInvariance, PTL DEF Spec, Fresh

-----------------------------------------------------------------------------
(* The charge of the battery.                                              *)

\* The last operation on a row decides what is in it.
LEMMA ApplyLast ==
    ASSUME NEW id \in Ids, NEW rows, RowsTrue(id, rows), NEW ops, Fits(id, ops), NEW m \in DOMAIN ops,
           NEW j \in DOMAIN Template[id], Template[id][j][1] = ops[m].name,
           ops[m].name \notin NotReached(id),
           \A k \in DOMAIN ops : k > m => ops[k].name # ops[m].name
    PROVE  \E r : /\ RowTrue(Template[id][j][2], r)
                  /\ Apply(id, rows, ops)[j] = Done(Template[id][j][2], r, ops[m])
<1> DEFINE kind == Template[id][j][2]
           Held(x) == \E r : RowTrue(kind, r) /\ x = Done(kind, r, ops[m])
           n == Len(ops)
<1>1. PICK S : ops \in Seq(S)
  BY DEF Fits
<1>2. n \in Nat /\ DOMAIN ops = 1 .. n /\ m \in 1 .. n
  BY <1>1, LenProperties
<1>3. \A k \in 1 .. n : OpFits(id, ops[k])
  BY <1>2 DEF Fits
<1>4. PICK f : States(f, id, rows, ops, n) /\ Apply(id, rows, ops) = f[n].rows
  BY <1>2, ApplyDef
<1>5. \A k \in 1 .. n : k > m => ops[k].name # ops[m].name
  BY <1>2
<1> HIDE DEF n, Held
<1>6. /\ f[0] = Start(rows)
      /\ \A k \in 1 .. n : f[k] = Step(id, f[k - 1], ops[k])
  BY <1>2, <1>4 DEF States
<1> DEFINE T == {k \in Nat : k <= n => RowsTrue(id, f[k].rows) /\ (m <= k => Held(f[k].rows[j]))}
<1>7. 0 \in T
  <2>1. f[0].rows = rows
    BY <1>6 DEF Start
  <2> QED
    BY <1>2, <2>1
<1>8. ASSUME NEW k \in Nat, k \in T PROVE k + 1 \in T
  <2> SUFFICES ASSUME k + 1 <= n
               PROVE  RowsTrue(id, f[k + 1].rows) /\ (m <= k + 1 => Held(f[k + 1].rows[j]))
    OBVIOUS
  <2> DEFINE op == ops[k + 1]
  <2>1. RowsTrue(id, f[k].rows) /\ (m <= k => Held(f[k].rows[j]))
    BY <1>2, <1>8
  <2>2. k + 1 \in 1 .. n /\ (k + 1) - 1 = k
    BY <1>2
  <2>3. OpFits(id, op) /\ f[k + 1] = Step(id, f[k], op)
    BY <1>3, <1>6, <2>2
  <2> HIDE DEF op
  <2>4. /\ RowsTrue(id, f[k + 1].rows)
        /\ Template[id][j][1] # op.name => f[k + 1].rows[j] = f[k].rows[j]
        /\ Template[id][j][1] = op.name /\ op.name \notin NotReached(id)
              => f[k + 1].rows[j] = Done(kind, f[k].rows[j], op)
    BY <2>1, <2>3, StepRows
  <2>5. CASE m = k + 1
    <3>1. f[k + 1].rows[j] = Done(kind, f[k].rows[j], ops[m])
      BY <2>4, <2>5 DEF op
    <3>2. RowTrue(kind, f[k].rows[j])
      BY <2>1 DEF RowsTrue
    <3> QED
      BY <2>4, <3>1, <3>2 DEF Held
  <2>6. CASE m < k + 1
    <3>1. Template[id][j][1] # op.name /\ m <= k
      BY <1>2, <1>5, <2>2, <2>6 DEF op
    <3> QED
      BY <2>1, <2>4, <3>1
  <2>7. CASE ~ (m <= k + 1)
    BY <2>4, <2>7
  <2> QED
    BY <1>2, <2>5, <2>6, <2>7
<1>9. n \in T
  <2> HIDE DEF T
  <2> QED
    BY <1>2, <1>7, <1>8, NatSetInduction
<1>10. Held(f[n].rows[j])
  BY <1>2, <1>9
<1> QED
  BY <1>4, <1>10 DEF Held

\* The second operation on the gauge is the only one on its row SoC.
LEMMA SocOnce ==
    ASSUME NEW c, NEW g
    PROVE  LET ops == CapacityOps(c) \o GaugeOps(g) IN
           /\ 2 \in DOMAIN ops /\ ops[2] = SocOp(c) /\ SocOp(c).name = "SoC"
           /\ \A k \in DOMAIN ops : k > 2 => ops[k].name # "SoC"
<1>1. PICK a : a = CapacityOps(c)
  OBVIOUS
<1>2. PICK b : b = GaugeOps(g)
  OBVIOUS
<1> DEFINE Other(op) == op.name # "SoC"
           Count(name) == \A v, x : Other(SetIf(v, name, x))
           Phrase(name) == \A v, x : Other(TextIf(v, name, x))
           String(name) == \A x : Other(Text(name, x))
<1>3. Count("Avg. Temperature") /\ Count("Charging") /\ Count("ASoC(Hidden)") /\
      Count("Full Charge Capacity") /\ Count("Designed Capacity") /\
      Count("Remaining Capacity") /\ Count("Qmax") /\ Count("DOD0 Reference") /\
      Count("Passed Charge") /\ Count("Voltage") /\ Count("Avg. Current") /\
      Count("Avg. Power") /\ Count("Cell Count") /\ Count("Time to Empty") /\
      Count("Cycle Count") /\ Count("Designed Cycle Count") /\ Count("State of Charge") /\
      Count("State of Charge (UI)") /\ Count("Resistance Scale") /\
      Count("True Remaining Capacity") /\ Count("OCV Current") /\ Count("OCV Voltage") /\
      Count("Max Load Current") /\ Count("Max Load Current 2") /\ Count("Simulation Rate") /\
      Count("Daily Max Soc") /\ Count("Daily Min Soc") /\ Phrase("Device Name") /\
      Phrase("Battery Uptime") /\ Phrase("Chemistry ID") /\ Phrase("Flags") /\
      Phrase("IT Misc Status") /\ String("Battery Serial No.")
  BY DEF SetIf, Set, TextIf, Text, Hide
<1> HIDE DEF Other
<1>4. SocOp(c).name = "SoC"
  BY DEF SocOp, Set, SetIf, Hide
<1>5. a = [k \in 1 .. 8 |-> a[k]] /\ a[2] = SocOp(c)
  <2>1. CapacityOps(c) = [k \in 1 .. 8 |-> CapacityOps(c)[k]]
    BY DEF CapacityOps
  <2>2. CapacityOps(c)[2] = SocOp(c)
    BY DEF CapacityOps
  <2> QED
    BY <1>1, <2>1, <2>2
<1>6. b = [k \in 1 .. 27 |-> b[k]]
  <2>1. GaugeOps(g) = [k \in 1 .. 27 |-> GaugeOps(g)[k]]
    BY DEF GaugeOps
  <2> QED
    BY <1>2, <2>1
<1>7. Other(a[3]) /\ Other(a[4]) /\ Other(a[5]) /\ Other(a[6]) /\ Other(a[7]) /\ Other(a[8])
  BY <1>1, <1>3 DEF CapacityOps
<1>8. ASSUME NEW k \in 3 .. 8 PROVE Other(a[k])
  <2>1. k = 3 \/ k = 4 \/ k = 5 \/ k = 6 \/ k = 7 \/ k = 8
    OBVIOUS
  <2> QED
    BY <1>7, <2>1
<1>9. Other(b[1]) /\ Other(b[2]) /\ Other(b[3]) /\ Other(b[4]) /\ Other(b[5]) /\ Other(b[6]) /\
      Other(b[7]) /\ Other(b[8]) /\ Other(b[9]) /\ Other(b[10]) /\ Other(b[11]) /\ Other(b[12]) /\
      Other(b[13]) /\ Other(b[14]) /\ Other(b[15]) /\ Other(b[16]) /\ Other(b[17]) /\
      Other(b[18]) /\ Other(b[19]) /\ Other(b[20]) /\ Other(b[21]) /\ Other(b[22]) /\
      Other(b[23]) /\ Other(b[24]) /\ Other(b[25]) /\ Other(b[26]) /\ Other(b[27])
  BY <1>2, <1>3 DEF GaugeOps
<1>10. ASSUME NEW k \in 1 .. 27 PROVE Other(b[k])
  <2>1. k = 1 \/ k = 2 \/ k = 3 \/ k = 4 \/ k = 5 \/ k = 6 \/ k = 7 \/ k = 8 \/ k = 9 \/ k = 10 \/
        k = 11 \/ k = 12 \/ k = 13 \/ k = 14 \/ k = 15 \/ k = 16 \/ k = 17 \/ k = 18 \/ k = 19 \/
        k = 20 \/ k = 21 \/ k = 22 \/ k = 23 \/ k = 24 \/ k = 25 \/ k = 26 \/ k = 27
    OBVIOUS
  <2> QED
    BY <1>9, <2>1
<1> DEFINE ops == a \o b
<1>11. /\ DOMAIN ops = 1 .. 35
       /\ \A k \in 1 .. 8 : ops[k] = a[k]
       /\ \A k \in 9 .. 35 : ops[k] = b[k - 8]
  <2> DEFINE S == {a[k] : k \in 1 .. 8} \cup {b[k] : k \in 1 .. 27}
  <2>1. a \in Seq(S) /\ Len(a) = 8
    BY <1>5
  <2>2. b \in Seq(S) /\ Len(b) = 27
    BY <1>6
  <2> HIDE DEF S
  <2>3. /\ ops \in Seq(S) /\ Len(ops) = Len(a) + Len(b)
        /\ \A k \in 1 .. Len(a) + Len(b) : ops[k] = IF k <= Len(a) THEN a[k] ELSE b[k - Len(a)]
    BY <2>1, <2>2, ConcatProperties
  <2> HIDE DEF ops
  <2>4. Len(ops) = 35 /\ \A k \in 1 .. 35 : ops[k] = IF k <= 8 THEN a[k] ELSE b[k - 8]
    BY <2>1, <2>2, <2>3
  <2>5. DOMAIN ops = 1 .. 35
    BY <2>3, <2>4, LenProperties
  <2> QED
    BY <2>4, <2>5
<1> HIDE DEF ops
<1>12. ASSUME NEW k \in 1 .. 35, k > 2 PROVE Other(ops[k])
  <2>1. CASE k <= 8
    <3>1. k \in 3 .. 8 /\ k \in 1 .. 8
      BY <1>12, <2>1
    <3> QED
      BY <1>8, <1>11, <3>1
  <2>2. CASE ~ (k <= 8)
    <3>1. k \in 9 .. 35 /\ k - 8 \in 1 .. 27
      BY <2>2
    <3> QED
      BY <1>10, <1>11, <3>1
  <2> QED
    BY <2>1, <2>2
<1>13. 2 \in 1 .. 35 /\ ops[2] = SocOp(c)
  BY <1>5, <1>11
<1> QED
  BY <1>1, <1>2, <1>4, <1>11, <1>12, <1>13 DEF ops, Other

\* Division by numbers that are not known.
LEMMA ProductAtLeast ==
    ASSUME NEW y \in Nat, NEW e \in Int, NEW d \in Int, e <= d
    PROVE  y * e <= y * d
<1>1. y * (d - e) = y * d - y * e
  OBVIOUS
<1>2. d - e \in Nat
  OBVIOUS
<1>3. y * (d - e) \in Nat
  BY <1>2
<1> QED
  BY <1>1, <1>3

\* What a quotient is.
LEMMA DivRange ==
    ASSUME NEW x \in Nat, NEW y \in Nat \ {0}
    PROVE  x \div y \in Nat /\ y * (x \div y) <= x /\ x < y * (x \div y) + y
OBVIOUS

\* A number between the products is the quotient.
LEMMA DivUnique ==
    ASSUME NEW x \in Nat, NEW y \in Nat \ {0}, NEW q \in Nat, y * q <= x, x < y * q + y
    PROVE  x \div y = q
<1> DEFINE d == x \div y
<1>1. d \in Nat /\ y * d <= x /\ x < y * d + y
  BY DivRange
<1> HIDE DEF d
<1>2. CASE d < q
  <2>1. y * (d + 1) <= y * q
    BY <1>1, <1>2, ProductAtLeast
  <2>2. y * (d + 1) = y * d + y
    BY <1>1
  <2> QED
    BY <1>1, <2>1, <2>2
<1>3. CASE q < d
  <2>1. y * (q + 1) <= y * d
    BY <1>1, <1>3, ProductAtLeast
  <2>2. y * (q + 1) = y * q + y
    OBVIOUS
  <2> QED
    BY <1>1, <2>1, <2>2
<1> QED
  BY <1>1, <1>2, <1>3 DEF d

\* A charge and a capacity that are both counted over the cells have the same quotient.
LEMMA Scaled ==
    ASSUME NEW x \in Nat, NEW y \in Nat \ {0}, NEW c \in Nat \ {0}
    PROVE  (x * c) \div (y * c) = x \div y
<1> DEFINE q == x \div y
<1>1. q \in Nat /\ y * q <= x /\ x + 1 <= y * q + y
  BY DivRange
<1> HIDE DEF q
<1>2. c * (y * q) <= c * x /\ c * (x + 1) <= c * (y * q + y)
  BY <1>1, ProductAtLeast
<1>3. c * (y * q) = (y * c) * q /\ c * x = x * c /\ c * (x + 1) = x * c + c
      /\ c * (y * q + y) = (y * c) * q + y * c
  BY <1>1
<1>4. x * c \in Nat /\ y * c \in Nat \ {0}
  OBVIOUS
<1>5. (y * c) * q <= x * c /\ x * c < (y * c) * q + y * c
  <2> DEFINE s == y * c
             t == s * q
             u == x * c
  <2>1. t <= u /\ u + c <= t + s /\ t \in Nat /\ s \in Nat /\ u \in Nat
    BY <1>1, <1>2, <1>3
  <2> HIDE DEF s, t, u
  <2>2. t <= u /\ u < t + s
    BY <2>1
  <2> QED
    BY <2>2 DEF s, t, u
<1> QED
  BY <1>1, <1>4, <1>5, DivUnique DEF q

\* The bytes of a word.
LEMMA Bytes ==
    ASSUME NEW a \in Nat, NEW b \in Nat, a < 256, b < 256
    PROVE  (a * 256 + b) % 256 = b /\ (a * 256 + b) \div 256 = a
OBVIOUS
\* A word is its bytes.
LEMMA Halves ==
    ASSUME NEW v \in Nat
    PROVE  v % 256 \in Nat /\ v % 256 < 256 /\ v \div 256 \in Nat /\ v = (v \div 256) * 256 + (v % 256)
OBVIOUS
\* The upper byte of a word of 16 bits.
LEMMA Small ==
    ASSUME NEW v \in Nat, v <= 65535
    PROVE  v \div 256 < 256
OBVIOUS
\* Bytes that are swapped twice are as they were.
LEMMA SwapTwice ==
    ASSUME NEW v \in Nat, v <= 65535
    PROVE  SwapBytes(v) \in Nat /\ SwapBytes(SwapBytes(v)) = v
<1> DEFINE a == v % 256
           b == v \div 256
<1>1. a \in Nat /\ b \in Nat /\ a < 256 /\ b < 256 /\ v = b * 256 + a
  BY Halves, Small
<1> HIDE DEF a, b
<1>2. (a * 256 + b) % 256 = b /\ (a * 256 + b) \div 256 = a
  BY <1>1, Bytes
<1>3. a * 256 + b \in Nat /\ a * 256 + b <= 65535
  BY <1>1
<1>4. ((a * 256 + b) % 256) * 256 + (a * 256 + b) \div 256 = v
  BY <1>1, <1>2
<1> QED
  BY <1>3, <1>4 DEF a, b, SwapBytes
\* The share of a pack is the share of a cell.
LEMMA PercentScaled ==
    ASSUME NEW p \in Nat, NEW w \in Nat \ {0}, NEW c \in Nat \ {0}
    PROVE  Percent(p * c, w * c) = Percent(p, w)
<1>1. 6400 * (p * c) = (6400 * p) * c
  OBVIOUS
<1>2. 6400 * p \in Nat
  OBVIOUS
<1> DEFINE x == 6400 * p
<1>3. (x * c) \div (w * c) = x \div w
  BY <1>2, Scaled
<1> QED
  BY <1>1, <1>3 DEF Percent

\* A battery holds no more than all of its charge.
LEMMA PercentBound ==
    ASSUME NEW p \in Nat, NEW w \in Nat \ {0}, p <= w
    PROVE  Percent(p, w) \in Nat /\ Percent(p, w) <= 6400
<1> DEFINE x == 6400 * p
           q == x \div w
<1>1. x \in Nat /\ x <= 6400 * w
  OBVIOUS
<1>2. 6400 * w = w * 6400
  OBVIOUS
<1> HIDE DEF x
<1>3. q \in Nat /\ w * q <= x
  BY <1>1, DivRange
<1> HIDE DEF q
<1>4. q <= 6400
  <2> SUFFICES ASSUME q >= 6401 PROVE FALSE
    BY <1>3
  <2>1. w * 6401 <= w * q
    BY <1>3, ProductAtLeast
  <2> QED
    BY <1>1, <1>2, <1>3, <2>1
<1> QED
  BY <1>3, <1>4 DEF q, x, Percent

\* What a row keeps of a charge: it loses less than four of its 64 parts of a percent.
LEMMA PackedClose ==
    ASSUME NEW x \in Nat, x <= 6400
    PROVE  Packed(x) <= x /\ (x - Packed(x) < 4 \/ (x < 128 /\ Packed(x) = 0))
<1>1. CASE x < 128
  BY <1>1 DEF Packed
<1>2. CASE x >= 128 /\ x < 2048
  BY <1>2 DEF Packed
<1>3. CASE x >= 2048 /\ x < 4096
  BY <1>3 DEF Packed
<1>4. CASE x >= 4096
  BY <1>4 DEF Packed
<1> QED
  BY <1>1, <1>2, <1>3, <1>4

\* The capacities of a sound gauge are read as they are.
LEMMA ChargeRead ==
    ASSUME Connected, SoundGauge(device)
    PROVE  LET p == device.charge
               w == device.smc["B0FC"]
           IN  /\ p \in Nat /\ w \in Nat \ {0} /\ p <= w
               /\ \E n \in Nat \ {0} : get_capacity.remaining = p * n /\ get_capacity.full = w * n
<1> DEFINE key == device.smc
           p == device.charge
           w == key["B0FC"]
           d == key["B0DC"]
           raw == key["B0RM"]
           attributes == key["B0RM.attributes"]
           cell == key["BNCB"]
           n == IF cell # Missing /\ cell \in 1 .. 32 THEN cell ELSE 1
<1>1. /\ raw # Missing /\ w # Missing /\ d # Missing
      /\ raw \in Nat /\ w \in Nat /\ d \in Nat /\ w > 0 /\ d > 0
      /\ w * n <= 65535 /\ d * n <= 65535 /\ p \in Nat /\ p <= w
  BY DEF SoundGauge
<1>2. IF attributes # Missing
      THEN raw = IF 4 \in attributes THEN SwapBytes(p) ELSE p
      ELSE raw = IF 10 * raw <= 11 * d THEN p ELSE SwapBytes(p)
  BY DEF SoundGauge
<1>3. \A k : Read(k) = key[k]
  BY DEF Read
<1>4. \A k : Readable(k) <=> key[k] # Missing
  BY <1>3 DEF Readable
<1>5. n \in Nat \ {0} /\ (IF batt_cell_num > 0 THEN batt_cell_num ELSE 1) = n
  <2>1. batt_cell_num = IF cell # Missing /\ cell \in 1 .. 32 THEN cell ELSE -1
    BY <1>3, <1>4 DEF batt_cell_num
  <2> QED
    BY <2>1
<1> HIDE DEF key, n
<1>6. p <= 65535
  <2>1. w * 1 <= w * n
    BY <1>1, <1>5, ProductAtLeast
  <2> QED
    BY <1>1, <1>5, <2>1
<1>7. Remaining = p
  <2>1. SwapBytes(p) \in Nat /\ SwapBytes(SwapBytes(p)) = p
    BY <1>1, <1>6, SwapTwice
  <2>2. SwapBytes(0) = 0
    BY DEF SwapBytes
  <2> DEFINE reversed == IF attributes # Missing THEN 4 \in attributes
                         ELSE 10 * raw > 11 * d /\ SwapBytes(raw) > 0
  <2>3. Remaining = IF reversed THEN SwapBytes(raw) ELSE raw
    BY <1>3, <1>4 DEF Remaining
  <2>4. CASE attributes # Missing
    BY <1>2, <2>1, <2>3, <2>4
  <2>5. CASE attributes = Missing /\ 10 * raw <= 11 * d
    BY <1>1, <1>2, <2>3, <2>5
  <2>6. CASE attributes = Missing /\ ~ (10 * raw <= 11 * d)
    <3>1. raw = SwapBytes(p) /\ SwapBytes(raw) = p
      BY <1>2, <2>1, <2>6
    <3>2. p # 0
      BY <1>1, <2>2, <2>6, <3>1
    <3> QED
      BY <1>1, <2>3, <2>6, <3>1, <3>2
  <2> QED
    BY <2>4, <2>5, <2>6
<1>8. p * n <= 65535
  <2>1. n * p <= n * w /\ n * p = p * n /\ n * w = w * n
    BY <1>1, <1>5, ProductAtLeast
  <2> QED
    BY <1>1, <1>5, <2>1
<1> DEFINE c == [remaining |-> p * n, full |-> w * n, design |-> d * n]
<1>9. get_capacity = c
  <2> DEFINE usable == /\ \A k \in {"B0RM", "B0FC", "B0DC"} : Readable(k)
                       /\ w # 0 /\ d # 0
                       /\ \A f \in DOMAIN c : c[f] <= 65535
  <2>1. get_capacity = IF usable THEN c ELSE NoCapacity
    BY <1>3, <1>5, <1>7 DEF get_capacity, key
  <2>2. usable
    <3>1. \A f \in DOMAIN c : f = "remaining" \/ f = "full" \/ f = "design"
      OBVIOUS
    <3>2. c.remaining = p * n /\ c.full = w * n /\ c.design = d * n
      OBVIOUS
    <3> HIDE DEF c
    <3>3. \A f \in DOMAIN c : c[f] <= 65535
      BY <1>1, <1>8, <3>1, <3>2
    <3> QED
      BY <1>1, <1>4, <3>3 DEF key
  <2> QED
    BY <2>1, <2>2
<1>10. get_capacity.remaining = p * n /\ get_capacity.full = w * n
  BY <1>9
<1> QED
  BY <1>1, <1>5, <1>10 DEF key

\* The operation on the row SoC of a sound gauge.
LEMMA SocRead ==
    ASSUME Connected, SoundGauge(device)
    PROVE  SocOp(get_capacity) = Set("SoC", Percent(device.charge, device.smc["B0FC"]))
<1> DEFINE p == device.charge
           w == device.smc["B0FC"]
           c == get_capacity
<1>1. PICK n \in Nat \ {0} : c.remaining = p * n /\ c.full = w * n
  BY ChargeRead
<1>2. p \in Nat /\ w \in Nat \ {0}
  BY ChargeRead
<1> HIDE DEF p, w, c
<1>3. c.full > 0
  BY <1>1, <1>2
<1>4. Percent(c.remaining, c.full) = Percent(p, w)
  BY <1>1, <1>2, PercentScaled
<1> QED
  BY <1>3, <1>4 DEF SocOp, p, w, c

\* The row SoC after an update of a sound gauge.
LEMMA SocUpdate ==
    ASSUME Connected, hasSMC, SoundGauge(device), NEW rows, RowsTrue("gauge", rows)
    PROVE  LET r == battery_info_update_smc(rows)[SocRow]
               exact == Percent(device.charge, device.smc["B0FC"])
           IN  /\ ~ r.hidden
               /\ r.high <= exact
               /\ exact - r.high < 4 \/ (exact < 128 /\ r.high = 0)
<1> DEFINE ops == CapacityOps(get_capacity) \o GaugeOps(get_gas_gauge)
           a == CapacityOps(get_capacity)
           b == GaugeOps(get_gas_gauge)
           exact == Percent(device.charge, device.smc["B0FC"])
           new == battery_info_update_smc(rows)
<1>1. new = Apply("gauge", rows, ops)
  BY Zenon DEF battery_info_update_smc
<1>2. Fits("gauge", ops)
  <2>1. Fits("gauge", a) /\ Skips("gauge", a)
    BY CapacityFits
  <2>2. Fits("gauge", b) /\ Skips("gauge", b)
    BY GaugeFits
  <2> HIDE DEF a, b
  <2>3. Fits("gauge", a \o b)
    BY <2>1, <2>2, BothFit
  <2> QED
    BY <2>3 DEF a, b
<1>3. /\ 2 \in DOMAIN ops /\ ops[2] = SocOp(get_capacity) /\ SocOp(get_capacity).name = "SoC"
      /\ \A k \in DOMAIN ops : k > 2 => ops[k].name # "SoC"
  BY SocOnce
<1>4. ops[2] = Set("SoC", exact)
  BY <1>3, SocRead
<1> HIDE DEF ops, exact, new
<1>5. /\ "gauge" \in Ids /\ 3 \in DOMAIN Template["gauge"]
      /\ Template["gauge"][3] = <<"SoC", "F">>
  BY DEF Ids, Template, GaugeTemplate
<1>6. NotReached("gauge") = {}
  BY DEF NotReached
<1>7. PICK r : RowTrue("F", r) /\ new[3] = Done("F", r, ops[2])
  <2>1. PICK id : id = "gauge"
    OBVIOUS
  <2>2. /\ id \in Ids /\ RowsTrue(id, rows) /\ Fits(id, ops) /\ 2 \in DOMAIN ops
        /\ 3 \in DOMAIN Template[id] /\ Template[id][3][1] = ops[2].name
        /\ Template[id][3][2] = "F" /\ ops[2].name \notin NotReached(id)
        /\ \A k \in DOMAIN ops : k > 2 => ops[k].name # ops[2].name
    BY <1>2, <1>3, <1>5, <1>6, <2>1
  <2>3. \E r : RowTrue(Template[id][3][2], r) /\ Apply(id, rows, ops)[3] = Done(Template[id][3][2], r, ops[2])
    BY <2>2, ApplyLast
  <2> QED
    BY <1>1, <2>1, <2>2, <2>3
<1>8. new[3] = SetItem("F", r, exact)
  BY <1>4, <1>7 DEF Done, Set
<1>9. /\ RowTrue("F", new[3]) /\ new[3].dynamic = FALSE /\ new[3].high = Packed(exact)
  <2>1. PICK kind : kind = "F"
    OBVIOUS
  <2>2. kind # "S" /\ RowTrue(kind, r) /\ new[3] = SetItem(kind, r, exact)
    BY <1>7, <1>8, <2>1
  <2> DEFINE n == SetItem(kind, r, exact)
  <2>3. RowTrue(kind, n) /\ n.dynamic = FALSE /\ n.high = Stored(kind, exact)
    BY <2>2, SetNumber
  <2> HIDE DEF n
  <2>4. Stored(kind, exact) = Packed(exact)
    BY <2>1 DEF Stored, FloatKinds
  <2> QED
    BY <2>1, <2>2, <2>3, <2>4 DEF n
<1>10. new[3].hidden = FALSE
  BY <1>9 DEF RowTrue, InDetails
<1>11. exact \in Nat /\ exact <= 6400
  <2> DEFINE p == device.charge
             w == device.smc["B0FC"]
  <2>1. p \in Nat /\ w \in Nat \ {0} /\ p <= w
    BY ChargeRead
  <2> HIDE DEF p, w
  <2>2. Percent(p, w) \in Nat /\ Percent(p, w) <= 6400
    BY <2>1, PercentBound
  <2> QED
    BY <2>2 DEF exact, p, w
<1>12. Packed(exact) <= exact /\ (exact - Packed(exact) < 4 \/ (exact < 128 /\ Packed(exact) = 0))
  <2> HIDE DEF exact
  <2> QED
    BY <1>11, PackedClose
<1> QED
  BY <1>9, <1>10, <1>12 DEF SocRow, exact, new

\* The hardware is one of the given ones, and a connection that is held was found.
HardwareInv == device \in Devices /\ (gConn => hasSMC)

\* The first state.
LEMMA HardwareInit == ASSUME Init PROVE HardwareInv
BY DEF Init, HardwareInv

\* Opening the controller keeps that.
LEMMA SmcOpens == ASSUME smc_open, gConn => hasSMC PROVE gConn' => hasSMC'
BY DEF smc_open, Connected

\* Every step keeps that.
LEMMA HardwareStep == ASSUME HardwareInv, [Next]_vars PROVE HardwareInv'
<1>1. CASE UNCHANGED <<device, gConn, hasSMC>>
  BY <1>1 DEF HardwareInv
<1>2. CASE smc_open /\ UNCHANGED device
  BY <1>2, SmcOpens DEF HardwareInv
<1>3. CASE Refresh
  BY <1>1, <1>3 DEF Refresh, statics, hardware
<1>4. CASE battery_info_poll
  BY <1>2, <1>4 DEF battery_info_poll, hardware
<1>5. CASE UpdateGauge
  BY <1>2, <1>5 DEF UpdateGauge, hardware
<1>6. CASE UpdateAdapter
  BY <1>2, <1>6 DEF UpdateAdapter, hardware
<1>7. ASSUME NEW p \in Ports, UpdateAccessory(p) PROVE HardwareInv'
  BY <1>1, <1>2, <1>7 DEF UpdateAccessory, statics, hardware
<1>8. CASE RemoveSection
  BY <1>1, <1>8 DEF RemoveSection, statics, hardware
<1>9. CASE UpdateReturns
  BY <1>1, <1>9 DEF UpdateReturns, statics, hardware
<1>10. CASE HardwareChanges
  BY <1>10 DEF HardwareChanges, statics, HardwareInv
<1>11. CASE UNCHANGED vars
  BY <1>1, <1>11 DEF vars, statics, hardware
<1> QED
  BY <1>3, <1>4, <1>5, <1>6, <1>7, <1>8, <1>9, <1>10, <1>11 DEF Next, battery_info_update

\* The hardware stays one of the given ones, and its connection found.
THEOREM HardwareInvariance == Spec => []HardwareInv
BY HardwareInit, HardwareStep, PTL DEF Spec

\* A section of the gauge is updated by UpdateGauge only.
LEMMA GaugeOnly ==
    ASSUME RowsInv, [Next]_vars, Updated, Current.id = "gauge"
    PROVE  UpdateGauge
<1>1. at \in Nat \ {0}
  BY DEF RowsInv
<1>2. pc = "walk" /\ pc' = "walk" /\ at' = at + 1 /\ at' # at
  BY <1>1 DEF Updated
<1>3. ~ Refresh /\ ~ battery_info_poll /\ ~ UpdateReturns
  BY <1>2 DEF Refresh, battery_info_poll, UpdateReturns
<1>4. ~ UpdateAdapter /\ \A p \in Ports : ~ UpdateAccessory(p)
  BY DEF UpdateAdapter, UpdateAccessory, InWalk, Ports
<1>5. ~ RemoveSection
  BY <1>1, <1>2 DEF RemoveSection
<1>6. ~ HardwareChanges /\ ~ UNCHANGED vars
  BY <1>2 DEF HardwareChanges, vars, tableVars
<1> QED
  BY <1>3, <1>4, <1>5, <1>6 DEF Next, battery_info_update

\* The step of SocTrue.
LEMMA SocStep ==
    ASSUME ListInv, RowsInv, HardwareInv, [Next]_vars,
           Updated, Current.id = "gauge", device.charge # Missing, Connected
    PROVE  LET r == sections'[at].rows[SocRow]
               exact == Percent(device.charge, device.smc["B0FC"])
           IN  /\ ~ r.hidden
               /\ r.high <= exact
               /\ exact - r.high < 4 \/ (exact < 128 /\ r.high = 0)
<1> DEFINE rows == battery_info_update_smc(Current.rows)
<1>1. UpdateGauge
  BY GaugeOnly
<1>2. at \in DOMAIN sections /\ UpdateTo(rows) /\ (hasSMC' => hasSMC)
  BY <1>1, SmcMonotone DEF UpdateGauge, InWalk
<1>3. hasSMC
  BY DEF HardwareInv, Connected
<1>4. SoundGauge(device)
  BY DevicesAssumption DEF HardwareInv
<1>5. RowsTrue("gauge", Current.rows) /\ (hasSMC => Kept("gauge", Current.rows))
  BY <1>2, WalkRows DEF RowsOf
<1>6. RowsTrue("gauge", rows) /\ (hasSMC => Kept("gauge", rows))
  BY <1>5, GaugeUpdate
<1>7. /\ ~ rows[SocRow].hidden
      /\ rows[SocRow].high <= Percent(device.charge, device.smc["B0FC"])
      /\ \/ Percent(device.charge, device.smc["B0FC"]) - rows[SocRow].high < 4
         \/ Percent(device.charge, device.smc["B0FC"]) < 128 /\ rows[SocRow].high = 0
  BY <1>3, <1>4, <1>5, SocUpdate
<1> HIDE DEF rows
<1>8. sections'[at].rows = rows
  BY <1>2, <1>6, RowsUpdate
<1> QED
  BY <1>7, <1>8

\* After an update of a gauge whose charge is known, the row SoC is shown and holds that charge,
\* in whichever order the gauge has its bytes and however many cells it counts
\* (battery_info.c:315-337, 846-863; libsmc.c:491-560).
THEOREM SocTrueHolds == Spec => SocTrue
<1>1. ListInv /\ RowsInv /\ HardwareInv /\ [Next]_vars =>
        [Updated /\ Current.id = "gauge" /\ device.charge # Missing =>
         LET r == sections'[at].rows[SocRow]
             exact == Percent(device.charge, device.smc["B0FC"])
         IN  Connected => /\ ~ r.hidden
                          /\ r.high <= exact
                          /\ exact - r.high < 4 \/ (exact < 128 /\ r.high = 0)]_vars
  BY SocStep
<1> QED
  BY <1>1, ListInvariance, RowsInvariance, HardwareInvariance, PTL DEF Spec, SocTrue
=============================================================================
