-------------------------- MODULE FlowAttachProofs --------------------------
(***************************************************************************)
(* Theorems about the attachment of a task's pictures: for any tasks with  *)
(* any assets, any preset, any number of ways to click and any clicks that *)
(* miss or take late.                                                      *)
(*                                                                         *)
(* Every click, also one that has not taken yet, was made for an entry of  *)
(* the task's plan and in the slot of that entry, so no chip is in a slot  *)
(* it does not belong in.  In a slot where no click came late the chips    *)
(* are those of the entries dealt with, read forwards; and each entry      *)
(* dealt with left a chip there, or was closed with Escape, or shares its  *)
(* slot with a late click.  What is said when Create is clicked follows    *)
(* from it and from what the plan is to the assets.                        *)
(***************************************************************************)
EXTENDS FlowAttachProperties, SequenceTheorems, TLAPS

P == Plan(Assets)

AtADialog == {"find", "reuse", "check", "fresh", "closing"}
AtAnEntry == AtADialog \cup {"trigger", "settle"}
Attaching == AtAnEntry \cup {"paste", "create"}

(* The entries of the plan that the driver has dealt with: the current one *)
(* as soon as its dialog is gone.                                          *)
Done == IF pc = "settle" \/ (pc \in AtADialog /\ picker = "none") THEN job.at + 1 ELSE job.at

PointOK ==
    /\ pc \in Attaching => ~Refused(Assets)
    /\ pc \in AtAnEntry => job.at < Len(P)
    /\ pc \in {"paste", "create"} => job.at = Len(P)
    /\ pc \in AtADialog => picker \in {P[job.at + 1].slot, "none"}

(* A thumbnail of that name is one an entry of the plan puts in the slot.  *)
Planned(s, name, plan) ==
    \E k \in 1 .. Len(plan) : plan[k].slot = s /\ plan[k].asset.name = name

OwnedChips == \A s \in Slots : \A i \in 1 .. Len(chips[s]) : Planned(s, chips[s][i].name, P)
OwnedPending == \A e \in pending : Planned(e.slot, e.picture.name, P)

(* Each chip of a slot is there for one of the first n entries of the      *)
(* plan, in the plan's order.                                              *)
Placed(held, s, n, plan) ==
    \E entry \in [1 .. Len(held) -> 1 .. n] :
        /\ Forwards(entry, Len(held))
        /\ \A i \in 1 .. Len(held) :
              plan[entry[i]].slot = s /\ plan[entry[i]].asset.name = held[i].name

InPlace(held, past, n, plan) ==
    past.kept \/ \A s \in Slots : s \in past.belated \/ Placed(held[s], s, n, plan)

(* Each of the first n entries left a chip in its slot, or its dialog was  *)
(* closed with Escape, or a click in its slot came late.                   *)
Shown(held, name) == \E i \in 1 .. Len(held) : held[i].name = name

Accounted(held, past, n, plan) ==
    \A k \in 1 .. n :
        \/ plan[k].asset.shows \in past.escaped
        \/ plan[k].slot \in past.belated
        \/ Shown(held[plan[k].slot], plan[k].asset.name)

Books == pc \in Attaching => InPlace(chips, seen, Done, P) /\ Accounted(chips, seen, Done, P)

BeforeUpload ==
    pc \in {"panel", "preset", "popovers", "ready"} =>
        seen.kept \/ \A s \in Slots : s \in seen.belated \/ chips[s] = <<>>

ChipsType == chips \in [Slots -> Seq(Thumbnails)]

AttachInv ==
    /\ TypeOK /\ ChipsType
    /\ OwnedChips /\ OwnedPending
    /\ PointOK /\ BeforeUpload /\ Books

-----------------------------------------------------------------------------
(* Every asset of a task is one of AllAssets, so what it is known by is a  *)
(* thumbnail.                                                              *)
LEMMA AssetFacts ==
    ASSUME NEW t \in Tasks
    PROVE  /\ AssetsOf[t] \in Seq(Range(AssetsOf[t]))
           /\ \A i \in 1 .. Len(AssetsOf[t]) :
                 [name |-> AssetsOf[t][i].name, shows |-> AssetsOf[t][i].shows] \in Thumbnails
<1>1. AssetsOf[t] \in Seq(Range(AssetsOf[t]))
  BY Inputs
<1>2. ASSUME NEW i \in 1 .. Len(AssetsOf[t])
      PROVE  [name |-> AssetsOf[t][i].name, shows |-> AssetsOf[t][i].shows] \in Thumbnails
  <2>1. i \in DOMAIN AssetsOf[t]
    BY <1>1, LenProperties
  <2>2. AssetsOf[t][i] \in Range(AssetsOf[t])
    BY <2>1 DEF Range
  <2>3. AssetsOf[t][i] \in AllAssets
    BY <2>2 DEF AllAssets
  <2> QED
    BY <2>3 DEF Thumbnails
<1> QED
  BY <1>1, <1>2

LEMMA ShortSequences ==
    ASSUME NEW x, NEW y
    PROVE  <<x>> \o <<y>> = <<x, y>> /\ <<x>> \o <<>> = <<x>> /\ <<>> \o <<x>> = <<x>>
<1>1. <<x>> \o <<>> = <<x>>
  OBVIOUS
<1>2. <<>> \o <<x>> = <<x>>
  OBVIOUS
<1>3. <<x>> \o <<y>> = <<x, y>>
  <2>1. <<x>> \in Seq({x, y}) /\ <<y>> \in Seq({x, y}) /\ <<x, y>> \in Seq({x, y})
    OBVIOUS
  <2>2. Len(<<x>>) = 1 /\ Len(<<y>>) = 1 /\ Len(<<x, y>>) = 2
    OBVIOUS
  <2>3. <<x>> \o <<y>> \in Seq({x, y}) /\ Len(<<x>> \o <<y>>) = 2
    BY <2>1, <2>2, ConcatProperties
  <2>4. (<<x>> \o <<y>>)[1] = x /\ (<<x>> \o <<y>>)[2] = y
    BY <2>1, <2>2, ConcatProperties
  <2> DEFINE both == <<x>> \o <<y>>
  <2>5. \A i \in 1 .. 2 : both[i] = <<x, y>>[i]
    BY <2>4
  <2> HIDE DEF both
  <2>6. both = <<x, y>>
    <3>1. Len(both) = Len(<<x, y>>) /\ \A i \in 1 .. Len(both) : both[i] = <<x, y>>[i]
      BY <2>2, <2>3, <2>5 DEF both
    <3>2. both \in Seq({x, y})
      BY <2>3 DEF both
    <3> QED
      BY <2>1, <3>1, <3>2, SeqEqual
  <2> QED
    BY <2>6 DEF both
<1> QED
  BY <1>1, <1>2, <1>3

(* What OneInto returns, empty or one entry.                               *)
LEMMA OneIntoFacts ==
    ASSUME NEW slot, NEW assets, NEW kind
    PROVE  /\ OfKind(assets, kind) = {} => OneInto(slot, assets, kind) = <<>>
           /\ OfKind(assets, kind) # {} =>
                 \E i \in OfKind(assets, kind) :
                     OneInto(slot, assets, kind) = <<[slot |-> slot, asset |-> assets[i]]>>
<1>1. CASE OfKind(assets, kind) = {}
  BY <1>1 DEF OneInto
<1>2. CASE OfKind(assets, kind) # {}
  <2>1. (CHOOSE i \in OfKind(assets, kind) : TRUE) \in OfKind(assets, kind)
    BY <1>2
  <2> QED
    BY <1>2, <2>1 DEF OneInto
<1> QED
  BY <1>1, <1>2

(* What the plan of accepted assets is: an entry for every asset and no    *)
(* other, each for the slot its asset belongs in, and within a slot in the *)
(* order of the task.                                                      *)
PlanOf(assets, plan) ==
    /\ Len(plan) \in Nat \ {0}
    /\ Len(plan) <= Len(assets)
    /\ \A k \in 1 .. Len(plan) : plan[k].slot \in Slots
    /\ \A i \in 1 .. Len(assets) : \E k \in 1 .. Len(plan) : plan[k].asset = assets[i]
    /\ \E pos \in [1 .. Len(plan) -> 1 .. Len(assets)] :
          /\ \A k \in 1 .. Len(plan) :
                /\ plan[k].asset = assets[pos[k]]
                /\ Belongs(assets[pos[k]], plan[k].slot)
          /\ \A j, k \in 1 .. Len(plan) : (j < k /\ plan[j].slot = plan[k].slot) => pos[j] < pos[k]

LEMMA PlanFacts ==
    ASSUME NEW t \in Tasks, ~Refused(AssetsOf[t])
    PROVE  PlanOf(AssetsOf[t], Plan(AssetsOf[t]))
<1> DEFINE A == AssetsOf[t]
           n == Len(A)
           F == OfKind(A, "first_frame")
           L == OfKind(A, "last_frame")
<1>1. A \in Seq(Range(A)) /\ n \in Nat
  BY AssetFacts, LenProperties
<1>2. A # <<>>
  BY DEF Refused
<1>3. n > 0
  BY <1>1, <1>2, EmptySeq, LenProperties
<1>4. CASE ~InFrames(A)
  <2> DEFINE plan == Into("+", A)
  <2>1. Plan(A) = plan
    BY <1>4 DEF Plan
  <2>2. Len(plan) = n
    BY <1>1 DEF Into
  <2>3. \A k \in 1 .. n : plan[k].slot = "+" /\ plan[k].asset = A[k]
    BY DEF Into
  <2>4. \A k \in 1 .. n : Belongs(A[k], "+")
    BY <1>4 DEF InFrames, Belongs
  <2>5. [k \in 1 .. n |-> k] \in [1 .. n -> 1 .. n]
    OBVIOUS
  <2> HIDE DEF plan, A
  <2>6. \E pos \in [1 .. n -> 1 .. n] :
           /\ \A k \in 1 .. n : plan[k].asset = A[pos[k]] /\ Belongs(A[pos[k]], plan[k].slot)
           /\ \A j, k \in 1 .. n : (j < k /\ plan[j].slot = plan[k].slot) => pos[j] < pos[k]
    <3> WITNESS [k \in 1 .. n |-> k] \in [1 .. n -> 1 .. n]
    <3> QED
      BY <2>3, <2>4
  <2>7. PlanOf(A, plan)
    <3>1. \A k \in 1 .. n : plan[k].slot \in Slots
      BY <2>3 DEF Slots
    <3>2. \A i \in 1 .. n : \E k \in 1 .. n : plan[k].asset = A[i]
      BY <2>3
    <3>3. \E pos \in [1 .. Len(plan) -> 1 .. n] :
             /\ \A k \in 1 .. Len(plan) : plan[k].asset = A[pos[k]] /\ Belongs(A[pos[k]], plan[k].slot)
             /\ \A j, k \in 1 .. Len(plan) :
                   (j < k /\ plan[j].slot = plan[k].slot) => pos[j] < pos[k]
      BY <2>2, <2>6, Zenon
    <3>4. Len(plan) \in Nat \ {0} /\ Len(plan) <= n
      BY <1>1, <1>3, <2>2
    <3>5. \A k \in 1 .. Len(plan) : plan[k].slot \in Slots
      BY <2>2, <3>1, Zenon
    <3>6. \A i \in 1 .. n : \E k \in 1 .. Len(plan) : plan[k].asset = A[i]
      BY <2>2, <3>2, Zenon
    <3> QED
      BY <3>3, <3>4, <3>5, <3>6, Zenon DEF PlanOf
  <2> QED
    BY <2>1, <2>7 DEF A
<1>5. CASE InFrames(A)
  <2>1. \A i, j \in F : i = j
    BY <1>5 DEF Refused, FrameKinds
  <2>2. \A i, j \in L : i = j
    BY <1>5 DEF Refused, FrameKinds
  <2>3. \A i \in 1 .. n : i \in F \/ i \in L
    BY <1>5 DEF Refused, FrameKinds, OfKind
  <2>4. \A i \in F : i \in 1 .. n /\ Belongs(A[i], "Start") /\ A[i].kind = "first_frame"
    BY DEF OfKind, Belongs
  <2>5. \A i \in L : i \in 1 .. n /\ Belongs(A[i], "End") /\ A[i].kind = "last_frame"
    BY DEF OfKind, Belongs
  <2>6. Plan(A) = OneInto("Start", A, "first_frame") \o OneInto("End", A, "last_frame")
    BY <1>5 DEF Plan
  <2>7. CASE F # {} /\ L # {}
    <3>1. PICK f \in F : OneInto("Start", A, "first_frame") = <<[slot |-> "Start", asset |-> A[f]]>>
      BY <2>7, OneIntoFacts
    <3>2. PICK l \in L : OneInto("End", A, "last_frame") = <<[slot |-> "End", asset |-> A[l]]>>
      BY <2>7, OneIntoFacts
    <3> DEFINE s == [slot |-> "Start", asset |-> A[f]]
               e == [slot |-> "End", asset |-> A[l]]
               pos == [k \in 1 .. 2 |-> IF k = 1 THEN f ELSE l]
    <3>3. Plan(A) = <<s, e>>
      BY <2>6, <3>1, <3>2, ShortSequences, Zenon
    <3>4. f # l /\ f \in 1 .. n /\ l \in 1 .. n
      BY <2>4, <2>5
    <3>5. n >= 2
      BY <1>1, <3>4
    <3>6. pos \in [1 .. 2 -> 1 .. n]
      BY <3>4
    <3>7. s.slot = "Start" /\ s.asset = A[f] /\ e.slot = "End" /\ e.asset = A[l]
      OBVIOUS
    <3> HIDE DEF s, e, A
    <3>8. \A i \in 1 .. n : \E k \in 1 .. 2 : <<s, e>>[k].asset = A[i]
      BY <2>1, <2>2, <2>3, <3>7
    <3>9. \A k \in 1 .. 2 :
             /\ <<s, e>>[k].slot \in Slots
             /\ <<s, e>>[k].asset = A[pos[k]]
             /\ Belongs(A[pos[k]], <<s, e>>[k].slot)
      BY <2>4, <2>5, <3>7 DEF Slots
    <3>10. \A j, k \in 1 .. 2 : (j < k /\ <<s, e>>[j].slot = <<s, e>>[k].slot) => pos[j] < pos[k]
      BY <3>7
    <3> HIDE DEF pos
    <3>11. PlanOf(A, <<s, e>>)
      BY <1>1, <3>5, <3>6, <3>8, <3>9, <3>10 DEF PlanOf
    <3> QED
      BY <3>3, <3>11 DEF A
  <2>8. ASSUME NEW K, NEW slot \in Slots, K # {}, \A i, j \in K : i = j,
               \A i \in K : i \in 1 .. n /\ Belongs(A[i], slot),
               \A i \in 1 .. n : i \in K,
               \E i \in K : Plan(A) = <<[slot |-> slot, asset |-> A[i]]>>
        PROVE  PlanOf(A, Plan(A))
    <3>1. PICK i \in K : Plan(A) = <<[slot |-> slot, asset |-> A[i]]>>
      BY <2>8
    <3> DEFINE x == [slot |-> slot, asset |-> A[i]]
               pos == [k \in 1 .. 1 |-> i]
    <3>2. i \in 1 .. n /\ Belongs(A[i], slot)
      BY <2>8
    <3>3. x.slot = slot /\ x.asset = A[i]
      OBVIOUS
    <3>4. pos \in [1 .. 1 -> 1 .. n]
      BY <3>2
    <3>5. Plan(A) = <<x>>
      BY <3>1
    <3> HIDE DEF x, A
    <3>6. \A m \in 1 .. n : \E k \in 1 .. 1 : <<x>>[k].asset = A[m]
      BY <2>8, <3>3
    <3>7. \A k \in 1 .. 1 :
             <<x>>[k].slot \in Slots /\ <<x>>[k].asset = A[pos[k]] /\ Belongs(A[pos[k]], <<x>>[k].slot)
      BY <3>2, <3>3
    <3>8. \A j, k \in 1 .. 1 : (j < k /\ <<x>>[j].slot = <<x>>[k].slot) => pos[j] < pos[k]
      OBVIOUS
    <3> HIDE DEF pos
    <3>9. PlanOf(A, <<x>>)
      BY <1>1, <1>3, <3>4, <3>6, <3>7, <3>8 DEF PlanOf
    <3> QED
      BY <3>5, <3>9
  <2>9. CASE F # {} /\ L = {}
    <3>1. PICK f \in F : OneInto("Start", A, "first_frame") = <<[slot |-> "Start", asset |-> A[f]]>>
      BY <2>9, OneIntoFacts
    <3>2. OneInto("End", A, "last_frame") = <<>>
      BY <2>9, OneIntoFacts
    <3>3. Plan(A) = <<[slot |-> "Start", asset |-> A[f]]>>
      BY <2>6, <3>1, <3>2, ShortSequences, Zenon
    <3>4. "Start" \in Slots
      BY DEF Slots
    <3> HIDE DEF A, F, L
    <3> QED
      BY <2>1, <2>3, <2>4, <2>8, <2>9, <3>3, <3>4 DEF A
  <2>10. CASE F = {} /\ L # {}
    <3>1. PICK l \in L : OneInto("End", A, "last_frame") = <<[slot |-> "End", asset |-> A[l]]>>
      BY <2>10, OneIntoFacts
    <3>2. OneInto("Start", A, "first_frame") = <<>>
      BY <2>10, OneIntoFacts
    <3>3. Plan(A) = <<[slot |-> "End", asset |-> A[l]]>>
      BY <2>6, <3>1, <3>2, ShortSequences, Zenon
    <3>4. "End" \in Slots
      BY DEF Slots
    <3> HIDE DEF A, F, L
    <3> QED
      BY <2>2, <2>3, <2>5, <2>8, <2>10, <3>3, <3>4 DEF A
  <2>11. F # {} \/ L # {}
    BY <1>1, <1>3, <2>3
  <2> QED
    BY <2>7, <2>9, <2>10, <2>11
<1> QED
  BY <1>4, <1>5


-----------------------------------------------------------------------------
(* What a chip for the next entry does to its slot.                        *)
LEMMA OneMorePlaced ==
    ASSUME NEW held \in Seq(Thumbnails), NEW n \in Nat, NEW plan, NEW s, NEW x \in Thumbnails,
           plan[n + 1].slot = s, plan[n + 1].asset.name = x.name,
           Placed(held, s, n, plan)
    PROVE  Placed(Append(held, x), s, n + 1, plan)
<1> DEFINE now == Append(held, x)
           m == Len(held)
<1>1. /\ m \in Nat /\ Len(now) = m + 1
      /\ \A i \in 1 .. m : now[i] = held[i]
      /\ now[m + 1] = x
  BY AppendProperties, LenProperties
<1>2. PICK entry \in [1 .. m -> 1 .. n] :
         /\ Forwards(entry, m)
         /\ \A i \in 1 .. m : plan[entry[i]].slot = s /\ plan[entry[i]].asset.name = held[i].name
  BY DEF Placed
<1> DEFINE longer == [i \in 1 .. m + 1 |-> IF i = m + 1 THEN n + 1 ELSE entry[i]]
<1> HIDE DEF now, m
<1>3. \A i \in 1 .. m : longer[i] = entry[i] /\ longer[i] \in 1 .. n
  BY <1>1
<1>4. longer[m + 1] = n + 1
  BY <1>1
<1>5. longer \in [1 .. m + 1 -> 1 .. n + 1]
  BY <1>1
<1> HIDE DEF longer
<1>6. Forwards(longer, m + 1)
  <2> SUFFICES ASSUME NEW i \in 1 .. m + 1, NEW j \in 1 .. m + 1, i < j
               PROVE  longer[i] < longer[j]
    BY DEF Forwards
  <2>1. i \in 1 .. m /\ longer[i] \in 1 .. n /\ longer[i] = entry[i]
    BY <1>1, <1>3
  <2>2. CASE j = m + 1
    BY <1>4, <2>1, <2>2
  <2>3. CASE j \in 1 .. m
    <3>1. entry[i] < entry[j]
      BY <1>2, <2>1, <2>3 DEF Forwards
    <3> QED
      BY <1>3, <2>1, <2>3, <3>1
  <2> QED
    BY <1>1, <2>2, <2>3
<1>7. ASSUME NEW i \in 1 .. m + 1
      PROVE  plan[longer[i]].slot = s /\ plan[longer[i]].asset.name = now[i].name
  <2>1. CASE i = m + 1
    BY <1>1, <1>4, <2>1
  <2>2. CASE i \in 1 .. m
    BY <1>1, <1>2, <1>3, <2>2
  <2> QED
    BY <1>1, <2>1, <2>2
<1>8. Placed(now, s, n + 1, plan)
  BY <1>1, <1>5, <1>6, <1>7 DEF Placed
<1> QED
  BY <1>8 DEF now

(* An entry more dealt with unsettles no slot, and an empty one is in      *)
(* order after any number of them.                                         *)
LEMMA LaterPlaced ==
    ASSUME NEW held, NEW n \in Nat, NEW plan, NEW s, Placed(held, s, n, plan)
    PROVE  Placed(held, s, n + 1, plan)
<1>1. PICK entry \in [1 .. Len(held) -> 1 .. n] :
         /\ Forwards(entry, Len(held))
         /\ \A i \in 1 .. Len(held) :
               plan[entry[i]].slot = s /\ plan[entry[i]].asset.name = held[i].name
  BY DEF Placed
<1>2. entry \in [1 .. Len(held) -> 1 .. n + 1]
  OBVIOUS
<1> QED
  BY <1>1, <1>2 DEF Placed

LEMMA EmptyPlaced ==
    ASSUME NEW plan, NEW s
    PROVE  Placed(<<>>, s, 0, plan)
<1>1. 1 .. Len(<<>>) = {}
  OBVIOUS
<1>2. <<>> \in [1 .. Len(<<>>) -> 1 .. 0]
  BY <1>1
<1>3. Forwards(<<>>, Len(<<>>))
  BY <1>1 DEF Forwards
<1> QED
  BY <1>1, <1>2, <1>3 DEF Placed

(* The prompt without a chip is in order.                                  *)
LEMMA EmptyChips ==
    /\ NoChips \in [Slots -> Seq(Thumbnails)]
    /\ \A s \in Slots : NoChips[s] = <<>> /\ Len(NoChips[s]) = 0
BY DEF NoChips

(* The books after a chip for the entry behind the first n.                *)
LEMMA AppendedBooks ==
    ASSUME NEW held \in [Slots -> Seq(Thumbnails)], NEW n \in Nat, NEW plan, NEW past,
           NEW s \in Slots, NEW x \in Thumbnails,
           \A k \in 1 .. n + 1 : plan[k].slot \in Slots,
           plan[n + 1].slot = s, plan[n + 1].asset.name = x.name,
           InPlace(held, past, n, plan), Accounted(held, past, n, plan)
    PROVE  LET now == [held EXCEPT ![s] = Append(@, x)]
           IN  InPlace(now, past, n + 1, plan) /\ Accounted(now, past, n + 1, plan)
<1> DEFINE now == [held EXCEPT ![s] = Append(@, x)]
<1>1. now[s] = Append(held[s], x) /\ \A z \in Slots : z # s => now[z] = held[z]
  OBVIOUS
<1>2. /\ Len(held[s]) \in Nat /\ Len(now[s]) = Len(held[s]) + 1
      /\ \A i \in 1 .. Len(held[s]) : now[s][i] = held[s][i]
      /\ now[s][Len(held[s]) + 1] = x
  BY <1>1, AppendProperties, LenProperties
<1> HIDE DEF now
<1>3. InPlace(now, past, n + 1, plan)
  <2> SUFFICES ASSUME ~past.kept, NEW z \in Slots, z \notin past.belated
               PROVE  Placed(now[z], z, n + 1, plan)
    BY DEF InPlace
  <2>1. Placed(held[z], z, n, plan)
    BY DEF InPlace
  <2>2. CASE z = s
    <3>1. Placed(Append(held[s], x), s, n + 1, plan)
      <4>1. held[s] \in Seq(Thumbnails) /\ Placed(held[s], s, n, plan)
        BY <2>1, <2>2
      <4> QED
        BY <4>1, OneMorePlaced
    <3> QED
      BY <1>1, <2>2, <3>1
  <2>3. CASE z # s
    BY <1>1, <2>1, <2>3, LaterPlaced
  <2> QED
    BY <2>2, <2>3
<1>4. Accounted(now, past, n + 1, plan)
  <2>1. Shown(now[s], x.name)
    <3>1. Len(held[s]) + 1 \in 1 .. Len(now[s])
      BY <1>2
    <3> QED
      BY <1>2, <3>1 DEF Shown
  <2>2. ASSUME NEW z \in Slots, NEW name, Shown(held[z], name)
        PROVE  Shown(now[z], name)
    <3>1. CASE z = s
      <4>1. PICK i \in 1 .. Len(held[s]) : held[s][i].name = name
        BY <2>2, <3>1 DEF Shown
      <4>2. i \in 1 .. Len(now[s]) /\ now[s][i] = held[s][i]
        BY <1>2
      <4> QED
        BY <3>1, <4>1, <4>2 DEF Shown
    <3>2. CASE z # s
      BY <1>1, <2>2, <3>2
    <3> QED
      BY <3>1, <3>2
  <2>3. \A k \in 1 .. n + 1 : k \in 1 .. n \/ k = n + 1
    OBVIOUS
  <2> QED
    BY <2>1, <2>2, <2>3 DEF Accounted
<1> QED
  BY <1>3, <1>4 DEF now

(* The books after an entry that is dealt with without a chip.             *)
LEMMA DealtWithBooks ==
    ASSUME NEW held, NEW n \in Nat, NEW plan, NEW past, NEW later,
           past.escaped \subseteq later.escaped, past.belated \subseteq later.belated,
           later.kept = past.kept,
           \/ plan[n + 1].asset.shows \in later.escaped
           \/ plan[n + 1].slot \in later.belated,
           InPlace(held, past, n, plan), Accounted(held, past, n, plan)
    PROVE  InPlace(held, later, n + 1, plan) /\ Accounted(held, later, n + 1, plan)
<1>1. \A k \in 1 .. n + 1 : k \in 1 .. n \/ k = n + 1
  OBVIOUS
<1>2. Accounted(held, later, n + 1, plan)
  BY <1>1 DEF Accounted
<1>3. InPlace(held, later, n + 1, plan)
  BY LaterPlaced DEF InPlace
<1> QED
  BY <1>2, <1>3

(* The books after a late click: its slot is beyond them.                  *)
LEMMA BelatedBooks ==
    ASSUME NEW held \in [Slots -> Seq(Thumbnails)], NEW n \in Nat, NEW plan, NEW past, NEW later,
           NEW s \in Slots, NEW x \in Thumbnails,
           \A k \in 1 .. n : plan[k].slot \in Slots,
           later.escaped = past.escaped, later.belated = past.belated \cup {s},
           later.kept = past.kept,
           InPlace(held, past, n, plan), Accounted(held, past, n, plan)
    PROVE  LET now == [held EXCEPT ![s] = Append(@, x)]
           IN  InPlace(now, later, n, plan) /\ Accounted(now, later, n, plan)
<1> DEFINE now == [held EXCEPT ![s] = Append(@, x)]
<1>1. \A z \in Slots : z # s => now[z] = held[z]
  OBVIOUS
<1> HIDE DEF now
<1>2. InPlace(now, later, n, plan)
  BY <1>1 DEF InPlace
<1>3. Accounted(now, later, n, plan)
  BY <1>1 DEF Accounted
<1> QED
  BY <1>2, <1>3 DEF now

-----------------------------------------------------------------------------
(* What the invariant says of the entries of an accepted task.             *)
LEMMA CurrentFacts ==
    ASSUME TypeOK, ~Refused(Assets)
    PROVE  /\ job.task \in Tasks /\ job.at \in Nat
           /\ Len(P) \in Nat \ {0}
           /\ \A k \in 1 .. Len(P) :
                 /\ P[k].slot \in Slots
                 /\ [name |-> P[k].asset.name, shows |-> P[k].asset.shows] \in Thumbnails
<1>1. job.task \in Tasks /\ job.at \in Nat
  BY DEF TypeOK
<1>2. PlanOf(Assets, P)
  BY <1>1, PlanFacts DEF Assets, P
<1>3. ASSUME NEW k \in 1 .. Len(P)
      PROVE  [name |-> P[k].asset.name, shows |-> P[k].asset.shows] \in Thumbnails
  <2>1. \E i \in 1 .. Len(Assets) : P[k].asset = Assets[i]
    BY <1>2 DEF PlanOf
  <2> QED
    BY <1>1, <2>1, AssetFacts DEF Assets
<1> QED
  BY <1>1, <1>2, <1>3 DEF PlanOf

(* What it says of the entry a dialog is for.                              *)
LEMMA EntryFacts ==
    ASSUME AttachInv, pc \in AtAnEntry
    PROVE  /\ ~Refused(Assets)
           /\ job.at \in Nat /\ job.at < Len(P) /\ Len(P) \in Nat
           /\ job.at + 1 \in 1 .. Len(P)
           /\ P[job.at + 1].slot \in Slots
           /\ [name |-> P[job.at + 1].asset.name, shows |-> P[job.at + 1].asset.shows] \in Thumbnails
           /\ \A k \in 1 .. job.at + 1 : P[k].slot \in Slots
           /\ InPlace(chips, seen, Done, P) /\ Accounted(chips, seen, Done, P)
           /\ pc \in AtADialog => picker \in {P[job.at + 1].slot, "none"}
<1>1. TypeOK /\ PointOK /\ Books /\ pc \in Attaching
  BY DEF AttachInv, Attaching
<1>2. ~Refused(Assets) /\ job.at < Len(P)
  BY <1>1 DEF PointOK
<1>3. job.at \in Nat /\ Len(P) \in Nat
  BY <1>1, <1>2, CurrentFacts
<1>4. job.at + 1 \in 1 .. Len(P) /\ \A k \in 1 .. job.at + 1 : k \in 1 .. Len(P)
  BY <1>2, <1>3
<1> QED
  BY <1>1, <1>2, <1>3, <1>4, CurrentFacts DEF PointOK, Books

(* A step that leaves the task alone leaves its plan alone.                *)
LEMMA SamePlan ==
    ASSUME job'.task = job.task
    PROVE  Assets' = Assets /\ P' = P
BY DEF Assets, P

LEMMA SameOwned ==
    ASSUME AttachInv, job'.task = job.task, UNCHANGED <<chips, pending>>
    PROVE  ChipsType' /\ OwnedChips' /\ OwnedPending'
<1>1. P' = P
  BY SamePlan
<1> QED
  BY <1>1 DEF AttachInv, ChipsType, OwnedChips, OwnedPending

(* The driver outside an upload: nothing is asked of the books.            *)
LEMMA NotAttaching ==
    ASSUME TypeOK', ChipsType', OwnedChips', OwnedPending', BeforeUpload', pc' \notin Attaching
    PROVE  AttachInv'
<1>1. pc' \notin AtAnEntry /\ pc' \notin AtADialog /\ pc' \notin {"paste", "create"}
  BY DEF Attaching, AtAnEntry
<1> QED
  BY <1>1 DEF AttachInv, PointOK, Books

(* A step that keeps the entry, the chips and the history, and does not    *)
(* move Done, keeps the books.                                             *)
LEMMA SameBooks ==
    ASSUME AttachInv, pc \in Attaching, job'.task = job.task, UNCHANGED <<chips, seen>>,
           Done' = Done
    PROVE  Books'
<1>1. P' = P
  BY SamePlan
<1> QED
  BY <1>1 DEF AttachInv, Books

(* A session that raises.                                                  *)
LEMMA ClosedAttach ==
    ASSUME AttachInv, TypeOK', pc' = "closed", job'.task = job.task, UNCHANGED <<chips, pending>>
    PROVE  AttachInv'
<1>1. pc' \notin Attaching /\ BeforeUpload'
  BY DEF Attaching, AtAnEntry, AtADialog, BeforeUpload
<1> QED
  BY <1>1, SameOwned, NotAttaching

LEMMA InitAttach == Init => AttachInv
<1> SUFFICES ASSUME Init PROVE AttachInv
  OBVIOUS
<1>1. (CHOOSE t \in Tasks : TRUE) \in Tasks
  BY Inputs
<1>2. job \in [task : Tasks, round : 0 .. MaxRounds, at : Nat, way : 1 .. Strategies]
  BY <1>1, Inputs DEF Init
<1>3. ChipsType /\ DOMAIN chips = Slots /\ \A s \in Slots : chips[s] \in Seq(Thumbnails)
  BY EmptyChips DEF Init, ChipsType
<1>4. misses \in 0 .. MaxMisses
  BY Inputs DEF Init
<1>5. TypeOK
  BY <1>2, <1>3, <1>4 DEF Init, TypeOK, NothingSeen
<1>6. OwnedChips /\ OwnedPending
  BY EmptyChips DEF Init, OwnedChips, OwnedPending
<1>7. pc = "closed"
  BY DEF Init
<1> QED
  BY <1>3, <1>5, <1>6, <1>7
     DEF AttachInv, PointOK, BeforeUpload, Books, Attaching, AtAnEntry, AtADialog

-----------------------------------------------------------------------------
(* The page is opened and set up: no chip, no entry.                       *)
LEMMA StartSessionAttach == AttachInv /\ StartSession => AttachInv'
<1> SUFFICES ASSUME AttachInv, StartSession PROVE AttachInv'
  OBVIOUS
<1>1. TypeOK
  BY DEF AttachInv
<1>2. PICK t \in waiting : /\ job' = [task |-> t, round |-> 0, at |-> 0, way |-> 1]
                           /\ waiting' = waiting \ {t}
  BY DEF StartSession
<1>3. t \in Tasks
  BY <1>1 DEF TypeOK
<1>4. job' \in [task : Tasks, round : 0 .. MaxRounds, at : Nat, way : 1 .. Strategies]
  BY <1>2, <1>3, Inputs
<1>5. chips' = NoChips /\ pending' = {} /\ seen' = NothingSeen /\ pc' = "panel"
  BY DEF StartSession
<1>6. ChipsType' /\ DOMAIN chips' = Slots /\ \A s \in Slots : chips'[s] \in Seq(Thumbnails)
  BY <1>5, EmptyChips DEF ChipsType
<1>7. TypeOK'
  <2>1. /\ library' \subseteq Thumbnails /\ applied' \subseteq Range(Asked) /\ panel' \in BOOLEAN
        /\ picker' \in Slots \cup {"none"} /\ typed' \in Tasks \cup {"none"}
    BY <1>1 DEF StartSession, TypeOK
  <2>2. waiting' \subseteq Tasks
    BY <1>1, <1>2 DEF TypeOK
  <2>3. misses' \in 0 .. MaxMisses
    BY Inputs DEF StartSession
  <2> QED
    BY <1>4, <1>5, <1>6, <2>1, <2>2, <2>3 DEF TypeOK, NothingSeen
<1>8. OwnedChips' /\ OwnedPending' /\ BeforeUpload'
  BY <1>5, EmptyChips DEF OwnedChips, OwnedPending, BeforeUpload
<1>9. pc' \notin Attaching
  BY <1>5 DEF Attaching, AtAnEntry, AtADialog
<1> QED
  BY <1>6, <1>7, <1>8, <1>9, NotAttaching

LEMMA SetUpAttach ==
    AttachInv /\ (OpenSettingsPanel \/ ApplyPreset \/ CloseOpenPopovers \/ EndSession) => AttachInv'
<1> SUFFICES ASSUME AttachInv,
                    OpenSettingsPanel \/ ApplyPreset \/ CloseOpenPopovers \/ EndSession
             PROVE  AttachInv'
  OBVIOUS
<1>1. TypeOK /\ BeforeUpload
  BY DEF AttachInv
<1>2. UNCHANGED <<library, picker, chips, pending, typed, job, waiting, seen>>
  BY DEF OpenSettingsPanel, ApplyPreset, CloseOpenPopovers, EndSession, site
<1>3. /\ pc \in {"panel", "preset", "popovers", "ready"}
      /\ pc' \in {"preset", "popovers", "ready", "closed"}
  BY DEF OpenSettingsPanel, ApplyPreset, CloseOpenPopovers, EndSession
<1>4. misses' \in 0 .. MaxMisses
  BY <1>1, Inputs DEF OpenSettingsPanel, ApplyPreset, CloseOpenPopovers, EndSession, Hit, Miss, TypeOK
<1>5. panel' \in BOOLEAN
  BY <1>1 DEF OpenSettingsPanel, ApplyPreset, CloseOpenPopovers, EndSession, site, TypeOK
<1>6. applied' \subseteq Range(Asked)
  BY <1>1 DEF OpenSettingsPanel, ApplyPreset, CloseOpenPopovers, EndSession, site, TypeOK
<1>7. TypeOK'
  BY <1>1, <1>2, <1>3, <1>4, <1>5, <1>6 DEF TypeOK
<1>8. BeforeUpload' /\ pc' \notin Attaching
  BY <1>1, <1>2, <1>3 DEF BeforeUpload, Attaching, AtAnEntry, AtADialog
<1> QED
  BY <1>2, <1>7, <1>8, SameOwned, NotAttaching

LEMMA BeginUploadAttach == AttachInv /\ BeginUpload => AttachInv'
<1> SUFFICES ASSUME AttachInv, BeginUpload PROVE AttachInv'
  OBVIOUS
<1>1. TypeOK /\ BeforeUpload
  BY DEF AttachInv
<1>2. /\ pc = "ready" /\ job.round < MaxRounds /\ UNCHANGED <<site, waiting, misses>>
      /\ UNCHANGED <<chips, pending>>
  BY DEF BeginUpload, site
<1>3. /\ job'.task = job.task /\ job'.at = 0
      /\ job' \in [task : Tasks, round : 0 .. MaxRounds, at : Nat, way : 1 .. Strategies]
  <2>1. job \in [task : Tasks, round : 0 .. MaxRounds, at : Nat, way : 1 .. Strategies]
    BY <1>1 DEF TypeOK
  <2>2. job' = [job EXCEPT !.round = job.round + 1, !.at = 0]
    BY DEF BeginUpload
  <2>3. job.round + 1 \in 0 .. MaxRounds
    BY <1>2, <2>1, Inputs
  <2> QED
    BY <2>1, <2>2, <2>3
<1>4. /\ seen'.belated = seen.belated /\ seen'.kept = seen.kept
      /\ DOMAIN seen' = {"escaped", "belated", "kept"}
  BY <1>1 DEF BeginUpload, TypeOK
<1>5. Assets' = Assets /\ P' = P
  BY <1>3, SamePlan
<1>6. pc' = IF Refused(Assets) THEN "closed" ELSE "trigger"
  BY DEF BeginUpload, Raise
<1>7. TypeOK'
  BY <1>1, <1>2, <1>3, <1>4, <1>6 DEF TypeOK, site
<1>8. CASE Refused(Assets)
  BY <1>2, <1>3, <1>6, <1>7, <1>8, ClosedAttach
<1>9. CASE ~Refused(Assets)
  <2>1. Len(P) \in Nat \ {0}
    BY <1>1, <1>9, CurrentFacts
  <2>2. pc' = "trigger" /\ Done' = 0
    BY <1>3, <1>6, <1>9 DEF Done, AtADialog
  <2>3. PointOK'
    BY <1>3, <1>5, <1>9, <2>1, <2>2 DEF PointOK, Attaching, AtAnEntry, AtADialog
  <2>4. InPlace(chips', seen', 0, P)
    BY <1>1, <1>2, <1>4, EmptyPlaced DEF InPlace, BeforeUpload
  <2>5. Accounted(chips', seen', 0, P)
    BY DEF Accounted
  <2>6. Books'
    BY <1>5, <2>2, <2>4, <2>5 DEF Books
  <2> QED
    BY <1>2, <1>3, <1>7, <2>2, <2>3, <2>6, SameOwned DEF AttachInv, BeforeUpload
<1> QED
  BY <1>8, <1>9

(* The steps that look at the dialog and touch no chip.                    *)
LEMMA LookAttach == AttachInv /\ (ClickTrigger \/ FindExisting \/ CheckReuse) => AttachInv'
<1> SUFFICES ASSUME AttachInv, ClickTrigger \/ FindExisting \/ CheckReuse PROVE AttachInv'
  OBVIOUS
<1>1. TypeOK
  BY DEF AttachInv
<1>2. UNCHANGED <<library, applied, panel, chips, pending, typed, waiting, seen>>
  BY DEF ClickTrigger, FindExisting, CheckReuse, site
<1>3. pc \in {"trigger", "find", "check"} /\ pc \in AtAnEntry /\ pc \in Attaching
  BY DEF ClickTrigger, FindExisting, CheckReuse, Attaching, AtAnEntry, AtADialog
<1>4. /\ ~Refused(Assets) /\ job.at \in Nat /\ job.at < Len(P) /\ P[job.at + 1].slot \in Slots
      /\ pc \in AtADialog => picker \in {P[job.at + 1].slot, "none"}
  BY <1>3, EntryFacts
<1>5. /\ job' \in [task : Tasks, round : 0 .. MaxRounds, at : Nat, way : 1 .. Strategies]
      /\ job'.task = job.task /\ job'.at = job.at
  <2>1. job \in [task : Tasks, round : 0 .. MaxRounds, at : Nat, way : 1 .. Strategies]
    BY <1>1 DEF TypeOK
  <2>2. CASE ClickTrigger
    BY <2>1, <2>2 DEF ClickTrigger
  <2>3. CASE FindExisting
    BY <2>1, <2>3, Inputs DEF FindExisting
  <2>4. CASE CheckReuse
    <3>1. UNCHANGED job \/ (job.way < Strategies /\ job' = [job EXCEPT !.way = @ + 1])
      BY <2>4 DEF CheckReuse, NextWay, MoreWays
    <3> QED
      BY <2>1, <3>1, Inputs
  <2> QED
    BY <2>2, <2>3, <2>4
<1>6. Assets' = Assets /\ P' = P
  BY <1>5, SamePlan
<1>7. misses' \in 0 .. MaxMisses
  BY <1>1, Inputs DEF ClickTrigger, FindExisting, CheckReuse, Hit, Miss, TypeOK
<1>8. \/ pc = "trigger" /\ pc' = "find" /\ picker' = P[job.at + 1].slot
      \/ pc = "find" /\ pc' \in {"reuse", "fresh"} /\ picker' = picker
      \/ pc = "check" /\ pc' \in {"reuse", "fresh"} /\ picker' = picker /\ picker # "none"
      \/ pc = "check" /\ pc' = "settle" /\ picker' = picker /\ picker = "none"
      \/ pc' = "closed" /\ picker' = picker
  BY DEF ClickTrigger, FindExisting, CheckReuse, NextWay, Raise, Current, P, site
<1>9. TypeOK'
  <2>1. picker' \in Slots \cup {"none"}
    BY <1>1, <1>4, <1>8 DEF TypeOK
  <2> QED
    BY <1>1, <1>2, <1>5, <1>7, <1>8, <2>1 DEF TypeOK
<1>10. CASE pc' = "closed"
  BY <1>2, <1>5, <1>9, <1>10, ClosedAttach
<1>11. CASE pc' # "closed"
  <2>1. Done' = Done
    BY <1>4, <1>5, <1>8, <1>11 DEF Done, AtADialog, Slots
  <2>2. Books'
    BY <1>2, <1>3, <1>5, <2>1, SameBooks
  <2>3. pc' \in {"find", "reuse", "fresh", "settle"} /\ picker' \in {P[job.at + 1].slot, "none"}
    BY <1>4, <1>8, <1>11 DEF AtADialog
  <2>4. PointOK'
    BY <1>4, <1>5, <1>6, <2>3 DEF PointOK, Attaching, AtAnEntry, AtADialog
  <2> QED
    BY <1>2, <1>5, <1>9, <2>2, <2>3, <2>4, SameOwned DEF AttachInv, BeforeUpload
<1> QED
  BY <1>10, <1>11

(* The chip of the current entry is there and its dialog is gone.          *)
LEMMA TakenAttach ==
    ASSUME AttachInv, pc \in {"reuse", "fresh"}, picker # "none",
           NEW x \in Thumbnails, x.name = P[job.at + 1].asset.name, Attach(x),
           UNCHANGED <<job, pending, seen>>, picker' = "none", pc' \in {"check", "closing"}
    PROVE  /\ DOMAIN chips' = Slots /\ \A s \in Slots : chips'[s] \in Seq(Thumbnails)
           /\ ChipsType' /\ OwnedChips' /\ OwnedPending'
           /\ PointOK' /\ BeforeUpload' /\ Books'
<1> DEFINE n == job.at + 1
<1>1. pc \in AtAnEntry /\ pc \in AtADialog
  BY DEF AtAnEntry, AtADialog
<1>2. /\ ~Refused(Assets) /\ job.at \in Nat /\ job.at < Len(P) /\ n \in 1 .. Len(P)
      /\ P[n].slot \in Slots /\ \A k \in 1 .. n : P[k].slot \in Slots
      /\ InPlace(chips, seen, Done, P) /\ Accounted(chips, seen, Done, P)
      /\ picker = P[n].slot
  BY <1>1, EntryFacts
<1>3. Done = job.at
  BY DEF Done
<1>4. Done' = n
  BY DEF Done, AtADialog
<1>5. Assets' = Assets /\ P' = P
  BY SamePlan
<1>6. chips' = [chips EXCEPT ![P[n].slot] = Append(@, x)] /\ chips \in [Slots -> Seq(Thumbnails)]
  BY <1>2 DEF Attach, AttachInv, ChipsType
<1> HIDE DEF n
<1>7. chips' \in [Slots -> Seq(Thumbnails)]
  BY <1>2, <1>6, AppendProperties
<1>8. Books'
  <2>1. InPlace(chips', seen, n, P) /\ Accounted(chips', seen, n, P)
    BY <1>2, <1>3, <1>6, AppendedBooks DEF n
  <2> QED
    BY <1>4, <1>5, <2>1 DEF Books
<1>9. OwnedChips'
  <2> SUFFICES ASSUME NEW s \in Slots, NEW i \in 1 .. Len(chips'[s])
               PROVE  Planned(s, chips'[s][i].name, P)
    BY <1>5 DEF OwnedChips
  <2>1. CASE s = P[n].slot
    <3>1. /\ chips'[s] = Append(chips[s], x) /\ Len(chips[s]) \in Nat
          /\ \A j \in 1 .. Len(chips[s]) : chips'[s][j] = chips[s][j]
          /\ chips'[s][Len(chips[s]) + 1] = x /\ Len(chips'[s]) = Len(chips[s]) + 1
      BY <1>6, <2>1, AppendProperties, LenProperties
    <3>2. CASE i \in 1 .. Len(chips[s])
      BY <3>1, <3>2 DEF AttachInv, OwnedChips
    <3>3. CASE i = Len(chips[s]) + 1
      BY <1>2, <2>1, <3>1, <3>3 DEF Planned, n
    <3> QED
      BY <3>1, <3>2, <3>3
  <2>2. CASE s # P[n].slot
    BY <1>6, <2>2 DEF AttachInv, OwnedChips
  <2> QED
    BY <2>1, <2>2
<1>10. OwnedPending'
  BY <1>5 DEF AttachInv, OwnedPending
<1>11. PointOK'
  BY <1>2, <1>5 DEF PointOK, Attaching, AtAnEntry, AtADialog
<1>12. BeforeUpload'
  BY DEF BeforeUpload
<1> QED
  BY <1>7, <1>8, <1>9, <1>10, <1>11, <1>12 DEF ChipsType

(* A click that has not taken is one for the current entry.                *)
LEMMA LateFacts ==
    ASSUME AttachInv, pc \in AtADialog, picker # "none",
           NEW x \in Thumbnails, x.name = P[job.at + 1].asset.name, UNCHANGED <<chips, job>>,
           pending' = pending \/ pending' = pending \cup {Late(x)}
    PROVE  /\ pending' \subseteq [slot : Slots, picture : Thumbnails, nth : 0 .. MaxMisses]
           /\ ChipsType' /\ OwnedChips' /\ OwnedPending'
<1>1. TypeOK /\ pc \in AtAnEntry
  BY DEF AttachInv, AtAnEntry
<1>2. /\ job.at + 1 \in 1 .. Len(P) /\ picker = P[job.at + 1].slot /\ picker \in Slots
  BY <1>1, EntryFacts
<1>3. Assets' = Assets /\ P' = P
  BY SamePlan
<1>4. Planned(Late(x).slot, Late(x).picture.name, P)
  BY <1>2 DEF Planned, Late
<1>5. Late(x) \in [slot : Slots, picture : Thumbnails, nth : 0 .. MaxMisses]
  BY <1>1, <1>2 DEF Late, TypeOK
<1>6. OwnedPending'
  BY <1>3, <1>4 DEF AttachInv, OwnedPending
<1>7. ChipsType' /\ OwnedChips'
  BY <1>3 DEF AttachInv, ChipsType, OwnedChips
<1> QED
  BY <1>1, <1>5, <1>6, <1>7 DEF TypeOK

LEMMA TryAttachExistingAttach == AttachInv /\ TryAttachExisting => AttachInv'
<1> SUFFICES ASSUME AttachInv, TryAttachExisting PROVE AttachInv'
  OBVIOUS
<1>1. /\ pc = "reuse" /\ UNCHANGED <<library, applied, panel, typed, waiting, seen>>
      /\ pc \in AtAnEntry /\ pc \in AtADialog /\ pc \in Attaching
  BY DEF TryAttachExisting, Attaching, AtAnEntry, AtADialog
<1>2. /\ ~Refused(Assets) /\ job.at \in Nat /\ job.at < Len(P)
      /\ picker \in {P[job.at + 1].slot, "none"}
  BY <1>1, EntryFacts
<1>3. TypeOK
  BY DEF AttachInv
<1>4. misses' \in 0 .. MaxMisses
  BY <1>3, Inputs DEF TryAttachExisting, Hit, Miss, TypeOK
<1>5. \A x \in Named(Current.asset.name) : x \in Thumbnails /\ x.name = P[job.at + 1].asset.name
  BY <1>3 DEF Named, Current, P, TypeOK
<1>6. \/ /\ picker # "none" /\ \E x \in Named(Current.asset.name) : Attach(x)
         /\ picker' = "none" /\ pc' = "check" /\ UNCHANGED <<pending, job>>
      \/ /\ picker # "none" /\ pc' = "check" /\ UNCHANGED <<chips, picker, job>>
         /\ \/ UNCHANGED pending
            \/ \E x \in Named(Current.asset.name) : pending' = pending \cup {Late(x)}
      \/ NextWay /\ UNCHANGED <<chips, picker, pending>>
  BY DEF TryAttachExisting
<1>7. CASE /\ picker # "none" /\ \E x \in Named(Current.asset.name) : Attach(x)
           /\ picker' = "none" /\ pc' = "check" /\ UNCHANGED <<pending, job>>
  <2>1. PICK x \in Thumbnails : x.name = P[job.at + 1].asset.name /\ Attach(x)
    BY <1>5, <1>7
  <2>2. /\ DOMAIN chips' = Slots /\ \A s \in Slots : chips'[s] \in Seq(Thumbnails)
        /\ ChipsType' /\ OwnedChips' /\ OwnedPending'
        /\ PointOK' /\ BeforeUpload' /\ Books'
    BY <1>1, <1>7, <2>1, TakenAttach
  <2>3. TypeOK'
    BY <1>1, <1>3, <1>4, <1>7, <2>2 DEF TypeOK
  <2> QED
    BY <2>2, <2>3 DEF AttachInv
<1>8. CASE /\ picker # "none" /\ pc' = "check" /\ UNCHANGED <<chips, picker, job>>
           /\ \/ UNCHANGED pending
              \/ \E x \in Named(Current.asset.name) : pending' = pending \cup {Late(x)}
  <2>1. /\ pending' \subseteq [slot : Slots, picture : Thumbnails, nth : 0 .. MaxMisses]
        /\ ChipsType' /\ OwnedChips' /\ OwnedPending'
    <3>1. CASE UNCHANGED pending
      BY <1>3, <1>8, <3>1, SameOwned DEF TypeOK
    <3>2. CASE \E x \in Named(Current.asset.name) : pending' = pending \cup {Late(x)}
      <4>1. PICK x \in Thumbnails :
               x.name = P[job.at + 1].asset.name /\ pending' = pending \cup {Late(x)}
        BY <1>5, <3>2
      <4> QED
        BY <1>1, <1>8, <4>1, LateFacts
    <3> QED
      BY <1>8, <3>1, <3>2
  <2>2. Done' = Done
    BY <1>1, <1>8 DEF Done, AtADialog
  <2>3. Books'
    BY <1>1, <1>8, <2>2, SameBooks
  <2>4. TypeOK'
    BY <1>1, <1>3, <1>4, <1>8, <2>1 DEF TypeOK
  <2>5. Assets' = Assets /\ P' = P
    BY <1>8, SamePlan
  <2>6. PointOK' /\ BeforeUpload'
    BY <1>2, <1>8, <2>5 DEF PointOK, BeforeUpload, Attaching, AtAnEntry, AtADialog
  <2> QED
    BY <2>1, <2>3, <2>4, <2>6 DEF AttachInv
<1>9. CASE NextWay /\ UNCHANGED <<chips, picker, pending>>
  <2>1. /\ pc' \in {"reuse", "fresh"}
        /\ UNCHANGED job \/ (job.way < Strategies /\ job' = [job EXCEPT !.way = @ + 1])
    BY <1>9 DEF NextWay, MoreWays
  <2>2. job \in [task : Tasks, round : 0 .. MaxRounds, at : Nat, way : 1 .. Strategies]
    BY <1>3 DEF TypeOK
  <2>3. /\ job' \in [task : Tasks, round : 0 .. MaxRounds, at : Nat, way : 1 .. Strategies]
        /\ job'.task = job.task /\ job'.at = job.at
    BY <2>1, <2>2, Inputs
  <2>4. Done' = Done
    BY <1>1, <1>9, <2>1, <2>3 DEF Done, AtADialog
  <2>5. Books'
    BY <1>1, <1>9, <2>3, <2>4, SameBooks
  <2>6. TypeOK'
    BY <1>1, <1>3, <1>4, <1>9, <2>1, <2>3 DEF TypeOK
  <2>7. Assets' = Assets /\ P' = P
    BY <2>3, SamePlan
  <2>8. PointOK' /\ BeforeUpload'
    BY <1>2, <1>9, <2>1, <2>3, <2>7 DEF PointOK, BeforeUpload, Attaching, AtAnEntry, AtADialog
  <2> QED
    BY <1>9, <2>3, <2>5, <2>6, <2>8, SameOwned DEF AttachInv
<1> QED
  BY <1>6, <1>7, <1>8, <1>9

LEMMA UploadImageAttach == AttachInv /\ UploadImage => AttachInv'
<1> SUFFICES ASSUME AttachInv, UploadImage PROVE AttachInv'
  OBVIOUS
<1> DEFINE x == [name |-> P[job.at + 1].asset.name, shows |-> P[job.at + 1].asset.shows]
<1>1. /\ pc = "fresh" /\ UNCHANGED <<applied, panel, typed, job, waiting, seen>>
      /\ pc \in AtAnEntry /\ pc \in AtADialog /\ pc \in Attaching
  BY DEF UploadImage, Attaching, AtAnEntry, AtADialog
<1>2. /\ ~Refused(Assets) /\ job.at \in Nat /\ job.at < Len(P) /\ x \in Thumbnails
      /\ picker \in {P[job.at + 1].slot, "none"}
  BY <1>1, EntryFacts
<1>3. TypeOK
  BY DEF AttachInv
<1>4. \/ /\ picker # "none" /\ library' = library \cup {x} /\ Attach(x)
         /\ picker' = "none" /\ pc' = "closing" /\ UNCHANGED pending
      \/ /\ picker # "none" /\ library' \in {library, library \cup {x}}
         /\ pending' \in {pending, pending \cup {Late(x)}}
         /\ pc' = "closing" /\ UNCHANGED <<chips, picker>>
      \/ pc' = "closed" /\ UNCHANGED <<library, chips, picker, pending>>
  BY DEF UploadImage, Raise, Current, P
<1>5. misses' \in 0 .. MaxMisses
  BY <1>3, Inputs DEF UploadImage, Hit, Miss, TypeOK
<1>6. Assets' = Assets /\ P' = P
  BY <1>1, SamePlan
<1>7. library' \subseteq Thumbnails
  BY <1>2, <1>3, <1>4 DEF TypeOK
<1>8. x.name = P[job.at + 1].asset.name
  OBVIOUS
<1> HIDE DEF x
<1>9. CASE /\ picker # "none" /\ Attach(x) /\ picker' = "none" /\ pc' = "closing"
           /\ UNCHANGED pending
  <2>1. /\ DOMAIN chips' = Slots /\ \A s \in Slots : chips'[s] \in Seq(Thumbnails)
        /\ ChipsType' /\ OwnedChips' /\ OwnedPending'
        /\ PointOK' /\ BeforeUpload' /\ Books'
    BY <1>1, <1>2, <1>8, <1>9, TakenAttach
  <2>2. TypeOK'
    BY <1>1, <1>3, <1>5, <1>7, <1>9, <2>1 DEF TypeOK
  <2> QED
    BY <2>1, <2>2 DEF AttachInv
<1>10. CASE /\ picker # "none" /\ pending' \in {pending, pending \cup {Late(x)}}
            /\ pc' = "closing" /\ UNCHANGED <<chips, picker>>
  <2>1. /\ pending' \subseteq [slot : Slots, picture : Thumbnails, nth : 0 .. MaxMisses]
        /\ ChipsType' /\ OwnedChips' /\ OwnedPending'
    BY <1>1, <1>2, <1>8, <1>10, LateFacts
  <2>2. Done' = Done
    BY <1>1, <1>10 DEF Done, AtADialog
  <2>3. Books'
    BY <1>1, <1>10, <2>2, SameBooks
  <2>4. TypeOK'
    BY <1>1, <1>3, <1>5, <1>7, <1>10, <2>1 DEF TypeOK
  <2>5. PointOK' /\ BeforeUpload'
    BY <1>1, <1>2, <1>6, <1>10 DEF PointOK, BeforeUpload, Attaching, AtAnEntry, AtADialog
  <2> QED
    BY <2>1, <2>3, <2>4, <2>5 DEF AttachInv
<1>11. CASE pc' = "closed" /\ UNCHANGED <<library, chips, picker, pending>>
  <2>1. TypeOK'
    BY <1>1, <1>3, <1>5, <1>11 DEF TypeOK
  <2> QED
    BY <1>1, <1>11, <2>1, ClosedAttach
<1> QED
  BY <1>4, <1>9, <1>10, <1>11

(* The dialog that did not close is given up on.                           *)
LEMMA CloseDialogAttach == AttachInv /\ CloseDialog => AttachInv'
<1> SUFFICES ASSUME AttachInv, CloseDialog PROVE AttachInv'
  OBVIOUS
<1>1. /\ pc = "closing" /\ pc' = "settle"
      /\ UNCHANGED <<library, applied, panel, chips, pending, typed, job, waiting>>
      /\ pc \in AtAnEntry /\ pc \in AtADialog /\ pc \in Attaching
  BY DEF CloseDialog, Attaching, AtAnEntry, AtADialog
<1>2. /\ ~Refused(Assets) /\ job.at \in Nat /\ job.at < Len(P)
      /\ InPlace(chips, seen, Done, P) /\ Accounted(chips, seen, Done, P)
  BY <1>1, EntryFacts
<1>3. TypeOK
  BY DEF AttachInv
<1>4. misses' \in 0 .. MaxMisses /\ picker' \in {picker, "none"}
  BY <1>3, Inputs DEF CloseDialog, Hit, Miss, TypeOK
<1>5. Assets' = Assets /\ P' = P
  BY <1>1, SamePlan
<1>6. \/ picker = "none" /\ UNCHANGED seen
      \/ picker # "none" /\ seen' = [seen EXCEPT !.escaped = @ \cup {P[job.at + 1].asset.shows}]
  BY DEF CloseDialog, Current, P
<1>7. /\ seen'.belated = seen.belated /\ seen'.kept = seen.kept
      /\ DOMAIN seen' = {"escaped", "belated", "kept"}
  BY <1>3, <1>6 DEF TypeOK
<1>8. TypeOK'
  BY <1>1, <1>3, <1>4, <1>7 DEF TypeOK
<1>9. Done' = job.at + 1
  BY <1>1 DEF Done
<1>10. Books'
  <2>1. CASE picker = "none" /\ UNCHANGED seen
    <3>1. Done = job.at + 1
      BY <1>1, <2>1 DEF Done, AtADialog
    <3> QED
      BY <1>1, <1>9, <2>1, <3>1, SameBooks
  <2>2. CASE picker # "none" /\ seen' = [seen EXCEPT !.escaped = @ \cup {P[job.at + 1].asset.shows}]
    <3>1. Done = job.at
      BY <1>1, <2>2 DEF Done
    <3>2. seen'.escaped = seen.escaped \cup {P[job.at + 1].asset.shows}
      BY <1>3, <2>2 DEF TypeOK
    <3>3. InPlace(chips, seen', job.at + 1, P) /\ Accounted(chips, seen', job.at + 1, P)
      BY <1>2, <1>7, <3>1, <3>2, DealtWithBooks
    <3> QED
      BY <1>1, <1>5, <1>9, <3>3 DEF Books
  <2> QED
    BY <1>6, <2>1, <2>2
<1>11. PointOK' /\ BeforeUpload'
  BY <1>1, <1>2, <1>5 DEF PointOK, BeforeUpload, Attaching, AtAnEntry, AtADialog
<1> QED
  BY <1>1, <1>8, <1>10, <1>11, SameOwned DEF AttachInv

(* On to the next entry, or to the prompt when there is none.              *)
LEMMA NextAssetAttach == AttachInv /\ NextAsset => AttachInv'
<1> SUFFICES ASSUME AttachInv, NextAsset PROVE AttachInv'
  OBVIOUS
<1>1. /\ pc = "settle" /\ UNCHANGED <<site, waiting, misses, seen>> /\ UNCHANGED <<chips, pending>>
      /\ job' = [job EXCEPT !.at = @ + 1]
      /\ pc' = IF job.at + 1 < Len(P) THEN "trigger" ELSE "paste"
      /\ pc \in AtAnEntry /\ pc \in Attaching
  BY DEF NextAsset, MoreAfter, P, site, Attaching, AtAnEntry, AtADialog
<1>2. ~Refused(Assets) /\ job.at < Len(P) /\ job.at \in Nat /\ Len(P) \in Nat
  BY <1>1, EntryFacts
<1>3. TypeOK
  BY DEF AttachInv
<1>4. /\ job' \in [task : Tasks, round : 0 .. MaxRounds, at : Nat, way : 1 .. Strategies]
      /\ job'.task = job.task /\ job'.at = job.at + 1
  BY <1>1, <1>3 DEF TypeOK
<1>5. Assets' = Assets /\ P' = P
  BY <1>4, SamePlan
<1>6. Done = job.at + 1 /\ Done' = job.at + 1
  BY <1>1, <1>4 DEF Done, AtADialog
<1>7. TypeOK'
  BY <1>1, <1>3, <1>4 DEF TypeOK, site
<1>8. PointOK'
  <2>1. CASE job.at + 1 < Len(P)
    BY <1>1, <1>2, <1>4, <1>5, <2>1 DEF PointOK, Attaching, AtAnEntry, AtADialog
  <2>2. CASE ~(job.at + 1 < Len(P))
    <3>1. pc' = "paste" /\ job'.at = Len(P)
      BY <1>1, <1>2, <1>4, <2>2
    <3> QED
      BY <1>2, <1>5, <3>1 DEF PointOK, Attaching, AtAnEntry, AtADialog
  <2> QED
    BY <2>1, <2>2
<1>9. Books'
  BY <1>1, <1>4, <1>6, SameBooks
<1>10. BeforeUpload'
  BY <1>1 DEF BeforeUpload
<1> QED
  BY <1>1, <1>4, <1>7, <1>8, <1>9, <1>10, SameOwned DEF AttachInv

(* A late click moves the driver in no way but that its dialog may be gone.*)
LEMMA LateClickAttach == AttachInv /\ LateClick => AttachInv'
<1> SUFFICES ASSUME AttachInv, LateClick PROVE AttachInv'
  OBVIOUS
<1>1. UNCHANGED <<applied, panel, typed, pc, job, waiting, misses>>
  BY DEF LateClick
<1>2. PICK e \in pending :
         /\ pending' = pending \ {e} /\ library' = library \cup {e.picture}
         /\ chips' = [chips EXCEPT ![e.slot] = Append(@, e.picture)]
         /\ picker' \in IF picker = e.slot THEN {picker, "none"} ELSE {picker}
         /\ seen' = [seen EXCEPT !.belated = @ \cup {e.slot}]
  BY DEF LateClick
<1>3. TypeOK /\ chips \in [Slots -> Seq(Thumbnails)]
  BY DEF AttachInv, ChipsType
<1>4. e.slot \in Slots /\ e.picture \in Thumbnails
  BY <1>3 DEF TypeOK
<1>5. /\ seen'.escaped = seen.escaped /\ seen'.kept = seen.kept
      /\ seen'.belated = seen.belated \cup {e.slot}
      /\ DOMAIN seen' = {"escaped", "belated", "kept"}
  BY <1>2, <1>3 DEF TypeOK
<1>6. chips' \in [Slots -> Seq(Thumbnails)]
  BY <1>2, <1>3, <1>4, AppendProperties
<1>7. TypeOK'
  <2>1. DOMAIN chips' = Slots /\ \A s \in Slots : chips'[s] \in Seq(Thumbnails)
    BY <1>6
  <2>2. library' \subseteq Thumbnails /\ picker' \in Slots \cup {"none"}
    BY <1>2, <1>3, <1>4 DEF TypeOK
  <2>3. pending' \subseteq [slot : Slots, picture : Thumbnails, nth : 0 .. MaxMisses]
    BY <1>2, <1>3 DEF TypeOK
  <2>4. seen'.belated \subseteq Slots /\ seen'.kept \in BOOLEAN
    BY <1>3, <1>4, <1>5 DEF TypeOK
  <2> QED
    BY <1>1, <1>3, <1>5, <2>1, <2>2, <2>3, <2>4 DEF TypeOK
<1>8. Assets' = Assets /\ P' = P
  BY <1>1, SamePlan
<1>9. OwnedChips'
  <2> SUFFICES ASSUME NEW s \in Slots, NEW i \in 1 .. Len(chips'[s])
               PROVE  Planned(s, chips'[s][i].name, P)
    BY <1>8 DEF OwnedChips
  <2>1. CASE s = e.slot
    <3>1. /\ chips'[s] = Append(chips[s], e.picture) /\ Len(chips[s]) \in Nat
          /\ \A j \in 1 .. Len(chips[s]) : chips'[s][j] = chips[s][j]
          /\ chips'[s][Len(chips[s]) + 1] = e.picture /\ Len(chips'[s]) = Len(chips[s]) + 1
      BY <1>2, <1>3, <1>4, <2>1, AppendProperties, LenProperties
    <3>2. CASE i \in 1 .. Len(chips[s])
      BY <3>1, <3>2 DEF AttachInv, OwnedChips
    <3>3. CASE i = Len(chips[s]) + 1
      BY <2>1, <3>1, <3>3 DEF AttachInv, OwnedPending
    <3> QED
      BY <3>1, <3>2, <3>3
  <2>2. CASE s # e.slot
    BY <1>2, <1>3, <2>2 DEF AttachInv, OwnedChips
  <2> QED
    BY <2>1, <2>2
<1>10. OwnedPending'
  BY <1>2, <1>8 DEF AttachInv, OwnedPending
<1>11. BeforeUpload'
  BY <1>1, <1>2, <1>3, <1>5 DEF AttachInv, BeforeUpload
<1>12. CASE pc \notin Attaching
  BY <1>1, <1>6, <1>7, <1>9, <1>10, <1>11, <1>12, NotAttaching DEF ChipsType
<1>13. CASE pc \in Attaching
  <2>1. /\ ~Refused(Assets) /\ job.at \in Nat /\ Len(P) \in Nat
        /\ \A k \in 1 .. Len(P) : P[k].slot \in Slots
    BY <1>3, <1>13, CurrentFacts DEF AttachInv, PointOK
  <2>2. InPlace(chips, seen, Done, P) /\ Accounted(chips, seen, Done, P)
    BY <1>13 DEF AttachInv, Books
  <2>3. Done \in Nat /\ \A k \in 1 .. Done : k \in 1 .. Len(P)
    <3>1. pc \in AtAnEntry => job.at < Len(P)
      BY DEF AttachInv, PointOK
    <3>2. pc \in {"paste", "create"} => job.at = Len(P)
      BY DEF AttachInv, PointOK
    <3>3. pc \in AtAnEntry \/ pc \in {"paste", "create"}
      BY <1>13 DEF Attaching
    <3> QED
      BY <2>1, <3>1, <3>2, <3>3 DEF Done, AtAnEntry, AtADialog
  <2>4. InPlace(chips', seen', Done, P) /\ Accounted(chips', seen', Done, P)
    <3>1. \A k \in 1 .. Done : P[k].slot \in Slots
      BY <2>1, <2>3
    <3> QED
      BY <1>2, <1>3, <1>4, <1>5, <2>2, <2>3, <3>1, BelatedBooks
  <2>5. PointOK'
    BY <1>1, <1>2, <1>8 DEF AttachInv, PointOK
  <2>6. Books'
    <3>1. CASE Done' = Done
      BY <1>8, <2>4, <3>1 DEF Books
    <3>2. CASE Done' # Done
      <4>1. /\ pc \in AtADialog /\ picker = e.slot /\ Done = job.at /\ Done' = job.at + 1
        BY <1>1, <1>2, <1>4, <3>2 DEF Done, Slots
      <4>2. P[job.at + 1].slot = e.slot
        BY <1>4, <4>1 DEF AttachInv, PointOK, Slots
      <4>3. InPlace(chips', seen', job.at + 1, P) /\ Accounted(chips', seen', job.at + 1, P)
        BY <1>5, <2>1, <2>4, <4>1, <4>2, DealtWithBooks
      <4> QED
        BY <1>8, <4>1, <4>3 DEF Books
    <3> QED
      BY <3>1, <3>2
  <2> QED
    BY <1>6, <1>7, <1>9, <1>10, <1>11, <2>5, <2>6 DEF AttachInv, ChipsType
<1> QED
  BY <1>12, <1>13

LEMMA PastePromptAttach == AttachInv /\ PastePrompt => AttachInv'
<1> SUFFICES ASSUME AttachInv, PastePrompt PROVE AttachInv'
  OBVIOUS
<1>1. /\ pc = "paste" /\ pc' \in {"create", "closed"}
      /\ UNCHANGED <<library, applied, panel, picker, chips, pending, job, waiting, seen>>
      /\ typed' \in {typed, job.task}
  BY DEF PastePrompt, Raise
<1>2. TypeOK /\ PointOK
  BY DEF AttachInv
<1>3. misses' \in 0 .. MaxMisses
  BY <1>2, Inputs DEF PastePrompt, Hit, Miss, TypeOK
<1>4. Assets' = Assets /\ P' = P
  BY <1>1, SamePlan
<1>5. TypeOK'
  BY <1>1, <1>2, <1>3 DEF TypeOK
<1>6. CASE pc' = "closed"
  BY <1>1, <1>5, <1>6, ClosedAttach
<1>7. CASE pc' = "create"
  <2>1. Done' = Done /\ pc \in Attaching
    BY <1>1, <1>7 DEF Done, Attaching, AtADialog
  <2>2. Books'
    BY <1>1, <2>1, SameBooks
  <2>3. PointOK'
    BY <1>1, <1>2, <1>4, <1>7 DEF PointOK, Attaching, AtAnEntry, AtADialog
  <2> QED
    BY <1>1, <1>5, <1>7, <2>2, <2>3, SameOwned DEF AttachInv, BeforeUpload
<1> QED
  BY <1>1, <1>6, <1>7

LEMMA TriggerGenerationAttach == AttachInv /\ TriggerGeneration => AttachInv'
<1> SUFFICES ASSUME AttachInv, TriggerGeneration PROVE AttachInv'
  OBVIOUS
<1>1. /\ UNCHANGED <<library, applied, panel, picker, pending, job, waiting>>
      /\ typed' \in {typed, "none"}
      /\ \/ pc' = "ready" /\ chips' = NoChips /\ seen' = NothingSeen
         \/ pc' = "ready" /\ chips' = chips /\ seen' = [seen EXCEPT !.kept = TRUE]
         \/ pc' = "closed" /\ chips' = chips /\ seen' = seen
  BY DEF TriggerGeneration, Raise
<1>2. TypeOK /\ ChipsType
  BY DEF AttachInv
<1>3. misses' \in 0 .. MaxMisses
  BY <1>2, Inputs DEF TriggerGeneration, Hit, Miss, TypeOK
<1>4. P' = P
  BY <1>1, SamePlan
<1>5. ChipsType' /\ DOMAIN chips' = Slots /\ \A s \in Slots : chips'[s] \in Seq(Thumbnails)
  BY <1>1, <1>2, EmptyChips DEF ChipsType
<1>6. OwnedChips' /\ OwnedPending'
  BY <1>1, <1>4, EmptyChips DEF AttachInv, OwnedChips, OwnedPending
<1>7. /\ DOMAIN seen' = {"escaped", "belated", "kept"}
      /\ seen'.belated \subseteq Slots /\ seen'.kept \in BOOLEAN
  <2>1. CASE seen' = NothingSeen
    BY <2>1 DEF NothingSeen
  <2>2. CASE seen' = [seen EXCEPT !.kept = TRUE]
    BY <1>2, <2>2 DEF TypeOK
  <2>3. CASE seen' = seen
    BY <1>2, <2>3 DEF TypeOK
  <2> QED
    BY <1>1, <2>1, <2>2, <2>3
<1>8. TypeOK'
  BY <1>1, <1>2, <1>3, <1>5, <1>7 DEF TypeOK
<1>9. BeforeUpload'
  <2>1. CASE chips' = NoChips
    BY <2>1, EmptyChips DEF BeforeUpload
  <2>2. CASE seen' = [seen EXCEPT !.kept = TRUE]
    BY <1>2, <2>2 DEF BeforeUpload, TypeOK
  <2>3. CASE pc' = "closed"
    BY <2>3 DEF BeforeUpload
  <2> QED
    BY <1>1, <2>1, <2>2, <2>3
<1>10. pc' \notin Attaching
  BY <1>1 DEF Attaching, AtAnEntry, AtADialog
<1> QED
  BY <1>5, <1>6, <1>8, <1>9, <1>10, NotAttaching

LEMMA StutterAttach == AttachInv /\ UNCHANGED vars => AttachInv'
<1> SUFFICES ASSUME AttachInv, UNCHANGED vars PROVE AttachInv'
  OBVIOUS
<1>1. /\ UNCHANGED <<library, applied, panel, picker, chips, pending, typed>>
      /\ UNCHANGED <<pc, job, waiting, misses, seen>>
  BY DEF vars
<1>2. Assets' = Assets /\ P' = P
  BY <1>1, SamePlan
<1>3. Done' = Done
  BY <1>1 DEF Done
<1>4. TypeOK'
  BY <1>1 DEF AttachInv, TypeOK
<1>5. PointOK' /\ BeforeUpload'
  BY <1>1, <1>2 DEF AttachInv, PointOK, BeforeUpload
<1>6. Books'
  BY <1>1, <1>2, <1>3 DEF AttachInv, Books
<1> QED
  BY <1>1, <1>4, <1>5, <1>6, SameOwned DEF AttachInv

(* The invariant holds of every session of every task.                     *)
LEMMA AttachInvariant == Spec => []AttachInv
<1>1. AttachInv /\ [Next]_vars => AttachInv'
  BY StartSessionAttach, SetUpAttach, BeginUploadAttach, LookAttach, TryAttachExistingAttach,
     UploadImageAttach, CloseDialogAttach, NextAssetAttach, LateClickAttach, PastePromptAttach,
     TriggerGenerationAttach, StutterAttach, Zenon
     DEF Next
<1> QED
  BY <1>1, InitAttach, PTL DEF Spec

-----------------------------------------------------------------------------
(* Whatever the tasks and their pictures, the driver's state has its type, *)
(* and no thumbnail is clicked in more ways than there are, also in a      *)
(* session that raises half way (_try_attach_existing, 880-910).           *)
THEOREM AttachTyped == Spec => []TypeOK
<1>1. AttachInv => TypeOK
  BY DEF AttachInv
<1> QED
  BY <1>1, AttachInvariant, PTL

(* When Create is clicked (trigger_generation, 1487-1564) every slot holds *)
(* chips of its own assets only; and in their order and none twice, unless *)
(* a click in that slot took late or a generation had failed and left its  *)
(* chips (862-910, 1657-1659).                                             *)
THEOREM ChipsWanted == Spec => []ChipsAreWanted
<1>1. ASSUME AttachInv, pc = "create"
      PROVE  /\ TypeOK /\ PlanOf(Assets, P)
             /\ Len(P) \in Nat /\ InPlace(chips, seen, Len(P), P)
             /\ OwnedChips
  <2>1. TypeOK /\ ~Refused(Assets) /\ Done = Len(P) /\ InPlace(chips, seen, Done, P)
    BY <1>1 DEF AttachInv, PointOK, Books, Attaching, AtAnEntry, AtADialog, Done
  <2>2. job.task \in Tasks /\ Len(P) \in Nat
    BY <2>1, CurrentFacts
  <2> QED
    BY <1>1, <2>1, <2>2, PlanFacts DEF Assets, P, AttachInv
<1>2. ASSUME AttachInv, pc = "create", NEW s \in Slots
      PROVE  Owned(s)
  <2>1. PICK pos \in [1 .. Len(P) -> 1 .. Len(Assets)] :
           \A k \in 1 .. Len(P) : P[k].asset = Assets[pos[k]] /\ Belongs(Assets[pos[k]], P[k].slot)
    BY <1>1, <1>2, Zenon DEF PlanOf
  <2>2. ASSUME NEW i \in 1 .. Len(chips[s])
        PROVE  \E a \in 1 .. Len(Assets) :
                  Belongs(Assets[a], s) /\ Assets[a].name = chips[s][i].name
    <3>1. PICK k \in 1 .. Len(P) : P[k].slot = s /\ P[k].asset.name = chips[s][i].name
      BY <1>1, <1>2 DEF OwnedChips, Planned
    <3>2. pos[k] \in 1 .. Len(Assets)
      BY <2>1
    <3> QED
      BY <2>1, <3>1, <3>2
  <2> QED
    BY <2>2 DEF Owned
<1>3. ASSUME AttachInv, pc = "create", NEW s \in Slots, s \notin seen.belated, ~seen.kept
      PROVE  InOrder(s)
  <2>1. Placed(chips[s], s, Len(P), P) /\ Len(chips[s]) \in Nat
    BY <1>1, <1>3, LenProperties DEF InPlace, TypeOK
  <2>2. PICK pos \in [1 .. Len(P) -> 1 .. Len(Assets)] :
           /\ \A k \in 1 .. Len(P) : P[k].asset = Assets[pos[k]] /\ Belongs(Assets[pos[k]], P[k].slot)
           /\ \A j, k \in 1 .. Len(P) : (j < k /\ P[j].slot = P[k].slot) => pos[j] < pos[k]
    BY <1>1, <1>3, Zenon DEF PlanOf
  <2>3. PICK entry \in [1 .. Len(chips[s]) -> 1 .. Len(P)] :
           /\ Forwards(entry, Len(chips[s]))
           /\ \A i \in 1 .. Len(chips[s]) :
                 P[entry[i]].slot = s /\ P[entry[i]].asset.name = chips[s][i].name
    BY <2>1 DEF Placed
  <2> DEFINE m == Len(chips[s])
             from == [i \in 1 .. m |-> pos[entry[i]]]
  <2>4. from \in [1 .. m -> 1 .. Len(Assets)]
    OBVIOUS
  <2>5. \A i \in 1 .. m : from[i] = pos[entry[i]] /\ entry[i] \in 1 .. Len(P)
    OBVIOUS
  <2> HIDE DEF from
  <2>6. Forwards(from, m)
    <3> SUFFICES ASSUME NEW i \in 1 .. m, NEW j \in 1 .. m, i < j PROVE from[i] < from[j]
      BY DEF Forwards
    <3>1. entry[i] < entry[j]
      BY <2>3 DEF Forwards
    <3>2. P[entry[i]].slot = P[entry[j]].slot
      BY <2>3
    <3> QED
      BY <2>2, <2>5, <3>1, <3>2
  <2>7. ASSUME NEW i \in 1 .. m
        PROVE  Belongs(Assets[from[i]], s) /\ Assets[from[i]].name = chips[s][i].name
    BY <2>2, <2>3, <2>5
  <2> QED
    BY <2>4, <2>6, <2>7 DEF InOrder
<1>4. AttachInv => ChipsAreWanted
  BY <1>2, <1>3, Zenon DEF ChipsAreWanted
<1> QED
  BY <1>4, AttachInvariant, PTL

(* When Create is clicked a picture of the task is missing only if its     *)
(* dialog had to be closed with Escape in this round (829-837), or if the  *)
(* dialog closed because another click took in its slot: every other       *)
(* failure raised before.                                                  *)
THEOREM MissingEscaped == Spec => []MissingWasEscaped
<1>1. ASSUME AttachInv, pc = "create", NEW i \in 1 .. Len(Assets)
      PROVE  \/ Assets[i].shows \in seen.escaped
             \/ \E s \in Slots :
                   /\ Belongs(Assets[i], s)
                   /\ \/ s \in seen.belated
                      \/ \E k \in 1 .. Len(chips[s]) : chips[s][k].name = Assets[i].name
  <2>1. TypeOK /\ ~Refused(Assets) /\ Done = Len(P) /\ Accounted(chips, seen, Done, P)
    BY <1>1 DEF AttachInv, PointOK, Books, Attaching, AtAnEntry, AtADialog, Done
  <2>2. PlanOf(Assets, P)
    BY <2>1, PlanFacts DEF Assets, P, TypeOK
  <2>3. PICK k \in 1 .. Len(P) : P[k].asset = Assets[i]
    BY <2>2 DEF PlanOf
  <2>4. P[k].slot \in Slots /\ Belongs(Assets[i], P[k].slot)
    BY <2>2, <2>3 DEF PlanOf
  <2> QED
    BY <2>1, <2>3, <2>4 DEF Accounted, Shown
<1>2. AttachInv => MissingWasEscaped
  BY <1>1, Zenon DEF MissingWasEscaped
<1> QED
  BY <1>2, AttachInvariant, PTL
=============================================================================
