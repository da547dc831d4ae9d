------------------------- MODULE ProfileStoreProofs -------------------------
(***************************************************************************)
(* Theorems about ProfileStore, for every set of groups, links and         *)
(* subscriptions, any files to begin with and any number of commands: the  *)
(* commands keep the book of links, and the gateway and .active agree.     *)
(***************************************************************************)
EXTENDS ProfileStore, SequenceTheorems, FiniteSetTheorems, TLAPS

-----------------------------------------------------------------------------
(* An edit of a page.                                                      *)

Without(s, i) == SubSeq(s, 1, i - 1) \o SubSeq(s, i + 1, Len(s))

Edited(x, y) ==
    \/ y = x
    \/ x \in {None, Torn} /\ \/ y = [links |-> <<>>, subs |-> <<>>]
                             \/ \E l \in Links : y = [links |-> <<l>>, subs |-> <<>>]
    \/ /\ x \in Content
       /\ \/ \E l \in Links : y = [x EXCEPT !.links = Append(@, l)]
          \/ \E i \in DOMAIN x.links : y = [x EXCEPT !.links = Without(@, i)]
          \/ y = [x EXCEPT !.links = <<>>]
          \/ \E all \in Seq(Links) \ {<<>>} : x.subs # <<>> /\ y = [x EXCEPT !.links = all]
          \/ \E u \in URLs : /\ \A i \in DOMAIN x.subs : x.subs[i] # u
                             /\ y = [x EXCEPT !.subs = Append(@, u)]
          \/ \E i \in DOMAIN x.subs : y = [x EXCEPT !.subs = Without(@, i)]

BookType == [Groups -> Content \cup {None, Torn}]

LEMMA PagesDiffer == None \notin Content /\ Torn \notin Content /\ None # Torn
  BY ProfileStoreAssumption DEF ProfileStoreAssumption

LEMMA EditIsNext ==
    ASSUME TheBook \in BookType, NEW g \in Groups, NEW y,
           TheBook' = [TheBook EXCEPT ![g] = y], Edited(TheBook[g], y)
    PROVE  [Book!Next]_TheBook
  <1> USE PagesDiffer DEF Book!Written, Book!Turn
  <1>1. TheBook[g] \in Content \cup {None, Torn} /\ TheBook'[g] = y
    BY DEF BookType
  <1>2. g \in Book!Written <=> TheBook[g] \in Content
    BY <1>1
  <1>3. Book!Turn(g, y)
    OBVIOUS
  <1>4. CASE y = TheBook[g]
    <2>1. TheBook' = TheBook
      BY <1>4 DEF BookType
    <2> QED
      BY <2>1
  <1>5. CASE TheBook[g] \in {None, Torn} /\ y = [links |-> <<>>, subs |-> <<>>]
    <2>1. Book!Create(g)
      BY <1>2, <1>3, <1>5 DEF Book!Create, Book!Page
    <2> QED
      BY <2>1 DEF Book!Next
  <1>6. ASSUME TheBook[g] \in {None, Torn}, NEW l \in Links,
               y = [links |-> <<l>>, subs |-> <<>>]
        PROVE  Book!Next
    <2>1. Book!Start(g)
      BY <1>2, <1>3, <1>6 DEF Book!Start, Book!Page
    <2> QED
      BY <2>1 DEF Book!Next
  <1>7. CASE TheBook[g] \in Content
    <2>1. g \in Book!Written
      BY <1>2, <1>7
    <2>2. ASSUME NEW l \in Links, y = [TheBook[g] EXCEPT !.links = Append(@, l)]
          PROVE  Book!Next
      <3>1. Book!Add(g)
        BY <1>3, <2>1, <2>2 DEF Book!Add
      <3> QED
        BY <3>1 DEF Book!Next
    <2>3. ASSUME NEW i \in DOMAIN TheBook[g].links,
                 y = [TheBook[g] EXCEPT !.links = Without(@, i)]
          PROVE  Book!Next
      <3>1. Book!Remove(g)
        BY <1>3, <2>1, <2>3 DEF Book!Remove, Without
      <3> QED
        BY <3>1 DEF Book!Next
    <2>4. CASE y = [TheBook[g] EXCEPT !.links = <<>>]
      <3>1. Book!Clear(g)
        BY <1>3, <2>1, <2>4 DEF Book!Clear
      <3> QED
        BY <3>1 DEF Book!Next
    <2>5. ASSUME NEW all \in Seq(Links) \ {<<>>}, TheBook[g].subs # <<>>,
                 y = [TheBook[g] EXCEPT !.links = all]
          PROVE  Book!Next
      <3>1. y \in Content /\ y.links = all
        BY <1>7, <2>5 DEF Content
      <3>2. Book!Refresh(g)
        BY <1>1, <1>3, <2>1, <2>5, <3>1 DEF Book!Refresh
      <3> QED
        BY <3>2 DEF Book!Next
    <2>6. ASSUME NEW u \in URLs, \A i \in DOMAIN TheBook[g].subs : TheBook[g].subs[i] # u,
                 y = [TheBook[g] EXCEPT !.subs = Append(@, u)]
          PROVE  Book!Next
      <3>1. Book!Subscribe(g)
        BY <1>3, <2>1, <2>6 DEF Book!Subscribe
      <3> QED
        BY <3>1 DEF Book!Next
    <2>7. ASSUME NEW i \in DOMAIN TheBook[g].subs,
                 y = [TheBook[g] EXCEPT !.subs = Without(@, i)]
          PROVE  Book!Next
      <3>1. Book!Unsubscribe(g)
        BY <1>3, <2>1, <2>7 DEF Book!Unsubscribe, Without
      <3> QED
        BY <3>1 DEF Book!Next
    <2> QED
      BY <1>4, <1>7, <2>2, <2>3, <2>4, <2>5, <2>6, <2>7, PagesDiffer DEF Edited
  <1> QED
    BY <1>4, <1>5, <1>6, <1>7, PagesDiffer DEF Edited

(* A page turned into a copy of another, thrown away, or lost.             *)
LEMMA CopyIsNext ==
    ASSUME NEW g \in Groups, NEW h \in Groups, TheBook[h] = None, TheBook[g] \in Content,
           TheBook' = [TheBook EXCEPT ![h] = TheBook[g]]
    PROVE  Book!Next
  <1>1. g \in Book!Written
    BY PagesDiffer DEF Book!Written
  <1>2. Book!Copy(g, h)
    BY <1>1 DEF Book!Copy, Book!Turn
  <1> QED
    BY <1>2 DEF Book!Next

LEMMA DropIsNext ==
    ASSUME TheBook \in BookType, NEW g \in Groups, TheBook' = [TheBook EXCEPT ![g] = None]
    PROVE  [Book!Next]_TheBook
  <1>1. CASE TheBook[g] = None
    <2>1. TheBook' = TheBook
      BY <1>1 DEF BookType
    <2> QED
      BY <2>1
  <1>2. CASE TheBook[g] # None
    <2>1. Book!Drop(g)
      BY <1>2 DEF Book!Drop, Book!Turn
    <2> QED
      BY <2>1 DEF Book!Next
  <1> QED
    BY <1>1, <1>2

LEMMA LoseIsNext ==
    ASSUME NEW g \in Groups, TheBook' = [TheBook EXCEPT ![g] = Torn]
    PROVE  Book!Next
  <1>1. Book!Lose(g)
    BY DEF Book!Lose, Book!Turn
  <1> QED
    BY <1>1 DEF Book!Next

-----------------------------------------------------------------------------
(* The writes of a command.                                                *)

(* Each page that is to be put is an edit of the page that will be there:  *)
(* the one in the book, or the one that the same command has just put. A   *)
(* rename starts with a copy.                                              *)
Planned(b, w) ==
    \A k \in DOMAIN w : w[k].op = "put" =>
        \/ /\ Edited(b[w[k].group], PageOf(w[k].page))
           /\ \A j \in 1..(k - 1) : w[j].op = "put" /\ w[j].group # w[k].group
        \/ /\ k > 1 /\ w[k - 1].op = "put" /\ w[k - 1].group = w[k].group
           /\ Edited(PageOf(w[k - 1].page), PageOf(w[k].page))
        \/ /\ k = 1 /\ b[w[k].group] = None
           /\ \E g \in Groups : b[g] = PageOf(w[k].page)

(* .active is to name the link that is meant.                              *)
Honest(w) == \A k \in DOMAIN w : w[k].op = "choose" => w[k].choice = w[k].meant

Good(b, w) == w \in Seq(Writes) /\ w # <<>> /\ Honest(w) /\ Planned(b, w)

LEMMA WriteTypes ==
    ASSUME NEW w \in Writes
    PROVE  /\ w.op \in {"put", "drop", "choose", "retarget"}
           /\ w.op = "put" => w.group \in Groups /\ w.page \in Page
           /\ w.op = "drop" => w.group \in Groups
           /\ w.op = "choose" => w.choice \in Chosen /\ w.meant \in Chosen
           /\ w.op = "retarget" => w.group \in Groups /\ w.to \in Groups
  BY DEF Writes

LEMMA PutType == ASSUME NEW g \in Groups, NEW p \in Page
                 PROVE  Put(g, p) \in Writes /\ Put(g, p).op = "put"
                        /\ Put(g, p).group = g /\ Put(g, p).page = p
  BY DEF Put, Writes

LEMMA PageOfPage == ASSUME NEW p \in Page
                    PROVE  /\ PageOf(p) = [links |-> p.links, subs |-> p.subs]
                           /\ PageOf(p) \in Content /\ p \notin {None, Torn}
  <1>1. p \notin {None, Torn}
    BY ProfileStoreAssumption DEF ProfileStoreAssumption
  <1> QED
    BY <1>1 DEF PageOf, Page, Content

(* A command of one write.                                                 *)
LEMMA OnePut ==
    ASSUME NEW b, NEW g \in Groups, NEW p \in Page, Edited(b[g], PageOf(p))
    PROVE  Good(b, <<Put(g, p)>>)
  <1> DEFINE w == <<Put(g, p)>>
  <1>1. w \in Seq(Writes) /\ w # <<>> /\ DOMAIN w = {1} /\ w[1] = Put(g, p)
    BY PutType
  <1>2. w[1].op = "put" /\ w[1].group = g /\ w[1].page = p
    BY <1>1, PutType
  <1> HIDE DEF w
  <1>3. Honest(w) /\ Planned(b, w)
    BY <1>1, <1>2 DEF Honest, Planned
  <1> QED
    BY <1>1, <1>3 DEF Good, w

LEMMA OneOther ==
    ASSUME NEW b, NEW x \in Writes, x.op # "put", x.op = "choose" => x.choice = x.meant
    PROVE  Good(b, <<x>>)
  <1> DEFINE w == <<x>>
  <1>1. w \in Seq(Writes) /\ w # <<>> /\ DOMAIN w = {1} /\ w[1] = x
    OBVIOUS
  <1> HIDE DEF w
  <1>3. Honest(w) /\ Planned(b, w)
    BY <1>1 DEF Honest, Planned
  <1> QED
    BY <1>1, <1>3 DEF Good, w

(* Pages of different groups, one edit each.                               *)
LEMMA ManyPuts ==
    ASSUME NEW b, NEW n \in Nat \ {0}, NEW order \in [1..n -> Groups],
           \A i, j \in 1..n : i # j => order[i] # order[j],
           NEW p \in [1..n -> Page], \A k \in 1..n : Edited(b[order[k]], PageOf(p[k]))
    PROVE  Good(b, [k \in 1..n |-> Put(order[k], p[k])])
  <1> DEFINE w == [k \in 1..n |-> Put(order[k], p[k])]
  <1>1. \A k \in 1..n : /\ w[k] \in Writes /\ w[k].op = "put"
                        /\ w[k].group = order[k] /\ w[k].page = p[k]
    BY PutType
  <1>2. w \in [1..n -> Writes] /\ DOMAIN w = 1..n
    BY <1>1
  <1>3. w \in Seq(Writes)
    BY <1>2, SeqDef
  <1>4. w # <<>>
    BY <1>2
  <1> HIDE DEF w
  <1>5. Honest(w) /\ Planned(b, w)
    BY <1>1, <1>2 DEF Honest, Planned
  <1> QED
    BY <1>3, <1>4, <1>5 DEF Good, w

(* A choice at the end.                                                    *)
LEMMA ThenChoose ==
    ASSUME NEW b, NEW w, Good(b, w), NEW x \in Writes, x.op = "choose", x.choice = x.meant
    PROVE  Good(b, w \o <<x>>)
  <1> DEFINE v == w \o <<x>>
  <1>0. w \in Seq(Writes) /\ <<x>> \in Seq(Writes) /\ Len(<<x>>) = 1 /\ <<x>>[1] = x
    BY DEF Good
  <1>1. /\ v \in Seq(Writes) /\ Len(v) = Len(w) + 1
        /\ \A k \in 1..Len(w) : v[k] = w[k]
        /\ v[Len(w) + 1] = x
        /\ Len(w) \in Nat /\ DOMAIN w = 1..Len(w) /\ DOMAIN v = 1..(Len(w) + 1)
    BY <1>0, ConcatProperties, LenProperties
  <1>2. v # <<>>
    BY <1>1, EmptySeq
  <1> HIDE DEF v
  <1>3. Honest(v)
    BY <1>1 DEF Honest, Good
  <1>4. Planned(b, v)
    <2> SUFFICES ASSUME NEW k \in 1..Len(w), v[k].op = "put"
                 PROVE  \/ /\ Edited(b[v[k].group], PageOf(v[k].page))
                           /\ \A j \in 1..(k - 1) : v[j].op = "put" /\ v[j].group # v[k].group
                        \/ /\ k > 1 /\ v[k - 1].op = "put" /\ v[k - 1].group = v[k].group
                           /\ Edited(PageOf(v[k - 1].page), PageOf(v[k].page))
                        \/ /\ k = 1 /\ b[v[k].group] = None
                           /\ \E g \in Groups : b[g] = PageOf(v[k].page)
      BY <1>1 DEF Planned
    <2>1. v[k] = w[k] /\ (\A j \in 1..(k - 1) : v[j] = w[j]) /\ (k > 1 => v[k - 1] = w[k - 1])
      BY <1>1
    <2> QED
      BY <1>1, <2>1 DEF Good, Planned
  <1> QED
    BY <1>1, <1>2, <1>3, <1>4 DEF Good, v

(* The rest of the writes, once the first one is done.                     *)
LEMMA GoodTail ==
    ASSUME NEW b, NEW w, Good(b, w), Len(w) # 1, NEW c, DOMAIN b = Groups,
           w[1].op = "put" => c = [b EXCEPT ![w[1].group] = PageOf(w[1].page)]
    PROVE  Good(c, Tail(w))
  <1> DEFINE v == Tail(w)
  <1>0. w \in Seq(Writes) /\ w # <<>> /\ Len(w) \in Nat /\ Len(w) > 1 /\ DOMAIN w = 1..Len(w)
    <2>1. w \in Seq(Writes) /\ w # <<>>
      BY DEF Good
    <2>2. Len(w) \in Nat \ {0} /\ DOMAIN w = 1..Len(w)
      BY <2>1, LenProperties, EmptySeq
    <2> QED
      BY <2>1, <2>2
  <1>1. /\ v \in Seq(Writes) /\ Len(v) = Len(w) - 1 /\ DOMAIN v = 1..(Len(w) - 1)
        /\ \A k \in 1..(Len(w) - 1) : v[k] = w[k + 1]
    BY <1>0, HeadTailProperties, LenProperties
  <1> HIDE DEF v
  <1>2. v # <<>>
    BY <1>0, <1>1, EmptySeq
  <1>3. Honest(v)
    <2>1. \A k \in 1..(Len(w) - 1) : k + 1 \in DOMAIN w
      BY <1>0
    <2>2. Honest(w) /\ DOMAIN v = 1..(Len(w) - 1)
      BY <1>1 DEF Good
    <2> QED
      BY <1>1, <2>1, <2>2 DEF Honest
  <1>4. Planned(c, v)
    <2> SUFFICES ASSUME NEW k \in 1..(Len(w) - 1), v[k].op = "put"
                 PROVE  \/ /\ Edited(c[v[k].group], PageOf(v[k].page))
                           /\ \A j \in 1..(k - 1) : v[j].op = "put" /\ v[j].group # v[k].group
                        \/ /\ k > 1 /\ v[k - 1].op = "put" /\ v[k - 1].group = v[k].group
                           /\ Edited(PageOf(v[k - 1].page), PageOf(v[k].page))
      BY <1>1 DEF Planned
    <2>1. k + 1 \in DOMAIN w /\ v[k] = w[k + 1] /\ v[k].group \in Groups
      BY <1>0, <1>1, WriteTypes, ElementOfSeq
    <2>2. CASE /\ Edited(b[w[k + 1].group], PageOf(w[k + 1].page))
               /\ \A j \in 1..k : w[j].op = "put" /\ w[j].group # w[k + 1].group
      <3>1. w[1].op = "put" /\ w[1].group # w[k + 1].group
        BY <2>2
      <3>2. c[v[k].group] = b[v[k].group]
        BY <2>1, <3>1
      <3>3. \A j \in 1..(k - 1) : v[j] = w[j + 1] /\ j + 1 \in 1..k
        BY <1>1
      <3> QED
        BY <2>1, <2>2, <3>2, <3>3
    <2>3. CASE /\ w[k].op = "put" /\ w[k].group = w[k + 1].group
               /\ Edited(PageOf(w[k].page), PageOf(w[k + 1].page))
      <3>1. CASE k > 1
        <4>1. v[k - 1] = w[k]
          BY <1>1, <3>1
        <4> QED
          BY <2>1, <2>3, <3>1, <4>1
      <3>2. CASE k = 1
        <4>1. c[v[k].group] = PageOf(w[1].page)
          BY <2>1, <2>3, <3>2
        <4> QED
          BY <2>1, <2>3, <3>2, <4>1
      <3> QED
        BY <3>1, <3>2
    <2> QED
      BY <1>0, <2>1, <2>2, <2>3 DEF Good, Planned
  <1> QED
    BY <1>1, <1>2, <1>3, <1>4 DEF Good, v

-----------------------------------------------------------------------------
(* What each command plans is good, by the files it has loaded.            *)

DiskType == disk \in [Groups -> Page \cup {None, Torn}]

LEMMA RemoveAtType ==
    ASSUME NEW S, NEW s \in Seq(S), NEW i \in DOMAIN s
    PROVE  RemoveAt(s, i) = Without(s, i) /\ Without(s, i) \in Seq(S)
  <1>1. Len(s) \in Nat /\ DOMAIN s = 1..Len(s) /\ \A j \in 1..Len(s) : s[j] \in S
    BY LenProperties, ElementOfSeq
  <1>2. SubSeq(s, 1, i - 1) \in Seq(S)
    BY <1>1, SubSeqProperties
  <1>3. SubSeq(s, i + 1, Len(s)) \in Seq(S)
    BY <1>1, SubSeqProperties
  <1> QED
    BY <1>2, <1>3, ConcatProperties DEF Without, RemoveAt

LEMMA Loading ==
    ASSUME DiskType, cmd.pc = "loaded", NEW g \in Groups
    PROVE  /\ TheBook[g] = PageOf(disk[g])
           /\ In(Loaded, g) => /\ Loaded[g] \in Page /\ Loaded[g].tag = g
                               /\ Loaded[g].links \in Seq(Links)
                               /\ Loaded[g].subs \in Seq(URLs)
                               /\ TheBook[g] = [links |-> Loaded[g].links,
                                                subs |-> Loaded[g].subs]
                               /\ TheBook[g] \in Content
                               /\ TheBook[g].links = Loaded[g].links
                               /\ TheBook[g].subs = Loaded[g].subs
           /\ ~In(Loaded, g) => TheBook[g] \in {None, Torn}
  <1>1. TheBook[g] = PageOf(disk[g])
    BY DEF TheBook, Writing
  <1>2. CASE disk[g] \in {None, Torn}
    BY <1>1, <1>2 DEF PageOf, Loaded, Readable, In
  <1>3. CASE disk[g] \in Page
    <2>1. disk[g] \notin {None, Torn}
      BY <1>3, PageOfPage
    <2>2. Loaded[g] = [disk[g] EXCEPT !.tag = g]
      BY <2>1 DEF Loaded, Readable
    <2>3. /\ Loaded[g] \in Page /\ Loaded[g].tag = g
          /\ Loaded[g].links = disk[g].links /\ Loaded[g].subs = disk[g].subs
      BY <1>3, <2>2 DEF Page
    <2>4. In(Loaded, g)
      BY <2>3, PageOfPage DEF In
    <2>5. disk[g].links \in Seq(Links) /\ disk[g].subs \in Seq(URLs)
      BY <1>3 DEF Page
    <2>6. TheBook[g] = [links |-> Loaded[g].links, subs |-> Loaded[g].subs]
            /\ TheBook[g] \in Content
      BY <1>1, <1>3, <2>3, PageOfPage
    <2>7. TheBook[g].links = Loaded[g].links /\ TheBook[g].subs = Loaded[g].subs
      BY <2>6
    <2> QED
      BY <1>1, <2>3, <2>4, <2>5, <2>6, <2>7
  <1> QED
    BY <1>2, <1>3 DEF DiskType

LEMMA LinksEdit ==
    ASSUME DiskType, cmd.pc = "loaded", NEW g \in Groups, In(Loaded, g), NEW s \in Seq(Links)
    PROVE  /\ [Loaded[g] EXCEPT !.links = s] \in Page
           /\ PageOf([Loaded[g] EXCEPT !.links = s]) = [TheBook[g] EXCEPT !.links = s]
  <1> DEFINE p == [Loaded[g] EXCEPT !.links = s]
  <1>1. p \in Page /\ p.links = s /\ p.subs = Loaded[g].subs
    BY Loading DEF Page
  <1>2. PageOf(p) = [links |-> s, subs |-> Loaded[g].subs]
    BY <1>1, PageOfPage
  <1>3. TheBook[g] = [links |-> Loaded[g].links, subs |-> Loaded[g].subs]
    BY Loading
  <1>4. [TheBook[g] EXCEPT !.links = s] = [links |-> s, subs |-> Loaded[g].subs]
    BY <1>3
  <1> QED
    BY <1>1, <1>2, <1>4

LEMMA SubsEdit ==
    ASSUME DiskType, cmd.pc = "loaded", NEW g \in Groups, In(Loaded, g), NEW s \in Seq(URLs)
    PROVE  /\ [Loaded[g] EXCEPT !.subs = s] \in Page
           /\ PageOf([Loaded[g] EXCEPT !.subs = s]) = [TheBook[g] EXCEPT !.subs = s]
  <1> DEFINE p == [Loaded[g] EXCEPT !.subs = s]
  <1>1. p \in Page /\ p.subs = s /\ p.links = Loaded[g].links
    BY Loading DEF Page
  <1>2. PageOf(p) = [links |-> Loaded[g].links, subs |-> s]
    BY <1>1, PageOfPage
  <1>3. TheBook[g] = [links |-> Loaded[g].links, subs |-> Loaded[g].subs]
    BY Loading
  <1>4. [TheBook[g] EXCEPT !.subs = s] = [links |-> Loaded[g].links, subs |-> s]
    BY <1>3
  <1> QED
    BY <1>1, <1>2, <1>4

LEMMA EmptyPage ==
    ASSUME NEW g \in Groups
    PROVE  /\ Empty(g) \in Page
           /\ PageOf(Empty(g)) = [links |-> <<>>, subs |-> <<>>]
  <1>1. Empty(g) \in Page /\ Empty(g).links = <<>> /\ Empty(g).subs = <<>>
    BY EmptySeq DEF Empty, Page
  <1> QED
    BY <1>1, PageOfPage

LEMMA AddGood ==
    ASSUME DiskType, cmd.pc = "loaded", NEW w \in Add(Loaded) PROVE Good(TheBook, w)
  <1>1. PICK g \in Groups, l \in Links :
          w = <<Put(g, [PageIn(Loaded, g) EXCEPT !.links = Append(@, l)])>>
    BY DEF Add
  <1>2. CASE In(Loaded, g)
    <2> DEFINE s == Append(Loaded[g].links, l)
               p == [Loaded[g] EXCEPT !.links = s]
    <2>1. s \in Seq(Links) /\ w = <<Put(g, p)>>
      BY <1>1, <1>2, Loading, AppendProperties DEF PageIn
    <2>2. p \in Page /\ PageOf(p) = [TheBook[g] EXCEPT !.links = s]
      BY <1>2, <2>1, LinksEdit
    <2>3. TheBook[g] \in Content /\ TheBook[g].links = Loaded[g].links
      BY <1>2, Loading
    <2>4. Edited(TheBook[g], PageOf(p))
      BY <2>2, <2>3 DEF Edited
    <2> QED
      BY <2>1, <2>2, <2>4, OnePut
  <1>3. CASE ~In(Loaded, g)
    <2> DEFINE p == [Empty(g) EXCEPT !.links = <<l>>]
    <2>1. w = <<Put(g, p)>>
      BY <1>1, <1>3 DEF PageIn, Empty
    <2>2. p = [links |-> <<l>>, subs |-> <<>>, tag |-> g]
      BY DEF Empty
    <2>3. p \in Page /\ p.links = <<l>> /\ p.subs = <<>>
      <3>1. <<l>> \in Seq(Links) /\ <<>> \in Seq(URLs)
        OBVIOUS
      <3> HIDE DEF p
      <3> QED
        BY <2>2, <3>1 DEF Page
    <2>4. PageOf(p) = [links |-> <<l>>, subs |-> <<>>]
      BY <2>3, PageOfPage
    <2>5. Edited(TheBook[g], PageOf(p))
      BY <1>3, <2>4, Loading DEF Edited
    <2> QED
      BY <2>1, <2>3, <2>5, OnePut
  <1> QED
    BY <1>2, <1>3

LEMMA RemoveLinkGood ==
    ASSUME DiskType, cmd.pc = "loaded", NEW w \in RemoveLink(Loaded) PROVE Good(TheBook, w)
  <1>0. PICK g \in Groups :
          /\ In(Loaded, g)
          /\ \E i \in DOMAIN Loaded[g].links :
               w = <<Put(g, [Loaded[g] EXCEPT !.links = RemoveAt(@, i)])>>
    BY DEF RemoveLink, Firsts
  <1>1. PICK i \in DOMAIN Loaded[g].links :
          w = <<Put(g, [Loaded[g] EXCEPT !.links = RemoveAt(@, i)])>>
    BY <1>0
  <1> DEFINE s == Without(Loaded[g].links, i)
             p == [Loaded[g] EXCEPT !.links = s]
  <1>2. TheBook[g] \in Content /\ TheBook[g].links = Loaded[g].links
          /\ Loaded[g].links \in Seq(Links)
    BY <1>0, <1>1, Loading
  <1>3. s \in Seq(Links) /\ w = <<Put(g, p)>>
    BY <1>0, <1>1, <1>2, RemoveAtType
  <1>4. p \in Page /\ PageOf(p) = [TheBook[g] EXCEPT !.links = s]
    BY <1>0, <1>1, <1>3, LinksEdit
  <1>5. Edited(TheBook[g], PageOf(p))
    BY <1>2, <1>4 DEF Edited
  <1> QED
    BY <1>3, <1>4, <1>5, OnePut

LEMMA RemoveAllGood ==
    ASSUME DiskType, cmd.pc = "loaded", NEW w \in RemoveAll(Loaded) PROVE Good(TheBook, w)
  <1>1. PICK g \in Groups : In(Loaded, g) /\ w = <<Put(g, [Loaded[g] EXCEPT !.links = <<>>])>>
    BY DEF RemoveAll
  <1> DEFINE p == [Loaded[g] EXCEPT !.links = <<>>]
  <1>2. p \in Page /\ PageOf(p) = [TheBook[g] EXCEPT !.links = <<>>] /\ TheBook[g] \in Content
    BY <1>1, LinksEdit, Loading, EmptySeq
  <1>3. Edited(TheBook[g], PageOf(p))
    BY <1>2 DEF Edited
  <1> QED
    BY <1>1, <1>2, <1>3, OnePut

LEMMA SubRemoveGood ==
    ASSUME DiskType, cmd.pc = "loaded", NEW w \in SubRemove(Loaded) PROVE Good(TheBook, w)
  <1>0. PICK g \in Groups :
          /\ In(Loaded, g)
          /\ \E i \in DOMAIN Loaded[g].subs :
               w = <<Put(g, [Loaded[g] EXCEPT !.subs = RemoveAt(@, i)])>>
    BY DEF SubRemove
  <1>1. PICK i \in DOMAIN Loaded[g].subs :
          w = <<Put(g, [Loaded[g] EXCEPT !.subs = RemoveAt(@, i)])>>
    BY <1>0
  <1> DEFINE s == Without(Loaded[g].subs, i)
             p == [Loaded[g] EXCEPT !.subs = s]
  <1>2. TheBook[g] \in Content /\ TheBook[g].subs = Loaded[g].subs
          /\ Loaded[g].subs \in Seq(URLs)
    BY <1>0, <1>1, Loading
  <1>3. s \in Seq(URLs) /\ w = <<Put(g, p)>>
    BY <1>0, <1>1, <1>2, RemoveAtType
  <1>4. p \in Page /\ PageOf(p) = [TheBook[g] EXCEPT !.subs = s]
    BY <1>0, <1>1, <1>3, SubsEdit
  <1>5. Edited(TheBook[g], PageOf(p))
    BY <1>2, <1>4 DEF Edited
  <1> QED
    BY <1>3, <1>4, <1>5, OnePut

LEMMA CreateGroupGood ==
    ASSUME DiskType, cmd.pc = "loaded", NEW w \in CreateGroup PROVE Good(TheBook, w)
  <1>1. PICK g \in Groups : disk[g] = None /\ w = <<Put(g, Empty(g))>>
    BY DEF CreateGroup
  <1>2. TheBook[g] = None
    BY <1>1, Loading DEF PageOf
  <1>3. Edited(TheBook[g], PageOf(Empty(g)))
    BY <1>2, EmptyPage DEF Edited
  <1> QED
    BY <1>1, <1>3, EmptyPage, OnePut

LEMMA DeleteGroupGood ==
    ASSUME NEW b, NEW w \in DeleteGroup PROVE Good(b, w)
  <1>1. PICK g \in Groups : w = <<[op |-> "drop", group |-> g]>>
    BY DEF DeleteGroup
  <1>2. [op |-> "drop", group |-> g] \in Writes
    BY DEF Writes
  <1> QED
    BY <1>1, <1>2, OneOther

LEMMA ChooseType ==
    ASSUME DiskType, cmd.pc = "loaded", NEW g \in Groups, In(Loaded, g), NEW l \in Links
    PROVE  /\ Choose(Loaded, g, l) \in Writes /\ Choose(Loaded, g, l).op = "choose"
           /\ Choose(Loaded, g, l).choice = Choose(Loaded, g, l).meant
  <1>1. Loaded[g].tag = g
    BY Loading
  <1>2. Choice(g, l) \in Chosen
    BY DEF Choice, Chosen
  <1> QED
    BY <1>1, <1>2 DEF Choose, Writes

LEMMA SelectGood ==
    ASSUME DiskType, cmd.pc = "loaded", NEW w \in Select(Loaded) PROVE Good(TheBook, w)
  <1>0. PICK g \in Groups :
          In(Loaded, g) /\ \E l \in Range(Loaded[g].links) : w = <<Choose(Loaded, g, l)>>
    BY DEF Select
  <1>1. PICK l \in Range(Loaded[g].links) : w = <<Choose(Loaded, g, l)>>
    BY <1>0
  <1>2. l \in Links
    BY <1>0, <1>1, Loading, RangeOfSeq
  <1> QED
    BY <1>0, <1>1, <1>2, ChooseType, OneOther

LEMMA SubAddGood ==
    ASSUME DiskType, cmd.pc = "loaded", NEW w \in SubAdd(Loaded) PROVE Good(TheBook, w)
  <1>1. PICK g \in Groups \ {Default} :
          \E u \in {v \in URLs : ~Contains(PageIn(Loaded, g).subs, v)} :
            w = IF In(Loaded, g) THEN <<Put(g, [Loaded[g] EXCEPT !.subs = Append(@, u)])>>
                ELSE <<Put(g, Empty(g)), Put(g, [Empty(g) EXCEPT !.subs = <<u>>])>>
    BY DEF SubAdd
  <1>2. PICK u \in URLs :
          /\ ~Contains(PageIn(Loaded, g).subs, u)
          /\ w = IF In(Loaded, g) THEN <<Put(g, [Loaded[g] EXCEPT !.subs = Append(@, u)])>>
                 ELSE <<Put(g, Empty(g)), Put(g, [Empty(g) EXCEPT !.subs = <<u>>])>>
    BY <1>1
  <1>3. CASE In(Loaded, g)
    <2> DEFINE s == Append(Loaded[g].subs, u)
               p == [Loaded[g] EXCEPT !.subs = s]
    <2>1. Loaded[g].subs \in Seq(URLs) /\ TheBook[g].subs = Loaded[g].subs
            /\ TheBook[g] \in Content
      BY <1>3, Loading
    <2>2. s \in Seq(URLs) /\ w = <<Put(g, p)>>
      BY <1>2, <1>3, <2>1, AppendProperties
    <2>3. p \in Page /\ PageOf(p) = [TheBook[g] EXCEPT !.subs = s]
      BY <1>3, <2>2, SubsEdit
    <2>4. \A i \in DOMAIN Loaded[g].subs : Loaded[g].subs[i] # u
      BY <1>2, <1>3, <2>1, LenProperties DEF Contains, PageIn
    <2>5. Edited(TheBook[g], PageOf(p))
      BY <2>1, <2>3, <2>4 DEF Edited
    <2> QED
      BY <2>2, <2>3, <2>5, OnePut
  <1>4. CASE ~In(Loaded, g)
    <2> DEFINE p == [Empty(g) EXCEPT !.subs = <<u>>]
               v == <<Put(g, Empty(g)), Put(g, p)>>
    <2>1. w = v
      BY <1>2, <1>4
    <2>2. p = [links |-> <<>>, subs |-> <<u>>, tag |-> g]
      BY DEF Empty
    <2>3. p \in Page /\ p.links = <<>> /\ p.subs = <<u>>
      <3>1. <<u>> \in Seq(URLs) /\ <<>> \in Seq(Links)
        OBVIOUS
      <3> HIDE DEF p
      <3> QED
        BY <2>2, <3>1 DEF Page
    <2>4. PageOf(p) = [links |-> <<>>, subs |-> <<u>>]
      BY <2>3, PageOfPage
    <2>5. Edited(TheBook[g], PageOf(Empty(g)))
      BY <1>4, EmptyPage, Loading DEF Edited
    <2>6. Edited(PageOf(Empty(g)), PageOf(p))
      <3> DEFINE x == [links |-> <<>>, subs |-> <<>>]
      <3>1. x \in Content /\ x.subs = <<>>
        BY DEF Content
      <3>2. [x EXCEPT !.subs = Append(x.subs, u)] = [links |-> <<>>, subs |-> <<u>>]
        OBVIOUS
      <3>3. \A i \in DOMAIN x.subs : x.subs[i] # u
        BY <3>1
      <3> HIDE DEF x
      <3>4. PageOf(p) = [x EXCEPT !.subs = Append(@, u)]
        BY <2>4, <3>2
      <3>5. Edited(x, PageOf(p))
        BY <3>1, <3>3, <3>4 DEF Edited
      <3> QED
        BY <3>5, EmptyPage DEF x
    <2>7. /\ Put(g, Empty(g)) \in Writes /\ Put(g, p) \in Writes
          /\ Put(g, Empty(g)).op = "put" /\ Put(g, Empty(g)).group = g
          /\ Put(g, Empty(g)).page = Empty(g)
          /\ Put(g, p).op = "put" /\ Put(g, p).group = g /\ Put(g, p).page = p
      BY <2>3, EmptyPage, PutType
    <2> HIDE DEF p
    <2>8. /\ v \in Seq(Writes) /\ v # <<>> /\ DOMAIN v = 1..2
          /\ v[1] = Put(g, Empty(g)) /\ v[2] = Put(g, p)
      BY <2>7
    <2> HIDE DEF v
    <2>9. Honest(v) /\ Planned(TheBook, v)
      BY <2>5, <2>6, <2>7, <2>8 DEF Honest, Planned
    <2> QED
      BY <2>1, <2>8, <2>9 DEF Good
  <1> QED
    BY <1>3, <1>4

(* An order of some groups has each of them once.                          *)
LEMMA Orders ==
    ASSUME NEW S \in SUBSET Groups, S # {}, NEW order \in SetToSeqs(S)
    PROVE  \E n \in Nat \ {0} : /\ order \in [1..n -> S]
                                /\ \A i, j \in 1..n : i # j => order[i] # order[j]
  <1>1. IsFiniteSet(S)
    BY FS_Subset, ProfileStoreAssumption DEF ProfileStoreAssumption
  <1>2. Cardinality(S) \in Nat \ {0}
    BY <1>1, FS_CardinalityType, FS_EmptySet
  <1> QED
    BY <1>2 DEF SetToSeqs

LEMMA AnswersType == ASSUME NEW page, NEW all \in Answers(page) PROVE all \in Seq(Links)
  <1>1. all \in BoundedSeq(Links, MaxLinks)
    BY DEF Answers
  <1>2. PICK n \in 0..MaxLinks : all \in [1..n -> Links]
    BY <1>1 DEF BoundedSeq, SeqOf
  <1>3. n \in Nat
    BY ProfileStoreAssumption DEF ProfileStoreAssumption
  <1> QED
    BY <1>2, <1>3, SeqDef

LEMMA SubUpdateGood ==
    ASSUME DiskType, cmd.pc = "loaded", NEW w \in SubUpdate(Loaded) PROVE Good(TheBook, w)
  <1> DEFINE withSubs == {g \in Groups : In(Loaded, g) /\ Loaded[g].subs # <<>>}
             Pages(g) == { [Loaded[g] EXCEPT !.links = all] :
                           all \in Answers(Loaded[g]) \ {<<>>} }
             Puts(order, p) == [k \in DOMAIN order |-> Put(order[k], p[order[k]])]
             Picks(order) == {f \in [Range(order) -> UNION {Pages(g) : g \in Range(order)}] :
                                \A g \in Range(order) : f[g] \in Pages(g)}
  <1>1. w \in UNION { { Puts(order, p) : p \in Picks(order) } :
                      order \in UNION {SetToSeqs(S) : S \in (SUBSET withSubs) \ {{}}} }
    BY Zenon DEF SubUpdate
  <1>2. \A g \in withSubs : \A page \in Pages(g) :
          page \in Page /\ Edited(TheBook[g], PageOf(page))
    <2> SUFFICES ASSUME NEW g \in withSubs, NEW all \in Answers(Loaded[g]) \ {<<>>}
                 PROVE  LET page == [Loaded[g] EXCEPT !.links = all]
                        IN  page \in Page /\ Edited(TheBook[g], PageOf(page))
      OBVIOUS
    <2> DEFINE page == [Loaded[g] EXCEPT !.links = all]
    <2>1. all \in Seq(Links) \ {<<>>}
      BY AnswersType
    <2>2. page \in Page /\ PageOf(page) = [TheBook[g] EXCEPT !.links = all]
      BY <2>1, LinksEdit
    <2>3. TheBook[g] \in Content /\ TheBook[g].subs # <<>>
      BY Loading
    <2>4. Edited(TheBook[g], PageOf(page))
      BY <2>1, <2>2, <2>3 DEF Edited
    <2> QED
      BY <2>2, <2>4
  <1>3. withSubs \in SUBSET Groups
    OBVIOUS
  <1> HIDE DEF withSubs, Pages
  <1> HIDE DEF Puts, Picks
  <1>4. \E n, order, p :
          /\ n \in Nat \ {0} /\ order \in [1..n -> withSubs]
          /\ \A i, j \in 1..n : i # j => order[i] # order[j]
          /\ \A k \in 1..n : p[order[k]] \in Pages(order[k])
          /\ w = Puts(order, p)
    <2>1. PICK order \in UNION {SetToSeqs(S) : S \in (SUBSET withSubs) \ {{}}} :
            \E p \in Picks(order) : w = Puts(order, p)
      BY <1>1
    <2>2. PICK p \in Picks(order) : w = Puts(order, p)
      BY <2>1
    <2>3. PICK S \in SUBSET withSubs : S # {} /\ order \in SetToSeqs(S)
      BY <2>1
    <2>4. PICK n \in Nat \ {0} : /\ order \in [1..n -> S]
                                 /\ \A i, j \in 1..n : i # j => order[i] # order[j]
      BY <1>3, <2>3, Orders
    <2>5. \A k \in 1..n : p[order[k]] \in Pages(order[k])
      BY <2>4 DEF Picks, Range
    <2>6. order \in [1..n -> withSubs]
      BY <2>4
    <2> QED
      BY <2>2, <2>4, <2>5, <2>6
  <1>5. PICK n, order, p :
          /\ n \in Nat \ {0} /\ order \in [1..n -> withSubs]
          /\ \A i, j \in 1..n : i # j => order[i] # order[j]
          /\ \A k \in 1..n : p[order[k]] \in Pages(order[k])
          /\ w = Puts(order, p)
    BY <1>4, Zenon
  <1> DEFINE q == [k \in 1..n |-> p[order[k]]]
  <1>6. /\ q \in [1..n -> Page] /\ order \in [1..n -> Groups]
        /\ \A k \in 1..n : Edited(TheBook[order[k]], PageOf(q[k]))
    BY <1>2, <1>3, <1>5
  <1>7. w = [k \in 1..n |-> Put(order[k], q[k])]
    BY <1>5 DEF Puts
  <1> HIDE DEF q
  <1>8. Good(TheBook, [k \in 1..n |-> Put(order[k], q[k])])
    BY <1>5, <1>6, ManyPuts, Zenon
  <1> QED
    BY <1>7, <1>8

LEMMA BenchGood ==
    ASSUME DiskType, cmd.pc = "loaded", NEW w \in Bench(Loaded) PROVE Good(TheBook, w)
  <1> DEFINE tested == {g \in Groups : In(Loaded, g) /\ Usable(Loaded[g].links) # {}}
             Saves(order) == [k \in DOMAIN order |-> Put(order[k], Loaded[order[k]])]
             Orders1 == {<<g>> : g \in tested} \cup (SetToSeqs(tested) \ {<<>>})
  <1>1. PICK order \in Orders1 :
          \/ w = Saves(order)
          \/ \E c \in Chosen : In(Loaded, c.group)
                               /\ w = Saves(order) \o <<Choose(Loaded, c.group, c.link)>>
    BY DEF Bench
  <1>2. \E n \in Nat \ {0} : /\ order \in [1..n -> tested]
                             /\ \A i, j \in 1..n : i # j => order[i] # order[j]
    <2>1. CASE \E g \in tested : order = <<g>>
      <3>1. order \in [1..1 -> tested]
        BY <2>1
      <3>2. \A i, j \in 1..1 : i = j
        OBVIOUS
      <3>3. 1 \in Nat \ {0}
        OBVIOUS
      <3> QED
        BY <3>1, <3>2, <3>3, Zenon
    <2>2. CASE order \in SetToSeqs(tested) /\ order # <<>>
      <3>1. CASE tested # {}
        BY <2>2, <3>1, Orders
      <3>2. CASE tested = {}
        <4>1. Cardinality(tested) = 0
          BY <3>2, FS_EmptySet
        <4>2. order \in [1..0 -> tested]
          BY <2>2, <4>1 DEF SetToSeqs
        <4>3. order \in Seq(tested) /\ Len(order) = 0
          BY <4>2, SeqDef
        <4> QED
          BY <2>2, <4>3, EmptySeq
      <3> QED
        BY <3>1, <3>2
    <2> QED
      BY <1>1, <2>1, <2>2
  <1>3. PICK n \in Nat \ {0} : /\ order \in [1..n -> tested]
                               /\ \A i, j \in 1..n : i # j => order[i] # order[j]
    BY <1>2
  <1> DEFINE q == [k \in 1..n |-> Loaded[order[k]]]
  <1>4. /\ q \in [1..n -> Page] /\ order \in [1..n -> Groups]
        /\ \A k \in 1..n : Edited(TheBook[order[k]], PageOf(q[k]))
    <2>1. \A g \in tested : Loaded[g] \in Page /\ Edited(TheBook[g], PageOf(Loaded[g]))
      BY Loading, PageOfPage DEF Edited
    <2> HIDE DEF tested
    <2>2. tested \in SUBSET Groups
      BY DEF tested
    <2> QED
      BY <1>3, <2>1, <2>2
  <1>5. Saves(order) = [k \in 1..n |-> Put(order[k], q[k])]
    BY <1>3
  <1> HIDE DEF q, Saves, tested, Orders1
  <1>6. Good(TheBook, [k \in 1..n |-> Put(order[k], q[k])])
    BY <1>3, <1>4, ManyPuts, Zenon
  <1>7. Good(TheBook, Saves(order))
    BY <1>5, <1>6
  <1>8. ASSUME NEW c \in Chosen, In(Loaded, c.group),
               w = Saves(order) \o <<Choose(Loaded, c.group, c.link)>>
        PROVE  Good(TheBook, w)
    <2>1. c.group \in Groups /\ c.link \in Links
      BY DEF Chosen
    <2> QED
      BY <1>7, <1>8, <2>1, ChooseType, ThenChoose
  <1> QED
    BY <1>1, <1>7, <1>8

LEMMA RenameGood ==
    ASSUME DiskType, cmd.pc = "loaded", NEW w \in RenameGroup PROVE Good(TheBook, w)
  <1>1. PICK p \in Groups \X Groups :
          /\ Readable(p[1]) /\ disk[p[2]] = None
          /\ w = <<Put(p[2], disk[p[1]]), [op |-> "drop", group |-> p[1]],
                   [op |-> "retarget", group |-> p[1], to |-> p[2]]>>
    BY DEF RenameGroup
  <1> DEFINE g == p[1]
             h == p[2]
             drop == [op |-> "drop", group |-> g]
             retarget == [op |-> "retarget", group |-> g, to |-> h]
             v == <<Put(h, disk[g]), drop, retarget>>
  <1>2. g \in Groups /\ h \in Groups /\ disk[g] \in Page /\ disk[h] = None
    BY <1>1 DEF DiskType, Readable
  <1>3. w = v
    BY <1>1
  <1> HIDE DEF g, h
  <1>4. TheBook[h] = None /\ TheBook[g] = PageOf(disk[g])
    BY <1>2, Loading DEF PageOf
  <1>5. drop \in Writes /\ retarget \in Writes /\ drop.op = "drop" /\ retarget.op = "retarget"
    BY <1>2 DEF Writes
  <1>6. /\ Put(h, disk[g]) \in Writes /\ Put(h, disk[g]).op = "put"
        /\ Put(h, disk[g]).group = h /\ Put(h, disk[g]).page = disk[g]
    BY <1>2, PutType
  <1> HIDE DEF drop, retarget
  <1>7. /\ v \in Seq(Writes) /\ v # <<>> /\ DOMAIN v = 1..3
        /\ v[1] = Put(h, disk[g]) /\ v[2] = drop /\ v[3] = retarget
    BY <1>5, <1>6
  <1> HIDE DEF v
  <1>8. \A k \in DOMAIN v : v[k].op = "put" => k = 1
    BY <1>5, <1>7
  <1>9. \A k \in DOMAIN v : v[k].op # "choose"
    BY <1>5, <1>6, <1>7
  <1>10. Honest(v) /\ Planned(TheBook, v)
    BY <1>2, <1>4, <1>6, <1>7, <1>8, <1>9 DEF Honest, Planned
  <1> QED
    BY <1>3, <1>7, <1>10 DEF Good

(* Whatever the command does, it plans well.                               *)
LEMMA ActGood ==
    ASSUME DiskType, cmd.pc = "loaded", cmd.mem = Loaded, Act
    PROVE  \E w : Good(TheBook, w) /\ Does(w)
  <1>1. CASE \E w \in Add(cmd.mem) : Does(w)
    BY <1>1, AddGood, Zenon
  <1>2. CASE \E w \in RemoveLink(cmd.mem) : Does(w)
    BY <1>2, RemoveLinkGood, Zenon
  <1>3. CASE \E w \in RemoveAll(cmd.mem) : Does(w)
    BY <1>3, RemoveAllGood, Zenon
  <1>4. CASE \E w \in SubAdd(cmd.mem) : Does(w)
    BY <1>4, SubAddGood, Zenon
  <1>5. CASE \E w \in SubUpdate(cmd.mem) : Does(w)
    BY <1>5, SubUpdateGood, Zenon
  <1>6. CASE \E w \in SubRemove(cmd.mem) : Does(w)
    BY <1>6, SubRemoveGood, Zenon
  <1>7. CASE \E w \in Select(cmd.mem) : Does(w)
    BY <1>7, SelectGood, Zenon
  <1>8. CASE \E w \in Bench(cmd.mem) : Does(w)
    BY <1>8, BenchGood, Zenon
  <1>9. CASE \E w \in CreateGroup : Does(w)
    BY <1>9, CreateGroupGood, Zenon
  <1>10. CASE \E w \in DeleteGroup : Does(w)
    BY <1>10, DeleteGroupGood, Zenon
  <1>11. CASE \E w \in RenameGroup : Does(w)
    BY <1>11, RenameGood, Zenon
  <1> QED
    BY <1>1, <1>2, <1>3, <1>4, <1>5, <1>6, <1>7, <1>8, <1>9, <1>10, <1>11 DEF Act

-----------------------------------------------------------------------------
(* The command and the gateway.                                            *)

(* A command works on what the files said when it began, which they still  *)
(* say, and what it has left to write is good; a page that it is filling   *)
(* is torn.                                                                *)
Plans ==
    /\ cmd.pc = "loaded" => cmd.mem = Loaded
    /\ cmd.pc \in {"empty", "fill"} => Good(TheBook, cmd.todo)
    /\ cmd.pc = "fill" => Now.op \in {"put", "choose"}
    /\ cmd.pc = "fill" /\ Now.op = "put" => disk[Now.group] = Torn

(* What the gateway holds is what it loaded; its link is its own choice,   *)
(* or the one in .active.                                                  *)
Holds ==
    /\ \A g \in Groups : In(gw.mem, g) => gw.mem[g].tag = g
    /\ gw.cur # None => In(gw.mem, gw.cur.group)
    /\ gw.pc \in {"mark", "try", "up"} =>
         /\ gw.link # None /\ In(gw.mem, gw.link.group)
         /\ gw.cur # None => gw.link = gw.cur

(* .active is the last choice, or the choice has been lost; until another  *)
(* command writes it, it names the link of the gateway.                    *)
Agrees ==
    /\ chosen \in {None, active}
    /\ gw.pc \in {"try", "up"} /\ ~touched => active = gw.link
    /\ gw.pc = "pick" /\ gw.cur # None /\ ~touched => active = gw.cur

Inv == TypeOK /\ Plans /\ Holds /\ Agrees

LEMMA BookTyped == ASSUME TypeOK PROVE TheBook \in BookType
  <1> SUFFICES ASSUME NEW g \in Groups PROVE TheBook[g] \in Content \cup {None, Torn}
    BY DEF TheBook, BookType
  <1> DEFINE file == IF Writing(g) THEN cmd.old ELSE disk[g]
  <1>1. file \in Page \cup {None, Torn}
    BY DEF TypeOK
  <1>2. TheBook[g] = PageOf(file)
    BY DEF TheBook
  <1> HIDE DEF file
  <1> QED
    BY <1>1, <1>2, PageOfPage DEF PageOf

(* What stays the same when neither the files nor the command move.        *)
LEMMA SameBook ==
    ASSUME UNCHANGED <<disk, cmd>>
    PROVE  TheBook' = TheBook /\ (Plans => Plans')
  <1>1. TheBook' = TheBook
    BY DEF TheBook, Writing, Now
  <1>2. Loaded' = Loaded
    BY DEF Loaded, Readable
  <1> QED
    BY <1>1, <1>2 DEF Plans, Now

LEMMA NowType ==
    ASSUME TypeOK, Plans, cmd.pc \in {"empty", "fill"}
    PROVE  /\ Now \in Writes /\ Now = cmd.todo[1]
           /\ cmd.todo \in Seq(Writes) /\ cmd.todo # <<>>
  <1>1. cmd.todo \in Seq(Writes) /\ cmd.todo # <<>>
    BY DEF Plans, Good
  <1>2. Now = cmd.todo[1] /\ 1 \in DOMAIN cmd.todo
    BY <1>1, LenProperties, EmptySeq DEF Now
  <1> QED
    BY <1>1, <1>2, ElementOfSeq

(* The command that has done a write goes on with what is left.            *)
LEMMA WrittenPlans ==
    ASSUME TypeOK, Plans, cmd.pc \in {"empty", "fill"}, cmd' = Written,
           Now.op = "put" => TheBook' = [TheBook EXCEPT ![Now.group] = PageOf(Now.page)]
    PROVE  /\ Plans'
           /\ cmd' \in [pc : {"idle", "loaded", "empty", "fill"},
                        mem : [Groups -> Page \cup {None}], todo : Seq(Writes),
                        old : Page \cup {None, Torn}]
           /\ cmd'.pc \in {"idle", "empty"}
  <1>1. CASE Len(cmd.todo) = 1
    <2>1. cmd' = Idle
      BY <1>1 DEF Written
    <2>2. cmd'.pc = "idle" /\ cmd'.mem = NoGroups /\ cmd'.todo = <<>> /\ cmd'.old = None
      BY <2>1 DEF Idle
    <2>3. NoGroups \in [Groups -> Page \cup {None}]
      BY DEF NoGroups
    <2> QED
      BY <2>1, <2>2, <2>3 DEF Plans, Idle
  <1>2. CASE Len(cmd.todo) # 1
    <2>1. cmd' = [cmd EXCEPT !.pc = "empty", !.todo = Tail(cmd.todo), !.old = None]
      BY <1>2 DEF Written
    <2>2. Good(TheBook, cmd.todo) /\ Now = cmd.todo[1] /\ DOMAIN TheBook = Groups
      BY NowType DEF Plans, TheBook
    <2>3. Good(TheBook', Tail(cmd.todo))
      BY <1>2, <2>2, GoodTail
    <2>4. Tail(cmd.todo) \in Seq(Writes)
      BY <2>3 DEF Good
    <2>5. /\ cmd' \in [pc : {"idle", "loaded", "empty", "fill"},
                       mem : [Groups -> Page \cup {None}], todo : Seq(Writes),
                       old : Page \cup {None, Torn}]
          /\ cmd'.pc = "empty" /\ cmd'.todo = Tail(cmd.todo)
      BY <2>1, <2>4 DEF TypeOK
    <2> QED
      BY <2>3, <2>5 DEF Plans
  <1> QED
    BY <1>1, <1>2

-----------------------------------------------------------------------------
(* The steps of a command.                                                 *)

Kept == TypeOK' /\ Plans' /\ [Book!Next]_TheBook

LEMMA BeginKeeps == ASSUME Inv, Begin PROVE Kept
  <1>1. Loaded \in [Groups -> Page \cup {None}]
    <2> SUFFICES ASSUME NEW g \in Groups PROVE Loaded[g] \in Page \cup {None}
      BY DEF Loaded
    <2>1. CASE ~Readable(g)
      BY <2>1 DEF Loaded
    <2>2. CASE Readable(g)
      <3>1. disk[g] \in Page
        BY <2>2 DEF Readable, Inv, TypeOK
      <3> QED
        BY <2>2, <3>1 DEF Loaded, Page
    <2> QED
      BY <2>1, <2>2
  <1>2. cmd' = [pc |-> "loaded", mem |-> Loaded, todo |-> <<>>, old |-> None]
    BY DEF Begin, Idle
  <1>3. TheBook' = TheBook
    BY <1>2 DEF Begin, Idle, TheBook, Writing
  <1>4. TypeOK'
    <2>1. cmds' \in 0..MaxCmds
      BY ProfileStoreAssumption DEF Begin, Inv, TypeOK, ProfileStoreAssumption
    <2>2. cmd' \in [pc : {"idle", "loaded", "empty", "fill"},
                    mem : [Groups -> Page \cup {None}], todo : Seq(Writes),
                    old : Page \cup {None, Torn}]
      BY <1>1, <1>2
    <2> QED
      BY <2>1, <2>2 DEF Begin, Inv, TypeOK
  <1>5. Plans'
    <2>1. Loaded' = Loaded
      BY DEF Begin, Loaded, Readable
    <2> QED
      BY <1>2, <2>1 DEF Plans
  <1> QED
    BY <1>3, <1>4, <1>5 DEF Kept

LEMMA EndKeeps ==
    ASSUME Inv, cmd' = Idle, TheBook' = TheBook \/ Book!Next,
           UNCHANGED <<disk, active, cmds, gw, touched>>, chosen' \in Chosen \cup {None}
    PROVE  Kept
  <1>1. cmd'.pc = "idle"
    BY DEF Idle
  <1>2. Idle \in [pc : {"idle", "loaded", "empty", "fill"},
                  mem : [Groups -> Page \cup {None}], todo : Seq(Writes),
                  old : Page \cup {None, Torn}]
    <2>1. NoGroups \in [Groups -> Page \cup {None}] /\ <<>> \in Seq(Writes)
      BY DEF NoGroups
    <2> QED
      BY <2>1 DEF Idle
  <1> QED
    BY <1>1, <1>2 DEF Kept, Inv, TypeOK, Plans

LEMMA GiveUpKeeps == ASSUME Inv, GiveUp PROVE Kept
  <1>1. TheBook' = TheBook
    BY DEF GiveUp, Idle, TheBook, Writing
  <1> QED
    BY <1>1, EndKeeps DEF GiveUp, Inv, TypeOK

LEMMA ActKeeps == ASSUME Inv, Act PROVE Kept
  <1>1. DiskType /\ cmd.pc = "loaded" /\ cmd.mem = Loaded
    <2>1. cmd.pc = "loaded"
      BY DEF Act, Does
    <2> QED
      BY <2>1 DEF Inv, TypeOK, DiskType, Plans
  <1>2. PICK w : Good(TheBook, w) /\ Does(w)
    BY <1>1, ActGood
  <1>3. /\ cmd' = [cmd EXCEPT !.pc = "empty", !.todo = w, !.mem = NoGroups]
        /\ UNCHANGED <<disk, active, cmds, gw, chosen, touched>>
    BY <1>2 DEF Does
  <1>4. /\ cmd' \in [pc : {"idle", "loaded", "empty", "fill"},
                     mem : [Groups -> Page \cup {None}], todo : Seq(Writes),
                     old : Page \cup {None, Torn}]
        /\ cmd'.pc = "empty" /\ cmd'.todo = w
    <2>1. NoGroups \in [Groups -> Page \cup {None}] /\ w \in Seq(Writes)
      BY <1>2 DEF NoGroups, Good
    <2> QED
      BY <1>3, <2>1 DEF Inv, TypeOK
  <1>5. TheBook' = TheBook
    BY <1>1, <1>3, <1>4 DEF TheBook, Writing
  <1>6. TypeOK'
    BY <1>3, <1>4 DEF Inv, TypeOK
  <1>7. Plans'
    BY <1>2, <1>4, <1>5 DEF Plans
  <1> QED
    BY <1>5, <1>6, <1>7 DEF Kept

LEMMA PutEmptyKeeps == ASSUME Inv, PutEmpty PROVE Kept
  <1> DEFINE g == Now.group
  <1>1. Now \in Writes /\ g \in Groups /\ cmd.pc = "empty" /\ Now.op = "put"
    BY NowType, WriteTypes DEF Inv, PutEmpty
  <1>2. /\ cmd' = [cmd EXCEPT !.pc = "fill", !.old = disk[g]]
        /\ disk' = [disk EXCEPT ![g] = Torn]
        /\ UNCHANGED <<active, cmds, gw, chosen, touched>>
    BY DEF PutEmpty
  <1>3. /\ cmd' \in [pc : {"idle", "loaded", "empty", "fill"},
                     mem : [Groups -> Page \cup {None}], todo : Seq(Writes),
                     old : Page \cup {None, Torn}]
        /\ cmd'.pc = "fill" /\ cmd'.todo = cmd.todo /\ cmd'.old = disk[g]
    BY <1>1, <1>2 DEF Inv, TypeOK
  <1>4. Now' = Now
    BY <1>3 DEF Now
  <1>5. TheBook' = TheBook
    <2> SUFFICES ASSUME NEW h \in Groups PROVE TheBook'[h] = TheBook[h]
      BY DEF TheBook
    <2>1. TheBook[h] = PageOf(disk[h])
      BY <1>1 DEF TheBook, Writing
    <2>2. TheBook'[h] = PageOf(IF h = g THEN disk[g] ELSE disk'[h])
      BY <1>1, <1>3, <1>4 DEF TheBook, Writing
    <2>3. h # g => disk'[h] = disk[h]
      BY <1>1, <1>2 DEF Inv, TypeOK
    <2> QED
      BY <2>1, <2>2, <2>3
  <1>6. TypeOK'
    BY <1>1, <1>2, <1>3 DEF Inv, TypeOK
  <1>7. Plans'
    <2>1. Good(TheBook', cmd'.todo)
      BY <1>1, <1>3, <1>5 DEF Inv, Plans
    <2>2. disk'[g] = Torn
      BY <1>1, <1>2 DEF Inv, TypeOK
    <2> QED
      BY <1>1, <1>3, <1>4, <2>1, <2>2 DEF Plans
  <1> QED
    BY <1>5, <1>6, <1>7 DEF Kept

LEMMA PutFillKeeps == ASSUME Inv, PutFill PROVE Kept
  <1> DEFINE g == Now.group
             y == PageOf(Now.page)
  <1>1. /\ Now \in Writes /\ g \in Groups /\ Now.page \in Page /\ Now = cmd.todo[1]
        /\ cmd.pc = "fill" /\ Now.op = "put"
        /\ cmd.todo \in Seq(Writes) /\ cmd.todo # <<>>
    BY NowType, WriteTypes DEF Inv, PutFill
  <1>2. /\ disk' = [disk EXCEPT ![g] = Now.page] /\ cmd' = Written
        /\ UNCHANGED <<active, cmds, gw, chosen, touched>>
    BY DEF PutFill
  <1>3. cmd'.pc \in {"idle", "empty"}
    <2>1. CASE Len(cmd.todo) = 1
      BY <1>2, <2>1 DEF Written, Idle
    <2>2. CASE Len(cmd.todo) # 1
      BY <1>2, <2>2 DEF Written, Inv, TypeOK
    <2> QED
      BY <2>1, <2>2
  <1>4. TheBook' = [TheBook EXCEPT ![g] = y]
    <2> SUFFICES ASSUME NEW h \in Groups
                 PROVE  TheBook'[h] = IF h = g THEN y ELSE TheBook[h]
      BY <1>1 DEF TheBook
    <2>1. TheBook'[h] = PageOf(disk'[h])
      BY <1>3 DEF TheBook, Writing
    <2>2. h # g => TheBook[h] = PageOf(disk[h]) /\ disk'[h] = disk[h]
      BY <1>1, <1>2 DEF TheBook, Writing, Inv, TypeOK
    <2>3. h = g => disk'[h] = Now.page
      BY <1>1, <1>2 DEF Inv, TypeOK
    <2> QED
      BY <2>1, <2>2, <2>3
  <1>5. /\ Plans'
        /\ cmd' \in [pc : {"idle", "loaded", "empty", "fill"},
                     mem : [Groups -> Page \cup {None}], todo : Seq(Writes),
                     old : Page \cup {None, Torn}]
    BY <1>1, <1>2, <1>4, WrittenPlans DEF Inv
  <1>6. TypeOK'
    BY <1>1, <1>2, <1>5 DEF Inv, TypeOK
  <1>7. [Book!Next]_TheBook
    <2>1. 1 \in DOMAIN cmd.todo /\ Planned(TheBook, cmd.todo)
      BY <1>1, LenProperties, EmptySeq DEF Inv, Plans, Good
    <2>2. \/ Edited(TheBook[g], y)
          \/ TheBook[g] = None /\ \E h \in Groups : TheBook[h] = y
      BY <1>1, <2>1 DEF Planned
    <2>3. CASE Edited(TheBook[g], y)
      BY <1>1, <1>4, <2>3, BookTyped, EditIsNext DEF Inv
    <2>4. ASSUME TheBook[g] = None, NEW h \in Groups, TheBook[h] = y PROVE Book!Next
      BY <1>1, <1>4, <2>4, PageOfPage, CopyIsNext
    <2> QED
      BY <2>2, <2>3, <2>4
  <1> QED
    BY <1>5, <1>6, <1>7 DEF Kept

LEMMA DropFileKeeps == ASSUME Inv, DropFile PROVE Kept
  <1> DEFINE g == Now.group
  <1>1. Now \in Writes /\ g \in Groups /\ cmd.pc = "empty" /\ Now.op = "drop"
    BY NowType, WriteTypes DEF Inv, DropFile
  <1>2. /\ disk' = [disk EXCEPT ![g] = None] /\ cmd' = Written
        /\ UNCHANGED <<active, cmds, gw, chosen, touched>>
    BY DEF DropFile
  <1>3. /\ Plans' /\ cmd'.pc \in {"idle", "empty"}
        /\ cmd' \in [pc : {"idle", "loaded", "empty", "fill"},
                     mem : [Groups -> Page \cup {None}], todo : Seq(Writes),
                     old : Page \cup {None, Torn}]
    BY <1>1, <1>2, WrittenPlans DEF Inv
  <1>4. TheBook' = [TheBook EXCEPT ![g] = None]
    <2> SUFFICES ASSUME NEW h \in Groups
                 PROVE  TheBook'[h] = IF h = g THEN None ELSE TheBook[h]
      BY <1>1 DEF TheBook
    <2>1. TheBook'[h] = PageOf(disk'[h]) /\ TheBook[h] = PageOf(disk[h])
      BY <1>1, <1>3 DEF TheBook, Writing
    <2>2. disk'[h] = IF h = g THEN None ELSE disk[h]
      BY <1>1, <1>2 DEF Inv, TypeOK
    <2> QED
      BY <2>1, <2>2 DEF PageOf
  <1>5. TypeOK'
    BY <1>1, <1>2, <1>3 DEF Inv, TypeOK
  <1>6. [Book!Next]_TheBook
    BY <1>1, <1>4, BookTyped, DropIsNext DEF Inv
  <1> QED
    BY <1>3, <1>5, <1>6 DEF Kept

LEMMA RetargetSkipKeeps == ASSUME Inv, RetargetSkip PROVE Kept /\ chosen' = chosen
  <1>1. cmd.pc = "empty" /\ Now.op = "retarget"
    BY DEF RetargetSkip
  <1>2. /\ ~IsIn(active, Now.group) /\ chosen' = Moved(chosen) /\ cmd' = Written
        /\ UNCHANGED <<disk, active, cmds, gw, touched>>
    BY DEF RetargetSkip
  <1>3. chosen' = chosen
    BY <1>2 DEF Inv, Agrees, Moved, IsIn
  <1>4. /\ Plans' /\ cmd'.pc \in {"idle", "empty"}
        /\ cmd' \in [pc : {"idle", "loaded", "empty", "fill"},
                     mem : [Groups -> Page \cup {None}], todo : Seq(Writes),
                     old : Page \cup {None, Torn}]
    BY <1>1, <1>2, WrittenPlans DEF Inv
  <1>5. TheBook' = TheBook
    BY <1>1, <1>2, <1>4 DEF TheBook, Writing
  <1>6. TypeOK'
    BY <1>2, <1>3, <1>4 DEF Inv, TypeOK
  <1> QED
    BY <1>3, <1>4, <1>5, <1>6 DEF Kept

LEMMA RetargetEmptyKeeps == ASSUME Inv, RetargetEmpty PROVE Kept
  <1>1. Now \in Writes /\ Now.to \in Groups /\ cmd.pc = "empty" /\ Now.op = "retarget"
    BY NowType, WriteTypes DEF Inv, RetargetEmpty
  <1> DEFINE c == Choice(Now.to, active.link)
             x == [op |-> "choose", choice |-> c, meant |-> c]
  <1>2. /\ cmd' = [cmd EXCEPT !.pc = "fill", !.todo = <<x>>]
        /\ active' = None /\ chosen' = None /\ touched' = TRUE
        /\ UNCHANGED <<disk, cmds, gw>>
    BY DEF RetargetEmpty
  <1>3. c \in Chosen
    <2>1. active \in Chosen
      BY DEF RetargetEmpty, IsIn, Inv, TypeOK
    <2>2. active.link \in Links
      BY <2>1 DEF Chosen
    <2> QED
      BY <1>1, <2>2 DEF Choice, Chosen
  <1> HIDE DEF c
  <1>4. x \in Writes /\ x.op = "choose" /\ x.choice = x.meant
    BY <1>3 DEF Writes
  <1> HIDE DEF x
  <1>5. Good(TheBook, <<x>>)
    BY <1>4, OneOther
  <1>6. /\ cmd' \in [pc : {"idle", "loaded", "empty", "fill"},
                     mem : [Groups -> Page \cup {None}], todo : Seq(Writes),
                     old : Page \cup {None, Torn}]
        /\ cmd'.pc = "fill" /\ cmd'.todo = <<x>>
    <2>1. <<x>> \in Seq(Writes)
      BY <1>4
    <2> QED
      BY <1>2, <2>1 DEF Inv, TypeOK
  <1>7. Now' = x
    BY <1>6 DEF Now
  <1>8. TheBook' = TheBook
    BY <1>1, <1>2, <1>4, <1>7 DEF TheBook, Writing
  <1>9. TypeOK'
    BY <1>2, <1>6 DEF Inv, TypeOK
  <1>10. Plans'
    BY <1>4, <1>5, <1>6, <1>7, <1>8 DEF Plans
  <1> QED
    BY <1>8, <1>9, <1>10 DEF Kept

LEMMA ChooseEmptyKeeps == ASSUME Inv, ChooseEmpty PROVE Kept
  <1>1. /\ cmd.pc = "empty" /\ Now.op = "choose"
        /\ cmd' = [cmd EXCEPT !.pc = "fill"]
        /\ active' = None /\ chosen' = None /\ touched' = TRUE
        /\ UNCHANGED <<disk, cmds, gw>>
    BY DEF ChooseEmpty
  <1>2. /\ cmd' \in [pc : {"idle", "loaded", "empty", "fill"},
                     mem : [Groups -> Page \cup {None}], todo : Seq(Writes),
                     old : Page \cup {None, Torn}]
        /\ cmd'.pc = "fill" /\ cmd'.todo = cmd.todo
    BY <1>1 DEF Inv, TypeOK
  <1>3. Now' = Now
    BY <1>2 DEF Now
  <1>4. TheBook' = TheBook
    BY <1>1, <1>3 DEF TheBook, Writing
  <1>5. TypeOK'
    BY <1>1, <1>2 DEF Inv, TypeOK
  <1>6. Plans'
    BY <1>1, <1>2, <1>3, <1>4 DEF Inv, Plans
  <1> QED
    BY <1>4, <1>5, <1>6 DEF Kept

LEMMA ChooseFillKeeps == ASSUME Inv, ChooseFill PROVE Kept /\ chosen' = active'
  <1>1. /\ Now \in Writes /\ Now.choice \in Chosen /\ Now.meant \in Chosen
        /\ cmd.pc = "fill" /\ Now.op = "choose"
    BY NowType, WriteTypes DEF Inv, ChooseFill
  <1>2. /\ cmd' = Written
        /\ active' = Now.choice /\ chosen' = Now.meant /\ touched' = TRUE
        /\ UNCHANGED <<disk, cmds, gw>>
    BY DEF ChooseFill
  <1>3. Now.choice = Now.meant
    <2>1. Honest(cmd.todo) /\ 1 \in DOMAIN cmd.todo /\ Now = cmd.todo[1]
      BY <1>1, NowType, LenProperties, EmptySeq DEF Inv, Plans, Good
    <2> QED
      BY <1>1, <2>1 DEF Honest
  <1>4. /\ Plans' /\ cmd'.pc \in {"idle", "empty"}
        /\ cmd' \in [pc : {"idle", "loaded", "empty", "fill"},
                     mem : [Groups -> Page \cup {None}], todo : Seq(Writes),
                     old : Page \cup {None, Torn}]
    BY <1>1, <1>2, WrittenPlans DEF Inv
  <1>5. TheBook' = TheBook
    BY <1>1, <1>2, <1>4 DEF TheBook, Writing
  <1>6. TypeOK'
    BY <1>1, <1>2, <1>4 DEF Inv, TypeOK
  <1> QED
    BY <1>2, <1>3, <1>4, <1>5, <1>6 DEF Kept

(* A command that dies loses the page it was writing, and no other.        *)
LEMMA DieKeeps == ASSUME Inv, Die PROVE Kept
  <1>1. cmd' = Idle /\ UNCHANGED <<disk, active, cmds, gw, touched>>
    BY DEF Die
  <1>2. chosen' \in Chosen \cup {None}
    BY DEF Die, Inv, TypeOK
  <1>3. \A h \in Groups : TheBook'[h] = PageOf(disk[h])
    BY <1>1 DEF TheBook, Writing, Idle
  <1>4. CASE cmd.pc = "fill" /\ Now.op = "put"
    <2> DEFINE g == Now.group
    <2>1. g \in Groups /\ disk[g] = Torn
      BY <1>4, NowType, WriteTypes DEF Inv, Plans
    <2>2. TheBook' = [TheBook EXCEPT ![g] = Torn]
      <3> SUFFICES ASSUME NEW h \in Groups
                   PROVE  TheBook'[h] = IF h = g THEN Torn ELSE TheBook[h]
        BY <2>1 DEF TheBook
      <3>1. h # g => TheBook[h] = PageOf(disk[h])
        BY DEF TheBook, Writing
      <3> QED
        BY <1>3, <2>1, <3>1 DEF PageOf
    <2>3. Book!Next
      BY <2>1, <2>2, LoseIsNext
    <2> QED
      BY <1>1, <1>2, <2>3, EndKeeps
  <1>5. CASE ~(cmd.pc = "fill" /\ Now.op = "put")
    <2>1. TheBook' = TheBook
      BY <1>1, <1>5 DEF TheBook, Writing, Idle
    <2> QED
      BY <1>1, <1>2, <2>1, EndKeeps
  <1> QED
    BY <1>4, <1>5

-----------------------------------------------------------------------------
(* The gateway, whose steps touch neither the files nor the command.       *)

GwRecord == [pc : {"off", "pick", "mark", "try", "up"}, mem : [Groups -> Page \cup {None}],
             cur : Chosen \cup {None}, link : Chosen \cup {None}, then : {"off", "try", "up"}]

Answered == TypeOK' /\ Holds' /\ Agrees'

LEMMA LoadedType ==
    ASSUME TypeOK
    PROVE  /\ Loaded \in [Groups -> Page \cup {None}]
           /\ \A g \in Groups : In(Loaded, g) => Loaded[g].tag = g
  <1> SUFFICES ASSUME NEW g \in Groups
               PROVE  /\ Loaded[g] \in Page \cup {None}
                      /\ In(Loaded, g) => Loaded[g].tag = g
    BY DEF Loaded
  <1>1. CASE ~Readable(g)
    BY <1>1 DEF Loaded, In
  <1>2. CASE Readable(g)
    <2>1. disk[g] \in Page
      BY <1>2 DEF Readable, TypeOK
    <2> QED
      BY <1>2, <2>1 DEF Loaded, Page
  <1> QED
    BY <1>1, <1>2

(* The link that the gateway tries is in a group it knows.                 *)
LEMMA LinkKnown ==
    ASSUME Inv, gw.pc \in {"mark", "try", "up"}
    PROVE  /\ gw.link \in Chosen /\ gw.link.group \in Groups /\ gw.link.link \in Links
           /\ gw.mem[gw.link.group] \in Page
           /\ gw.mem[gw.link.group].links \in Seq(Links)
           /\ gw.mem[gw.link.group].tag = gw.link.group
  <1>1. gw.link \in Chosen
    BY DEF Inv, TypeOK, Holds
  <1>2. gw.link.group \in Groups /\ gw.link.link \in Links
    BY <1>1 DEF Chosen
  <1>3. gw.mem[gw.link.group] \in Page /\ gw.mem[gw.link.group].tag = gw.link.group
    BY <1>2 DEF Inv, TypeOK, Holds, In
  <1> QED
    BY <1>1, <1>2, <1>3 DEF Page

LEMMA GwLoadAnswers == ASSUME Inv, GwLoad PROVE Answered
  <1>1. /\ gw' = [pc |-> "pick", mem |-> Loaded, cur |-> None, link |-> None, then |-> "off"]
        /\ UNCHANGED <<disk, active, cmd, cmds, chosen, touched>>
    BY DEF GwLoad, Off
  <1>2. /\ Loaded \in [Groups -> Page \cup {None}]
        /\ \A g \in Groups : In(Loaded, g) => Loaded[g].tag = g
    BY LoadedType DEF Inv
  <1>3. gw' \in GwRecord
    BY <1>1, <1>2 DEF GwRecord
  <1>4. TypeOK'
    BY <1>1, <1>3 DEF Inv, TypeOK, GwRecord
  <1>5. Holds'
    BY <1>1, <1>2 DEF Holds, In
  <1>6. Agrees'
    BY <1>1 DEF Inv, Agrees
  <1> QED
    BY <1>4, <1>5, <1>6 DEF Answered

LEMMA PickActiveAnswers == ASSUME Inv, PickActive PROVE Answered /\ gw'.link = GetActiveLink
  <1> DEFINE l == GetActiveLink
  <1>1. /\ gw.pc = "pick" /\ l # None
        /\ gw' = [gw EXCEPT !.pc = "try", !.link = l]
        /\ touched' = (touched /\ gw.cur # None)
        /\ UNCHANGED <<disk, active, cmd, cmds, chosen>>
    BY DEF PickActive
  <1>2. /\ l \in Chosen
        /\ gw.cur # None => l = gw.cur
        /\ gw.cur = None => l = active
        /\ In(gw.mem, l.group)
    BY <1>1 DEF GetActiveLink, Has, Inv, TypeOK, Holds
  <1> HIDE DEF l
  <1>3. /\ gw' \in GwRecord
        /\ gw'.pc = "try" /\ gw'.link = l /\ gw'.mem = gw.mem /\ gw'.cur = gw.cur
    BY <1>1, <1>2 DEF Inv, TypeOK, GwRecord
  <1>4. TypeOK'
    BY <1>1, <1>3 DEF Inv, TypeOK, GwRecord
  <1>5. Holds'
    BY <1>1, <1>2, <1>3 DEF Inv, Holds, In
  <1>6. Agrees'
    BY <1>1, <1>2, <1>3 DEF Inv, Agrees
  <1> QED
    BY <1>3, <1>4, <1>5, <1>6 DEF Answered, l

(* SetActiveLink begins, on a link of a group that the gateway knows.      *)
LEMMA MarkAnswers ==
    ASSUME Inv, NEW g \in Groups, In(gw.mem, g), NEW l \in Links, NEW next \in {"try", "up"},
           Mark(g, l, next), UNCHANGED <<disk, cmd, cmds>>, touched' \in BOOLEAN
    PROVE  Answered
  <1> DEFINE c == Choice(g, l)
  <1>1. c \in Chosen /\ c.group = g
    BY DEF Choice, Chosen
  <1>2. /\ gw' = [gw EXCEPT !.pc = "mark", !.cur = c, !.link = c, !.then = next]
        /\ active' = None /\ chosen' = None
    BY DEF Mark
  <1> HIDE DEF c
  <1>3. /\ gw' \in GwRecord /\ gw'.pc = "mark" /\ gw'.mem = gw.mem
        /\ gw'.cur = c /\ gw'.link = c
    BY <1>1, <1>2 DEF Inv, TypeOK, GwRecord
  <1>4. TypeOK'
    BY <1>2, <1>3 DEF Inv, TypeOK, GwRecord
  <1>5. c # None
    BY <1>1, ProfileStoreAssumption DEF ProfileStoreAssumption
  <1>6. Holds'
    BY <1>1, <1>3, <1>5 DEF Inv, Holds, In
  <1>7. Agrees'
    BY <1>2, <1>3 DEF Agrees
  <1> QED
    BY <1>4, <1>6, <1>7 DEF Answered

LEMMA PickAnyAnswers == ASSUME Inv, PickAny PROVE Answered
  <1>1. PICK g \in Groups :
          /\ In(gw.mem, g)
          /\ \E i \in DOMAIN gw.mem[g].links : Mark(g, gw.mem[g].links[i], "try")
    BY DEF PickAny
  <1>2. PICK i \in DOMAIN gw.mem[g].links : Mark(g, gw.mem[g].links[i], "try")
    BY <1>1
  <1>3. gw.mem[g].links[i] \in Links
    <2>1. gw.mem[g] \in Page
      BY <1>1 DEF Inv, TypeOK, In
    <2>2. gw.mem[g].links \in Seq(Links)
      BY <2>1 DEF Page
    <2> QED
      BY <2>2, ElementOfSeq
  <1>4. UNCHANGED <<disk, cmd, cmds>> /\ touched' \in BOOLEAN
    BY DEF PickAny
  <1> QED
    BY <1>1, <1>2, <1>3, <1>4, MarkAnswers

LEMMA MarkFillAnswers == ASSUME Inv, MarkFill PROVE Answered
  <1>1. /\ gw.pc = "mark" /\ chosen' = gw.link
        /\ active' = Choice(gw.mem[gw.link.group].tag, gw.link.link)
        /\ gw' = [gw EXCEPT !.pc = gw.then]
        /\ UNCHANGED <<disk, cmd, cmds, touched>>
    BY DEF MarkFill
  <1>2. gw.link \in Chosen /\ active' = gw.link
    BY <1>1, LinkKnown DEF Choice, Chosen
  <1>3. /\ gw' \in GwRecord /\ gw'.pc \in {"off", "try", "up"} /\ gw'.mem = gw.mem
        /\ gw'.cur = gw.cur /\ gw'.link = gw.link
    BY <1>1 DEF Inv, TypeOK, GwRecord
  <1>4. TypeOK'
    BY <1>1, <1>2, <1>3 DEF Inv, TypeOK, GwRecord
  <1>5. Holds'
    BY <1>1, <1>3 DEF Inv, Holds, In
  <1>6. Agrees'
    BY <1>1, <1>2, <1>3 DEF Agrees
  <1> QED
    BY <1>4, <1>5, <1>6 DEF Answered

LEMMA TryLinkAnswers == ASSUME Inv, TryLink PROVE Answered
  <1>1. /\ gw.pc = "try" /\ gw' = [gw EXCEPT !.pc = "up"]
        /\ UNCHANGED <<disk, active, cmd, cmds, chosen, touched>>
    BY DEF TryLink
  <1>2. /\ gw' \in GwRecord /\ gw'.pc = "up" /\ gw'.mem = gw.mem
        /\ gw'.cur = gw.cur /\ gw'.link = gw.link
    BY <1>1 DEF Inv, TypeOK, GwRecord
  <1>3. TypeOK'
    BY <1>1, <1>2 DEF Inv, TypeOK, GwRecord
  <1>4. Holds'
    BY <1>1, <1>2 DEF Inv, Holds, In
  <1>5. Agrees'
    BY <1>1, <1>2 DEF Inv, Agrees
  <1> QED
    BY <1>3, <1>4, <1>5 DEF Answered

LEMMA TryOthersAnswers == ASSUME Inv, TryOthers PROVE Answered
  <1> DEFINE g == gw.link.group
  <1>1. gw.pc = "try" /\ UNCHANGED <<disk, cmd, cmds, touched>>
    BY DEF TryOthers
  <1>2. PICK l \in Usable(gw.mem[g].links) : Mark(g, l, "up")
    BY DEF TryOthers
  <1>3. /\ g \in Groups /\ gw.mem[g] \in Page /\ gw.mem[g].links \in Seq(Links)
    BY <1>1, LinkKnown
  <1>4. l \in Links
    BY <1>2, <1>3, RangeOfSeq DEF Usable
  <1>5. In(gw.mem, g)
    BY <1>1 DEF Inv, Holds
  <1>6. touched' \in BOOLEAN
    BY <1>1 DEF Inv, TypeOK
  <1> HIDE DEF g
  <1> QED
    BY <1>1, <1>2, <1>3, <1>4, <1>5, <1>6, MarkAnswers

LEMMA TryAgainAnswers == ASSUME Inv, TryAgain PROVE Answered
  <1>1. /\ gw.pc = "try" /\ gw' = [gw EXCEPT !.pc = "pick", !.link = None]
        /\ UNCHANGED <<disk, active, cmd, cmds, chosen, touched>>
    BY DEF TryAgain
  <1>2. /\ gw' \in GwRecord /\ gw'.pc = "pick" /\ gw'.mem = gw.mem
        /\ gw'.cur = gw.cur /\ gw'.link = None
    BY <1>1 DEF Inv, TypeOK, GwRecord
  <1>3. TypeOK'
    BY <1>1, <1>2 DEF Inv, TypeOK, GwRecord
  <1>4. Holds'
    BY <1>1, <1>2 DEF Inv, Holds, In
  <1>5. Agrees'
    BY <1>1, <1>2 DEF Inv, Agrees, Holds
  <1> QED
    BY <1>3, <1>4, <1>5 DEF Answered

LEMMA GwEndAnswers == ASSUME Inv, GwEnd PROVE Answered
  <1>1. /\ gw' = [pc |-> "off", mem |-> NoGroups, cur |-> None, link |-> None, then |-> "off"]
        /\ UNCHANGED <<disk, active, cmd, cmds, chosen, touched>>
    BY DEF GwEnd, Off
  <1>2. gw' \in GwRecord /\ \A g \in Groups : ~In(gw'.mem, g)
    BY <1>1 DEF GwRecord, NoGroups, In
  <1>3. TypeOK'
    BY <1>1, <1>2 DEF Inv, TypeOK, GwRecord
  <1>4. Holds'
    BY <1>1, <1>2 DEF Holds
  <1>5. Agrees'
    BY <1>1 DEF Inv, Agrees
  <1> QED
    BY <1>3, <1>4, <1>5 DEF Answered

LEMMA GatewayAnswers == ASSUME Inv, Gateway PROVE Answered /\ UNCHANGED <<disk, cmd>>
  <1>1. Answered
    BY GwLoadAnswers, PickActiveAnswers, PickAnyAnswers, MarkFillAnswers, TryLinkAnswers,
       TryOthersAnswers, TryAgainAnswers, GwEndAnswers DEF Gateway
  <1>2. UNCHANGED <<disk, cmd>>
    BY DEF Gateway, GwLoad, PickActive, PickAny, MarkFill, TryLink, TryOthers, TryAgain, GwEnd
  <1> QED
    BY <1>1, <1>2

-----------------------------------------------------------------------------
(* Every step                                                              *)

LEMMA CommandKeeps == ASSUME Inv, Command PROVE Kept
  BY BeginKeeps, GiveUpKeeps, ActKeeps, PutEmptyKeeps, PutFillKeeps, DropFileKeeps,
     RetargetSkipKeeps, RetargetEmptyKeeps, ChooseEmptyKeeps, ChooseFillKeeps, DieKeeps
     DEF Command

(* A command leaves the gateway alone; if it writes .active, that is noted.*)
LEMMA CommandAgrees == ASSUME Inv, Command PROVE Holds' /\ Agrees'
  <1>1. gw' = gw
    BY DEF Command, Begin, GiveUp, Act, Does, PutEmpty, PutFill, DropFile, RetargetSkip,
           RetargetEmpty, ChooseEmpty, ChooseFill, Die
  <1>2. Holds'
    BY <1>1 DEF Inv, Holds, In
  <1>3. \/ active' = active /\ touched' = touched /\ chosen' \in {None, chosen}
        \/ touched' = TRUE /\ chosen' \in {None, active'}
    <2>1. CASE Begin \/ GiveUp \/ Act \/ PutEmpty \/ PutFill \/ DropFile \/ Die
      BY <2>1 DEF Begin, GiveUp, Act, Does, PutEmpty, PutFill, DropFile, Die
    <2>2. CASE RetargetSkip
      BY <2>2, RetargetSkipKeeps DEF RetargetSkip
    <2>3. CASE RetargetEmpty \/ ChooseEmpty
      BY <2>3 DEF RetargetEmpty, ChooseEmpty
    <2>4. CASE ChooseFill
      BY <2>4, ChooseFillKeeps DEF ChooseFill
    <2> QED
      BY <2>1, <2>2, <2>3, <2>4 DEF Command
  <1>4. Agrees'
    BY <1>1, <1>3 DEF Inv, Agrees
  <1> QED
    BY <1>2, <1>4

LEMMA InvInit == ASSUME Init PROVE Inv
  <1>1. disk \in [Groups -> Page \cup {None}]
    BY ProfileStoreAssumption DEF Init, ProfileStoreAssumption
  <1>2. NoGroups \in [Groups -> Page \cup {None}] /\ <<>> \in Seq(Writes)
    BY DEF NoGroups
  <1>3. /\ cmd = [pc |-> "idle", mem |-> NoGroups, todo |-> <<>>, old |-> None]
        /\ gw = [pc |-> "off", mem |-> NoGroups, cur |-> None, link |-> None,
                 then |-> "off"]
        /\ active \in Chosen \cup {None} /\ chosen = active
        /\ cmds = 0 /\ touched = FALSE
    BY DEF Init, Idle, Off
  <1>4. 0 \in 0..MaxCmds
    BY ProfileStoreAssumption DEF ProfileStoreAssumption
  <1>5. TypeOK
    <2>1. gw \in GwRecord
      BY <1>2, <1>3 DEF GwRecord
    <2>2. cmd \in [pc : {"idle", "loaded", "empty", "fill"},
                   mem : [Groups -> Page \cup {None}], todo : Seq(Writes),
                   old : Page \cup {None, Torn}]
      BY <1>2, <1>3
    <2>3. disk \in [Groups -> Page \cup {None, Torn}]
      BY <1>1
    <2> QED
      BY <1>3, <1>4, <2>1, <2>2, <2>3 DEF TypeOK, GwRecord
  <1>6. Plans
    BY <1>3 DEF Plans
  <1>7. Holds /\ Agrees
    BY <1>3 DEF Holds, Agrees, NoGroups, In
  <1> QED
    BY <1>5, <1>6, <1>7 DEF Inv

LEMMA InvNext == ASSUME Inv, [Next]_vars PROVE Inv' /\ [Book!Next]_TheBook
  <1>1. CASE Command
    BY <1>1, CommandKeeps, CommandAgrees DEF Kept, Inv
  <1>2. CASE Gateway
    BY <1>2, GatewayAnswers, SameBook DEF Answered, Inv
  <1>3. CASE UNCHANGED vars
    <2>1. Plans' /\ TheBook' = TheBook
      BY <1>3, SameBook DEF vars, Inv
    <2>2. TypeOK'
      BY <1>3 DEF vars, Inv, TypeOK
    <2>3. Holds' /\ Agrees'
      BY <1>3 DEF vars, Inv, Holds, Agrees, In
    <2> QED
      BY <2>1, <2>2, <2>3 DEF Inv
  <1> QED
    BY <1>1, <1>2, <1>3 DEF Next

LEMMA InvHolds == Spec => []Inv
  <1>1. Init => Inv
    BY InvInit
  <1>2. Inv /\ [Next]_vars => Inv'
    BY InvNext
  <1> QED
    BY <1>1, <1>2, PTL DEF Spec

-----------------------------------------------------------------------------
(* The properties                                                          *)

(* Whatever is written over whatever was found, the files hold pages, no   *)
(* file or nothing whole, and the copies in memory hold pages.             *)
THEOREM StoreIsWellTyped == Spec => []TypeOK
  BY InvHolds, PTL DEF Inv

(* While a gateway is up and no command has written .active since it read  *)
(* it, .active names the link that it runs on: after a fallback too.       *)
THEOREM ActiveNamesTheLink == Spec => []ActiveIsRunning
  <1>1. Inv => ActiveIsRunning
    BY DEF Inv, Agrees, ActiveIsRunning
  <1> QED
    BY <1>1, InvHolds, PTL

(* A gateway that starts afresh uses the last choice that was made, if it  *)
(* knows the link: no rename, no death and no interleaving loses it while  *)
(* .active is whole.                                                       *)
THEOREM StartsWithTheChoice == Spec => StartsWhatWasChosen
  <1> DEFINE Starts == (gw.pc = "pick" /\ gw'.pc \in {"try", "mark"} /\ gw.cur = None
                        /\ chosen # None /\ Has(gw.mem, chosen))
                       => gw'.link = chosen
  <1>1. ASSUME Inv, [Next]_vars PROVE [Starts]_vars
    <2> SUFFICES ASSUME gw.pc = "pick", gw'.pc \in {"try", "mark"}, gw.cur = None,
                        chosen # None, Has(gw.mem, chosen)
                 PROVE  gw'.link = chosen
      OBVIOUS
    <2>1. GetActiveLink = chosen
      BY <1>1 DEF Inv, Agrees, GetActiveLink
    <2>2. CASE PickActive
      BY <1>1, <2>1, <2>2, PickActiveAnswers
    <2>3. CASE PickAny
      BY <2>1, <2>3 DEF PickAny
    <2>4. CASE Command \/ UNCHANGED vars
      <3>1. gw' = gw
        BY <2>4 DEF vars, Command, Begin, GiveUp, Act, Does, PutEmpty, PutFill, DropFile,
           RetargetSkip, RetargetEmpty, ChooseEmpty, ChooseFill, Die
      <3> QED
        BY <3>1
    <2>5. CASE GwEnd
      BY <2>5 DEF GwEnd, Off
    <2>6. CASE GwLoad \/ MarkFill \/ TryLink \/ TryOthers \/ TryAgain
      BY <2>6 DEF GwLoad, MarkFill, TryLink, TryOthers, TryAgain, Off
    <2> QED
      BY <1>1, <2>2, <2>3, <2>4, <2>5, <2>6 DEF Next, Gateway
  <1> QED
    BY <1>1, InvHolds, PTL DEF Spec, StartsWhatWasChosen

(* The files, read with what a command still holds, implement the book:    *)
(* every write of every command is one edit of one page, and a command     *)
(* that is killed loses at most the page it was writing.                   *)
THEOREM BookIsKept == Spec => ImplementsBook
  <1>1. Init => Book!Init
    <2> SUFFICES ASSUME Init PROVE Book!Init
      OBVIOUS
    <2>1. /\ disk \in [Groups -> Page \cup {None}]
          /\ \A g \in Groups : TheBook[g] = PageOf(disk[g])
      BY ProfileStoreAssumption DEF Init, Idle, ProfileStoreAssumption, TheBook, Writing
    <2>2. \A g \in Groups : TheBook[g] \in Content \cup {None}
      BY <2>1, PageOfPage DEF PageOf
    <2>3. TheBook \in [Groups -> Content \cup {None}]
      BY <2>2 DEF TheBook
    <2> QED
      BY <2>3 DEF Book!Init, Content
  <1>2. Inv /\ [Next]_vars => [Book!Next]_TheBook
    BY InvNext
  <1> QED
    BY <1>1, <1>2, InvHolds, PTL DEF Spec, ImplementsBook, Book!Spec
=============================================================================
