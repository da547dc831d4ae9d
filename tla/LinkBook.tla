----------------------------- MODULE LinkBook ------------------------------
(***************************************************************************)
(* What the group files are for: a book with a page for each group, its    *)
(* links in order and its subscriptions. Every command makes one edit, on  *)
(* one page. A page can be dropped, which is the removal of a group, or    *)
(* lost, which is a death while it is written, at any time: what the book  *)
(* promises is that nothing else happens to a page, and no page changes    *)
(* with another one.                                                       *)
(***************************************************************************)
EXTENDS Naturals, Sequences, FiniteSets

CONSTANTS Groups, Links, URLs,
          None,   \* no such page
          Lost    \* a page that cannot be read
VARIABLE book

Page(links, subs) == [links |-> links, subs |-> subs]
Written == {g \in Groups : book[g] \notin {None, Lost}}

Init == book \in [Groups -> [links : Seq(Links), subs : Seq(URLs)] \cup {None}]

Turn(g, page) == book' = [book EXCEPT ![g] = page]

(* A new page is begun for a group that has none that can be read.         *)
Create(g) == g \notin Written /\ Turn(g, Page(<<>>, <<>>))
Start(g)  == g \notin Written /\ \E l \in Links : Turn(g, Page(<<l>>, <<>>))

Add(g)    == /\ g \in Written
             /\ \E l \in Links :
                  Turn(g, [book[g] EXCEPT !.links = Append(@, l)])

(* One link goes; the others stay, in their order.                         *)
Remove(g) == /\ g \in Written
             /\ \E i \in DOMAIN book[g].links :
                  Turn(g, [book[g] EXCEPT !.links = SubSeq(@, 1, i - 1)
                                                    \o SubSeq(@, i + 1, Len(@))])

Clear(g)  == g \in Written /\ Turn(g, [book[g] EXCEPT !.links = <<>>])

(* A subscription replaces the links by others, never by none.             *)
Refresh(g) == /\ g \in Written /\ book[g].subs # <<>>
              /\ book'[g] \notin {None, Lost} /\ book'[g].links # <<>>
              /\ Turn(g, [book[g] EXCEPT !.links = book'[g].links])

Subscribe(g) ==
    /\ g \in Written
    /\ \E u \in URLs : (\A i \in DOMAIN book[g].subs : book[g].subs[i] # u)
                       /\ Turn(g, [book[g] EXCEPT !.subs = Append(@, u)])

Unsubscribe(g) ==
    /\ g \in Written
    /\ \E i \in DOMAIN book[g].subs :
         Turn(g, [book[g] EXCEPT !.subs = SubSeq(@, 1, i - 1)
                                          \o SubSeq(@, i + 1, Len(@))])

Copy(g, h) == g \in Written /\ book[h] = None /\ Turn(h, book[g])
Drop(g)    == book[g] # None /\ Turn(g, None)
Lose(g)    == Turn(g, Lost)

Next == \E g \in Groups :
            \/ Create(g) \/ Start(g) \/ Add(g) \/ Remove(g) \/ Clear(g) \/ Refresh(g)
            \/ Subscribe(g) \/ Unsubscribe(g) \/ Drop(g) \/ Lose(g)
            \/ \E h \in Groups : Copy(g, h)

Spec == Init /\ [][Next]_book
=============================================================================
