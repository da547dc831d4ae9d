--------------------------- MODULE ProfileStore ----------------------------
(***************************************************************************)
(* internal/profile: the group files and .active, under the commands that  *)
(* write them and the gateway that reads them. A command loads every group *)
(* into its own memory, works there, and writes whole files; os.WriteFile  *)
(* empties a file before it fills it. The gateway loads the groups once    *)
(* and keeps that copy, while it reads and writes .active as it goes.      *)
(* A link is its remark: that is what .active and the commands know it by. *)
(***************************************************************************)
EXTENDS Naturals, Sequences, FiniteSets, SequencesExt

CONSTANTS
    Groups,    \* names of groups
    Default,   \* the group of the links added by hand
    Links,     \* remarks
    Bad,       \* the links with no usable address or port
    URLs,      \* subscriptions
    None,      \* no file; nothing chosen
    Torn,      \* a file that was emptied and not filled
    Stores,    \* the group files to begin with
    Fetches,   \* what a subscription may answer
    Outcomes,  \* what a test of a link may find
    MaxLinks,  \* bound: links in a group
    MaxCmds    \* bound: commands

VARIABLES
    disk,      \* disk[g]: the file of group g
    active,    \* .active: a choice, or None when it is missing or not whole
    cmd,       \* the command that runs: its copy of the groups, what it has
               \*   still to write, and what the file it writes held
    cmds,      \* commands so far
    gw,        \* the gateway: its copy, its own choice, the link it uses
    chosen,    \* history: the last choice that was made and recorded
    touched    \* history: a command wrote .active since the gateway read it

vars == <<disk, active, cmd, cmds, gw, chosen, touched>>

(* tag: the group that the links of a file say they belong to.             *)
Page == [links : Seq(Links), subs : Seq(URLs), tag : Groups]
Chosen == [group : Groups, link : Links]

(* What a page says, whatever group its file names.                        *)
Content == [links : Seq(Links), subs : Seq(URLs)]

ASSUME ProfileStoreAssumption ==
    /\ Default \in Groups /\ IsFiniteSet(Groups) /\ Bad \subseteq Links
    /\ {None, Torn} \cap (Page \cup Content) = {} /\ None # Torn /\ None \notin Chosen
    /\ Stores \subseteq [Groups -> Page \cup {None}]
    /\ Fetches \subseteq Seq(Links) \ {<<>>}
    /\ Outcomes \subseteq [passed : BOOLEAN, https : BOOLEAN, ms : Nat]
    /\ MaxLinks \in Nat /\ MaxCmds \in Nat

Empty(g) == [links |-> <<>>, subs |-> <<>>, tag |-> g]
Choice(g, l) == [group |-> g, link |-> l]

NoGroups == [g \in Groups |-> None]
Off  == [pc |-> "off", mem |-> NoGroups, cur |-> None, link |-> None, then |-> "off"]
Idle == [pc |-> "idle", mem |-> NoGroups, todo |-> <<>>, old |-> None]

Writes ==
    [op : {"put"}, group : Groups, page : Page] \cup [op : {"drop"}, group : Groups]
    \cup [op : {"choose"}, choice : Chosen, meant : Chosen]
    \cup [op : {"retarget"}, group : Groups, to : Groups]

TypeOK ==
    /\ disk \in [Groups -> Page \cup {None, Torn}]
    /\ active \in Chosen \cup {None}
    /\ cmd \in [pc : {"idle", "loaded", "empty", "fill"},
                mem : [Groups -> Page \cup {None}], todo : Seq(Writes),
                old : Page \cup {None, Torn}]
    /\ cmds \in 0..MaxCmds
    /\ gw \in [pc : {"off", "pick", "mark", "try", "up"},
               mem : [Groups -> Page \cup {None}],
               cur : Chosen \cup {None}, link : Chosen \cup {None},
               then : {"off", "try", "up"}]
    /\ chosen \in Chosen \cup {None} /\ touched \in BOOLEAN

-----------------------------------------------------------------------------
(* Memory                                                                  *)

Readable(g) == disk[g] \notin {None, Torn}

(* The links keep the group that is written in the file.                   *)
SlipLoaded == [g \in Groups |-> IF Readable(g) THEN disk[g] ELSE None]

(* A file that cannot be parsed is taken as it is.                         *)
SlipLoadTorn == [g \in Groups |-> IF disk[g] = None THEN None ELSE disk[g]]

(* loadAll: a file that cannot be parsed is skipped without a word; every  *)
(* link belongs to the group of its file, whatever the file says.          *)
Loaded == [g \in Groups |-> IF Readable(g) THEN [disk[g] EXCEPT !.tag = g] ELSE None]

In(mem, g) == mem[g] # None
Has(mem, c) == In(mem, c.group) /\ Contains(mem[c.group].links, c.link)
Usable(links) == Range(links) \ Bad

(* What earlier commands have left: nothing half written.                  *)
Init ==
    /\ disk \in Stores
    /\ active \in {None} \cup {c \in Chosen : Has(Loaded, c)}
    /\ cmd = Idle /\ cmds = 0 /\ gw = Off
    /\ chosen = active /\ touched = FALSE

(* SelectBest: the fastest of the links that relay HTTPS, or, when none    *)
(* does, of those that passed; the first of equals; 0 when none passed.    *)
SelectBest(results) ==
    LET passing == {i \in DOMAIN results : results[i].passed}
        https   == {i \in passing : results[i].https}
        among   == IF https # {} THEN https ELSE passing
        Better(i, j) == \/ results[i].ms < results[j].ms
                        \/ results[i].ms = results[j].ms /\ i <= j
    IN  IF among = {} THEN 0 ELSE CHOOSE i \in among : \A j \in among : Better(i, j)

-----------------------------------------------------------------------------
(* What each command writes, from the groups m it has loaded               *)

Put(g, page) == [op |-> "put", group |-> g, page |-> page]

(* SetActiveLink writes the group the link says it belongs to.             *)
Choose(m, g, l) == [op |-> "choose", choice |-> Choice(m[g].tag, l),
                    meant |-> Choice(g, l)]

(* The page of a group; a new one for a group that has none.               *)
PageIn(m, g) == IF In(m, g) THEN m[g] ELSE Empty(g)

Add(m) ==
    UNION { { <<Put(g, [PageIn(m, g) EXCEPT !.links = Append(@, l)])>> : l \in Links } :
            g \in Groups }

(* Every link of that remark goes.                                         *)
SlipRemoveLink(m) ==
    UNION { { <<Put(g, [m[g] EXCEPT !.links = SelectSeq(@, LAMBDA k : k # l)])>> :
              l \in Range(m[g].links) } : g \in {h \in Groups : In(m, h)} }

(* By name, or by number, which finds the name: the first link of it.      *)
Firsts(links) == {i \in DOMAIN links : \A j \in 1..(i - 1) : links[j] # links[i]}

RemoveLink(m) ==
    UNION { { <<Put(g, [m[g] EXCEPT !.links = RemoveAt(@, i)])>> :
              i \in Firsts(m[g].links) } : g \in {h \in Groups : In(m, h)} }

RemoveAll(m) == { <<Put(g, [m[g] EXCEPT !.links = <<>>])>> : g \in {h \in Groups : In(m, h)} }

(* sub add: the default group is never given one; a group that is new is   *)
(* saved empty first.                                                      *)
SubAdd(m) ==
    UNION { { IF In(m, g) THEN <<Put(g, [m[g] EXCEPT !.subs = Append(@, u)])>>
              ELSE <<Put(g, Empty(g)), Put(g, [Empty(g) EXCEPT !.subs = <<u>>])>> :
              u \in {v \in URLs : ~Contains(PageIn(m, g).subs, v)} } :
            g \in Groups \ {Default} }

(* FetchSubscription, for each subscription of a group: its links, or      *)
(* nothing when it fails or holds no link. More than MaxLinks of them      *)
(* would not fit below.                                                    *)
Answers(page) ==
    LET fetched == [DOMAIN page.subs -> Fetches \cup {<<>>}]
    IN  { all \in BoundedSeq(Links, MaxLinks) : \E f \in fetched : all = FlattenSeq(f) }

(* sub update, of one group or of all, in no fixed order: a group whose    *)
(* subscriptions all failed is left alone.                                 *)
SubUpdate(m) ==
    LET withSubs == {g \in Groups : In(m, g) /\ m[g].subs # <<>>}
        Pages(g) == { [m[g] EXCEPT !.links = all] : all \in Answers(m[g]) \ {<<>>} }
    IN  UNION { { [k \in DOMAIN order |-> Put(order[k], p[order[k]])] :
                  p \in {f \in [Range(order) -> UNION {Pages(g) : g \in Range(order)}] :
                           \A g \in Range(order) : f[g] \in Pages(g)} } :
                order \in UNION {SetToSeqs(S) : S \in (SUBSET withSubs) \ {{}}} }

SubRemove(m) ==
    UNION { { <<Put(g, [m[g] EXCEPT !.subs = RemoveAt(@, i)])>> : i \in DOMAIN m[g].subs } :
            g \in {h \in Groups : In(m, h)} }

(* select: the link of a number in a group, or a remark wherever it is.    *)
Select(m) == UNION { { <<Choose(m, g, l)>> : l \in Range(m[g].links) } :
                     g \in {h \in Groups : In(m, h)} }

(* bench: every usable link of the groups, each group saved with what was  *)
(* found, then the best link chosen if the user wants it.                  *)
Bench(m) ==
    LET tested == {g \in Groups : In(m, g) /\ Usable(m[g].links) # {}}
        Rows(order) == FlattenSeq([k \in DOMAIN order |->
                          LET g == order[k]
                              u == SelectSeq(m[g].links, LAMBDA l : l \notin Bad)
                          IN  [i \in DOMAIN u |-> Choice(g, u[i])]])
        Saves(order) == [k \in DOMAIN order |-> Put(order[k], m[order[k]])]
        Bests(rows) == { rows[i] : i \in { SelectBest(r) : r \in [DOMAIN rows -> Outcomes] }
                                          \ {0} }
    IN  UNION { {Saves(order)} \cup
                { Saves(order) \o <<Choose(m, c.group, c.link)>> :
                  c \in { d \in Chosen : /\ In(m, d.group)
                                         /\ d \in Bests(Rows(order)) } } :
                order \in {<<g>> : g \in tested} \cup (SetToSeqs(tested) \ {<<>>}) }

(* The menu works on the files themselves. A new group must have no file.  *)
CreateGroup == { <<Put(g, Empty(g))>> : g \in {h \in Groups : disk[h] = None} }

DeleteGroup == { <<[op |-> "drop", group |-> g]>> :
                 g \in {h \in Groups \ {Default} : disk[h] # None} }

(* renameGroup: the file under its new name, the old one removed, and      *)
(* .active pointed to the new name if it named the old one. The links keep *)
(* the group they had.                                                     *)
RenameGroup ==
    { <<Put(p[2], disk[p[1]]), [op |-> "drop", group |-> p[1]],
        [op |-> "retarget", group |-> p[1], to |-> p[2]]>> :
      p \in {q \in Groups \X Groups : Readable(q[1]) /\ disk[q[2]] = None} }

Fits(writes) == \A k \in DOMAIN writes :
                    writes[k].op = "put" => Len(writes[k].page.links) <= MaxLinks

-----------------------------------------------------------------------------
(* A command                                                               *)

Begin ==
    /\ cmd = Idle /\ cmds < MaxCmds
    /\ cmd' = [Idle EXCEPT !.pc = "loaded", !.mem = Loaded]
    /\ cmds' = cmds + 1
    /\ UNCHANGED <<disk, active, gw, chosen, touched>>

(* A command that finds nothing to do, or an error, ends.                  *)
GiveUp ==
    /\ cmd.pc = "loaded" /\ cmd' = Idle
    /\ UNCHANGED <<disk, active, cmds, gw, chosen, touched>>

Does(writes) ==
    /\ cmd.pc = "loaded" /\ Fits(writes)
    /\ cmd' = [cmd EXCEPT !.pc = "empty", !.todo = writes, !.mem = NoGroups]
    /\ UNCHANGED <<disk, active, cmds, gw, chosen, touched>>

Act ==
    \/ \E w \in Add(cmd.mem) : Does(w)
    \/ \E w \in RemoveLink(cmd.mem) : Does(w)
    \/ \E w \in RemoveAll(cmd.mem) : Does(w)
    \/ \E w \in SubAdd(cmd.mem) : Does(w)
    \/ \E w \in SubUpdate(cmd.mem) : Does(w)
    \/ \E w \in SubRemove(cmd.mem) : Does(w)
    \/ \E w \in Select(cmd.mem) : Does(w)
    \/ \E w \in Bench(cmd.mem) : Does(w)
    \/ \E w \in CreateGroup : Does(w)
    \/ \E w \in DeleteGroup : Does(w)
    \/ \E w \in RenameGroup : Does(w)

Now == Head(cmd.todo)

(* The next write, or the end of the command.                              *)
Written == IF Len(cmd.todo) = 1 THEN Idle
           ELSE [cmd EXCEPT !.pc = "empty", !.todo = Tail(@), !.old = None]

(* os.WriteFile opens the file, which empties it,                          *)
PutEmpty ==
    /\ cmd.pc = "empty" /\ Now.op = "put"
    /\ disk' = [disk EXCEPT ![Now.group] = Torn]
    /\ cmd' = [cmd EXCEPT !.pc = "fill", !.old = disk[Now.group]]
    /\ UNCHANGED <<active, cmds, gw, chosen, touched>>

(* and fills it.                                                           *)
PutFill ==
    /\ cmd.pc = "fill" /\ Now.op = "put"
    /\ disk' = [disk EXCEPT ![Now.group] = Now.page]
    /\ cmd' = Written
    /\ UNCHANGED <<active, cmds, gw, chosen, touched>>

(* A rename carries the choice along, until .active says so too.           *)
DropFile ==
    /\ cmd.pc = "empty" /\ Now.op = "drop"
    /\ disk' = [disk EXCEPT ![Now.group] = None]
    /\ cmd' = Written
    /\ UNCHANGED <<active, cmds, gw, chosen, touched>>

IsIn(c, g) == c # None /\ c.group = g

(* The place of the choice after the rename that is being made.            *)
Moved(c) == IF IsIn(c, Now.group) THEN [c EXCEPT !.group = Now.to] ELSE c

(* renameGroup ends when .active does not name the old group.              *)
RetargetSkip ==
    /\ cmd.pc = "empty" /\ Now.op = "retarget"
    /\ ~IsIn(active, Now.group)
    /\ cmd' = Written /\ chosen' = Moved(chosen)
    /\ UNCHANGED <<disk, active, cmds, gw, touched>>

RetargetEmpty ==
    /\ cmd.pc = "empty" /\ Now.op = "retarget"
    /\ IsIn(active, Now.group)
    /\ cmd' = [cmd EXCEPT !.pc = "fill",
                 !.todo = <<[op |-> "choose", choice |-> Choice(Now.to, active.link),
                             meant |-> Choice(Now.to, active.link)]>>]
    /\ active' = None /\ chosen' = None /\ touched' = TRUE
    /\ UNCHANGED <<disk, cmds, gw>>

ChooseEmpty ==
    /\ cmd.pc = "empty" /\ Now.op = "choose"
    /\ cmd' = [cmd EXCEPT !.pc = "fill"]
    /\ active' = None /\ chosen' = None /\ touched' = TRUE
    /\ UNCHANGED <<disk, cmds, gw>>

ChooseFill ==
    /\ cmd.pc = "fill" /\ Now.op = "choose"
    /\ cmd' = Written
    /\ active' = Now.choice /\ chosen' = Now.meant /\ touched' = TRUE
    /\ UNCHANGED <<disk, cmds, gw>>

(* The command is killed, or the machine stops: a choice that a rename was *)
(* carrying is lost.                                                       *)
Die ==
    /\ cmd # Idle /\ cmd' = Idle
    /\ chosen' = IF cmd.todo # <<>> /\ Now.op = "retarget" THEN None ELSE chosen
    /\ UNCHANGED <<disk, active, cmds, gw, touched>>

Command ==
    \/ Begin \/ GiveUp \/ Act
    \/ PutEmpty \/ PutFill \/ DropFile
    \/ RetargetSkip \/ RetargetEmpty \/ ChooseEmpty \/ ChooseFill \/ Die

-----------------------------------------------------------------------------
(* The gateway                                                             *)

GwLoad ==
    /\ gw = Off
    /\ gw' = [Off EXCEPT !.pc = "pick", !.mem = Loaded]
    /\ UNCHANGED <<disk, active, cmd, cmds, chosen, touched>>

(* GetActiveLink: the choice of this process, or the one in .active if the *)
(* copy of the groups has it.                                              *)
GetActiveLink == IF gw.cur # None THEN gw.cur
                 ELSE IF active # None /\ Has(gw.mem, active) THEN active ELSE None

PickActive ==
    /\ gw.pc = "pick" /\ GetActiveLink # None
    /\ gw' = [gw EXCEPT !.pc = "try", !.link = GetActiveLink]
    /\ touched' = (touched /\ gw.cur # None)
    /\ UNCHANGED <<disk, active, cmd, cmds, chosen>>

(* SetActiveLink begins: the link is the choice of this process, and       *)
(* .active is emptied.                                                     *)
Mark(g, l, next) ==
    /\ gw' = [gw EXCEPT !.pc = "mark", !.cur = Choice(g, l), !.link = Choice(g, l),
                        !.then = next]
    /\ active' = None /\ chosen' = None

(* The first usable link of a group that has one, in no fixed order of the *)
(* groups.                                                                 *)
PickAny ==
    /\ gw.pc = "pick" /\ GetActiveLink = None
    /\ \E g \in Groups :
         /\ In(gw.mem, g)
         /\ LET links == gw.mem[g].links
            IN  \E i \in DOMAIN links : /\ links[i] \notin Bad
                                        /\ \A j \in 1..(i - 1) : links[j] \in Bad
                                        /\ Mark(g, links[i], "try")
    /\ touched' = FALSE
    /\ UNCHANGED <<disk, cmd, cmds>>

MarkFill ==
    /\ gw.pc = "mark"
    /\ active' = Choice(gw.mem[gw.link.group].tag, gw.link.link)
    /\ chosen' = gw.link
    /\ gw' = [gw EXCEPT !.pc = gw.then]
    /\ UNCHANGED <<disk, cmd, cmds, touched>>

TryLink ==
    /\ gw.pc = "try"
    /\ gw' = [gw EXCEPT !.pc = "up"]
    /\ UNCHANGED <<disk, active, cmd, cmds, chosen, touched>>

(* The link that works is used and not recorded.                           *)
SlipTryOthers ==
    /\ gw.pc = "try"
    /\ LET g == gw.link.group
       IN  \E l \in Usable(gw.mem[g].links) \ {gw.link.link} :
             gw' = [gw EXCEPT !.pc = "up", !.link = Choice(g, l)]
    /\ UNCHANGED <<disk, active, cmd, cmds, chosen, touched>>

(* startEngineWithLinkFallback: another usable link of the same group      *)
(* works, and becomes the active one.                                      *)
TryOthers ==
    /\ gw.pc = "try"
    /\ LET g == gw.link.group
       IN  \E l \in Usable(gw.mem[g].links) \ {gw.link.link} : Mark(g, l, "up")
    /\ UNCHANGED <<disk, cmd, cmds, touched>>

(* No link works: "bypath run" tries Start again, with the same copy.      *)
TryAgain ==
    /\ gw.pc = "try"
    /\ gw' = [gw EXCEPT !.pc = "pick", !.link = None]
    /\ UNCHANGED <<disk, active, cmd, cmds, chosen, touched>>

(* The gateway stops, gives up, or is killed.                              *)
GwEnd ==
    /\ gw # Off /\ gw' = Off
    /\ UNCHANGED <<disk, active, cmd, cmds, chosen, touched>>

Gateway == GwLoad \/ PickActive \/ PickAny \/ MarkFill \/ TryLink \/ TryOthers
           \/ TryAgain \/ GwEnd

Next == Command \/ Gateway

Spec == Init /\ [][Next]_vars

-----------------------------------------------------------------------------
(* Properties                                                              *)

(* The choice of the user, or of the last fallback, is what a gateway that *)
(* starts afresh uses, if it knows the link: across any commands, renames  *)
(* of its group included, deaths of any of them, and whatever a command is *)
(* in the middle of, but for the moment when .active itself is empty.      *)
StartsWhatWasChosen ==
    [][(gw.pc = "pick" /\ gw'.pc \in {"try", "mark"} /\ gw.cur = None
        /\ chosen # None /\ Has(gw.mem, chosen)) => gw'.link = chosen]_vars

(* .active names the link that the gateway runs on, fallbacks included,    *)
(* unless a command has written it since the gateway read it. The write of *)
(* .active, whose error the code ignores, is one that works or one that    *)
(* the death of the process cuts short.                                    *)
ActiveIsRunning ==
    gw.pc = "up" /\ ~touched => active = gw.link

(* The page of a group: while a command writes it, what it held before;    *)
(* when its writer has died, lost.                                         *)
Writing(g) == cmd.pc = "fill" /\ Now.op = "put" /\ Now.group = g
PageOf(file) == IF file \in {None, Torn} THEN file
                ELSE [links |-> file.links, subs |-> file.subs]

(* The book, as the files and the command that writes them show it.        *)
TheBook == [g \in Groups |-> PageOf(IF Writing(g) THEN cmd.old ELSE disk[g])]

Book == INSTANCE LinkBook WITH Lost <- Torn, book <- TheBook

(* Commands that run one at a time keep the book: each edit is on the page *)
(* it is meant for, no link and no subscription goes with another's, and a *)
(* command that dies loses at most the page it was writing.                *)
ImplementsBook == Book!Spec
=============================================================================
