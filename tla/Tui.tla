-------------------------------- MODULE Tui --------------------------------
(***************************************************************************)
(* internal/tui: the terminal menu. One process handles keys and messages  *)
(* one at a time; what takes long runs beside it as a job, works on the    *)
(* group files, and comes back as a message. Jobs come back in any order,  *)
(* and a key may be handled before, between and after.                     *)
(***************************************************************************)
EXTENDS Integers, Sequences, FiniteSets, SequencesExt

CONSTANTS
    Names,      \* the group names there can be, in alphabetical order
    Default,    \* the group of the links added by hand
    Links,      \* links
    Added,      \* the link that is added by hand
    Bad,        \* those with no usable address or port
    Profiles,   \* the group files a session may begin with
    Typed,      \* the names that are typed in
    Fetched,    \* what a subscription returns when it answers
    None,       \* nothing: no file, no dialog
    Latencies,  \* what a test of a link may measure, 0 for no answer
    MaxLinks,   \* bound: links in a group
    MaxStarts,  \* bound: jobs in a session
    MaxKeys     \* bound: keys in a session

VARIABLES
    disk,         \* disk[g]: the file of group g, or None
    over,         \* the menu was left ("quit") or died ("panic")
    tab, cursor,
    groups,       \* the names read by the last findGroups
    activeGroup,  \* the index in groups of the group that is shown
    confirm,      \* the action of the dialog that is open, or None
    confirmYes,
    input,        \* the action the line editor is open for, or None
    showOutput,
    running,      \* "please wait"
    cancelFn,     \* the job that esc cancels, or 0
    benchRunning, benchDone, benchResults, benchSortAsc,
    statusInfo,   \* whether the gateway ran when the menu last looked
    jobs,         \* the jobs and the messages on their way
    started,      \* jobs so far
    keys          \* keys so far

filesVars  == <<disk>>
groupVars  == <<groups, activeGroup>>
dialogVars == <<confirm, confirmYes, input>>
benchVars  == <<benchRunning, benchDone, benchResults, benchSortAsc>>
waitVars   == <<running, cancelFn>>
jobVars    == <<jobs, started>>
vars == <<filesVars, over, tab, cursor, groupVars, dialogVars, showOutput, waitVars,
          benchVars, statusInfo, jobVars, keys>>

Tabs == <<"home", "servers", "subs">>
GroupNames == Range(Names)
Files == [links : Seq(Links), sub : BOOLEAN]

ASSUME TuiAssumption ==
    /\ Names \in Seq(Range(Names))
    /\ Default \in Range(Names) /\ Typed \subseteq Range(Names)
    /\ Bad \subseteq Links /\ None \notin Range(Names)
    /\ MaxLinks \in Nat /\ MaxStarts \in Nat /\ MaxKeys \in Nat /\ Added \in Links
    /\ Latencies \subseteq 0..2
    /\ Fetched \in Seq(Links) /\ Len(Fetched) \in 1..MaxLinks
    /\ None \notin Files \cup Links
    /\ Profiles \subseteq [GroupNames -> Files \cup {None}]
    /\ \A p \in Profiles : \A g \in GroupNames : p[g] # None => Len(p[g].links) <= MaxLinks

-----------------------------------------------------------------------------
(* What the menu reads from the files                                      *)

(* The members of a finite set in their order: upTo[x] is the set of those *)
(* up to x.                                                                *)
InOrder(upTo) ==
    [k \in 1..Cardinality(DOMAIN upTo) |->
        CHOOSE x \in DOMAIN upTo : Cardinality(upTo[x]) = k]

(* The elements of a list that are kept, in the order of the list.         *)
Only(list, kept) ==
    LET places == {i \in DOMAIN list : list[i] \in kept}
        order  == InOrder([i \in places |-> {j \in places : j <= i}])
    IN  [k \in DOMAIN order |-> list[order[k]]]

Existing(files)   == {g \in GroupNames : files[g] # None}
Subscribed(files) == {g \in Existing(files) : files[g].sub}

findGroups == Only(Names, Existing(disk))

(* loadGroupLinks, loadBenchEntries: the links that can be used, each with *)
(* its place in the file.                                                  *)
Entries(g) ==
    LET file   == IF disk[g] = None THEN <<>> ELSE disk[g].links
        all    == [i \in DOMAIN file |-> [idx |-> i, link |-> file[i]]]
    IN  Only(all, {e \in Range(all) : e.link \notin Bad})

Shown == IF groups = <<>> THEN None ELSE groups[activeGroup]
currentLinks == IF groups = <<>> THEN <<>> ELSE Entries(Shown)

(* The groups that have a subscription, in the order of their names.       *)
loadSubscriptions == Only(findGroups, Subscribed(disk))

(* Row a of the results comes before row b: the rows that answered, by     *)
(* their latency; then those that did not; equal rows stay in order.       *)
Before(results, asc, a, b) ==
    LET x == results[a].ms
        y == results[b].ms
    IN  CASE x > 0 /\ y > 0 /\ x # y -> IF asc THEN x < y ELSE x > y
          [] (x > 0) # (y > 0)       -> x > 0
          [] OTHER                   -> a < b

Sorted(results, asc) ==
    LET rows  == DOMAIN results
        order == InOrder([a \in rows |->
                             {b \in rows : b = a \/ Before(results, asc, b, a)}])
    IN  [k \in DOMAIN order |-> results[order[k]]]

getSortedBenchResults == Sorted(benchResults, benchSortAsc)

HasResults == benchDone /\ benchResults # <<>>

(* viewServers: the row under the cursor, or None when there is none.      *)
Highlighted ==
    LET rows == IF benchRunning \/ currentLinks = <<>> THEN <<>>
                ELSE IF HasResults THEN getSortedBenchResults ELSE currentLinks
    IN  IF cursor < Len(rows) THEN rows[cursor + 1].link ELSE None

-----------------------------------------------------------------------------
(* Types and the first screen                                              *)

JobKinds == {"task", "live", "select", "test", "remove", "update", "sub-add", "add-link",
             "create", "rename", "bench"}

Rows == [idx : 1..MaxLinks, link : Links, ms : 0..2]

Jobs == [id : 1..MaxStarts, kind : JobKinds, group : GroupNames \cup {None},
         idx : 0..MaxLinks, name : GroupNames \cup {None}, back : BOOLEAN,
         rows : Seq(Rows)]

Dialogs == [act : {"update-ask", "update-method", "restart", "stop", "delete-group",
                   "delete-server", "delete-sub"},
            group : GroupNames \cup {None}, idx : 0..MaxLinks]

Inputs == [act : {"sub-add", "add-link", "change-port", "create-group", "rename-group"},
           group : GroupNames \cup {None}]

TypeOK ==
    /\ disk \in [GroupNames -> Files \cup {None}]
    /\ over \in {"no", "quit", "panic"} /\ tab \in Range(Tabs) /\ cursor \in Nat
    /\ groups \in Seq(GroupNames) /\ activeGroup \in Nat \ {0}
    /\ confirm \in Dialogs \cup {None} /\ confirmYes \in BOOLEAN
    /\ input \in Inputs \cup {None} /\ showOutput \in BOOLEAN
    /\ running \in BOOLEAN /\ cancelFn \in 0..MaxStarts
    /\ benchRunning \in BOOLEAN /\ benchDone \in BOOLEAN /\ benchSortAsc \in BOOLEAN
    /\ benchResults \in Seq(Rows)
    /\ statusInfo \in {"running", "stopped"}
    /\ jobs \subseteq Jobs /\ started \in 0..MaxStarts /\ keys \in 0..MaxKeys

(* A list with no other group than the default one is forgotten.           *)
SlipFirstOther(names) == SelectInSeq(names, LAMBDA x : x # Default)

(* The first group other than the default one, or the first.               *)
FirstOther(names) ==
    LET i == SelectInSeq(names, LAMBDA x : x # Default) IN IF i = 0 THEN 1 ELSE i

Init ==
    /\ disk \in Profiles
    /\ over = "no" /\ tab = "home" /\ cursor = 0
    /\ groups = findGroups /\ activeGroup = FirstOther(groups)
    /\ confirm = None /\ confirmYes = FALSE /\ input = None /\ showOutput = FALSE
    /\ running = FALSE /\ cancelFn = 0
    /\ benchRunning = FALSE /\ benchDone = FALSE /\ benchResults = <<>>
    /\ benchSortAsc = FALSE
    /\ statusInfo \in {"running", "stopped"}
    /\ jobs = {} /\ started = 0 /\ keys = 0

-----------------------------------------------------------------------------
(* Jobs                                                                    *)

(* The jobs that change the files of the groups; of any other only the     *)
(* message is left to come.                                                *)
Writers == {"remove", "update", "sub-add", "add-link", "create", "rename"}

Fresh(kind) == [id |-> started + 1, kind |-> kind, group |-> None, idx |-> 0,
                name |-> None, back |-> kind \notin Writers, rows |-> <<>>]

Launch(job) ==
    /\ started < MaxStarts
    /\ started' = started + 1 /\ jobs' = jobs \cup {job}

(* The keys wait for the job until it is back, or esc.                     *)
RunAction(job) == Launch(job) /\ running' = TRUE /\ UNCHANGED cancelFn

CanAdd(g) == disk[g] = None \/ Len(disk[g].links) < MaxLinks

LinksOf(g) == IF disk[g] = None THEN <<>> ELSE disk[g].links

(* What a command leaves of the files: each answer of the network, and the *)
(* failure that leaves them alone.                                         *)
Updated(files, targets) ==
    { [g \in GroupNames |-> IF g \in answers THEN [files[g] EXCEPT !.links = Fetched]
                            ELSE files[g]] :
      answers \in SUBSET (Subscribed(files) \cap targets) }

WithSub(g) ==
    [disk EXCEPT ![g] = [links |-> LinksOf(g), sub |-> TRUE]]

(* remove <number>: the link there, by its remark, so the first of that    *)
(* remark.                                                                 *)
WithoutLink(g, i) ==
    IF i > Len(LinksOf(g)) THEN disk
    ELSE [disk EXCEPT ![g].links = RemoveFirst(@, @[i])]

(* renameGroup: refused when the old file is gone or the new one is there. *)
Renames(old, new) == new # old /\ disk[old] # None /\ disk[new] = None

Effects(j) ==
    CASE j.kind = "update"   -> Updated(disk, IF j.group = None THEN GroupNames
                                              ELSE {j.group})
      [] j.kind = "sub-add"  -> IF j.name \in Subscribed(disk) THEN {disk}
                                ELSE Updated(WithSub(j.name), GroupNames)
      [] j.kind = "add-link" ->
             {disk} \cup      \* not a link
             (IF CanAdd(Default)
              THEN {[disk EXCEPT ![Default] =
                       [links |-> Append(LinksOf(Default), Added),
                        sub   |-> Default \in Subscribed(disk)]]}
              ELSE {})
      [] j.kind = "remove"   -> {WithoutLink(j.group, j.idx)}
      [] j.kind = "create"   ->
             {IF disk[j.name] # None THEN disk
              ELSE [disk EXCEPT ![j.name] = [links |-> <<>>, sub |-> FALSE]]}
      [] j.kind = "rename"   ->
             {IF Renames(j.group, j.name)
              THEN [disk EXCEPT ![j.name] = disk[j.group], ![j.group] = None]
              ELSE disk}
      [] OTHER               -> {disk}

(* runParallelBench: every row is measured, 0 for one that did not answer. *)
Measured(rows) == { [k \in DOMAIN rows |-> [rows[k] EXCEPT !.ms = ms[k]]] :
                    ms \in [DOMAIN rows -> Latencies] }

(* A job has done its work and its message is on its way: targetGroup is   *)
(* the new name after a rename that was made.                              *)
Finish(j) ==
    /\ over = "no" /\ ~j.back
    /\ disk' \in Effects(j)
    /\ jobs' = (jobs \ {j}) \cup
               {[j EXCEPT !.back = TRUE,
                          !.name = IF j.kind = "rename" /\ Renames(j.group, j.name)
                                   THEN j.name ELSE None]}
    /\ UNCHANGED <<over, tab, cursor, groupVars, dialogVars, showOutput, waitVars,
                   benchVars, statusInfo, started>>

(* inlineBenchDoneMsg                                                      *)
BenchDoneMsg(j) ==
    /\ over = "no" /\ j.back /\ j.kind = "bench"
    /\ benchRunning' = FALSE /\ benchDone' = TRUE /\ benchResults' \in Measured(j.rows)
    /\ jobs' = jobs \ {j}
    /\ UNCHANGED <<filesVars, over, tab, cursor, groupVars, dialogVars, showOutput,
                   waitVars, benchSortAsc, statusInfo, started>>

(* The index is kept and not the name.                                     *)
SlipShownAfter(names, target) == IF activeGroup > Len(names) THEN 1 ELSE activeGroup

(* The index of the group to show once the names are read again: the same  *)
(* group, or the one it was renamed to, or the first that is not default.  *)
ShownAfter(names, target) ==
    LET same  == SelectInSeq(names, LAMBDA x : x = Shown)
        moved == SelectInSeq(names, LAMBDA x : x = target)
    IN  CASE same # 0  -> same
          [] same = 0 /\ moved # 0 -> moved
          [] OTHER     -> FirstOther(names)

(* The message shows its output and does not end the wait.                 *)
SlipActionDoneMsg(j) ==
    /\ over = "no" /\ j.back /\ j.kind # "bench"
    /\ cancelFn' = 0 /\ showOutput' = TRUE
    /\ groups' = findGroups /\ activeGroup' = ShownAfter(groups', j.name)
    /\ statusInfo' \in {"running", "stopped"} /\ jobs' = jobs \ {j}
    /\ UNCHANGED <<filesVars, over, tab, cursor, dialogVars, running, benchVars, started>>

(* actionDoneMsg, and the look at the gateway that follows it: it may have *)
(* been started or stopped elsewhere.                                      *)
ActionDoneMsg(j) ==
    /\ over = "no" /\ j.back /\ j.kind # "bench"
    /\ running' = FALSE /\ cancelFn' = 0 /\ showOutput' = TRUE
    /\ groups' = findGroups /\ activeGroup' = ShownAfter(groups', j.name)
    /\ statusInfo' \in {"running", "stopped"} /\ jobs' = jobs \ {j}
    /\ UNCHANGED <<filesVars, over, tab, cursor, dialogVars, benchVars, started>>

-----------------------------------------------------------------------------
(* Keys                                                                    *)

(* A dialog and the line editor take every key; then the output, then the  *)
(* wait for a job.                                                         *)
NoDialog == over = "no" /\ confirm = None /\ input = None
KeysFree == NoDialog /\ ~showOutput /\ ~running

ctrlC ==
    /\ over = "no" /\ over' = "quit"
    /\ UNCHANGED <<filesVars, tab, cursor, groupVars, dialogVars, showOutput, waitVars,
                   benchVars, statusInfo, jobVars>>

Dismiss ==
    /\ NoDialog /\ showOutput /\ showOutput' = FALSE
    /\ UNCHANGED <<filesVars, over, tab, cursor, groupVars, dialogVars, waitVars,
                   benchVars, statusInfo, jobVars>>

(* The way to cancel is kept.                                              *)
SlipEsc ==
    /\ NoDialog /\ ~showOutput /\ running
    /\ running' = FALSE
    /\ UNCHANGED <<filesVars, over, tab, cursor, groupVars, dialogVars, showOutput,
                   cancelFn, benchVars, statusInfo, jobVars>>

(* esc: only live-status can be cancelled; any other job goes on unseen.   *)
Esc ==
    /\ NoDialog /\ ~showOutput /\ running
    /\ running' = FALSE /\ cancelFn' = 0
    /\ UNCHANGED <<filesVars, over, tab, cursor, groupVars, dialogVars, showOutput,
                   benchVars, statusInfo, jobVars>>

SwitchTab ==
    /\ KeysFree
    /\ tab' \in Range(Tabs) \ {tab} /\ cursor' = 0
    /\ UNCHANGED <<filesVars, over, groupVars, dialogVars, showOutput, waitVars,
                   benchVars, statusInfo, jobVars>>

(* The items of the Home tab; those that only run a command are "task",    *)
(* those that open the line editor are one "edit".                         *)
HomeItems ==
    IF statusInfo = "running"
    THEN <<"restart", "stop", "live-status", "task", "self-update", "sub-update",
           "edit", "exit">>
    ELSE <<"task", "task", "self-update", "sub-update", "edit", "exit">>

RowCount == CASE tab = "home"    -> Len(HomeItems)
              [] tab = "servers" -> Len(currentLinks)
              [] tab = "subs"    -> Len(loadSubscriptions)

Move ==
    /\ KeysFree
    /\ \/ cursor > 0 /\ cursor' = cursor - 1
       \/ cursor < RowCount - 1 /\ cursor' = cursor + 1
    /\ UNCHANGED <<filesVars, over, tab, groupVars, dialogVars, showOutput, waitVars,
                   benchVars, statusInfo, jobVars>>

Ask(act, g, i, yes) ==
    /\ confirm' = [act |-> act, group |-> g, idx |-> i]
    /\ confirmYes' = yes /\ UNCHANGED input

Edit(act, g) == input' = [act |-> act, group |-> g] /\ UNCHANGED <<confirm, confirmYes>>

OnlyDialog == UNCHANGED <<over, waitVars, jobVars>>
OnlyJob    == UNCHANGED <<over, dialogVars>>

executeHomeAction(item) ==
    \/ item = "exit" /\ over' = "quit" /\ UNCHANGED <<dialogVars, waitVars, jobVars>>
    \/ item \in {"restart", "stop"} /\ Ask(item, None, 0, item = "restart") /\ OnlyDialog
    \/ item = "self-update" /\ Ask("update-ask", None, 0, TRUE) /\ OnlyDialog
    \/ /\ item = "edit" /\ OnlyDialog
       /\ \E act \in {"sub-add", "add-link", "change-port"} : Edit(act, None)
    \/ item = "task" /\ RunAction(Fresh("task")) /\ OnlyJob
    \/ item = "sub-update" /\ RunAction(Fresh("update")) /\ OnlyJob
    \/ /\ item = "live-status"
       /\ Launch(Fresh("live")) /\ running' = TRUE /\ cancelFn' = started + 1
       /\ OnlyJob

(* The cursor stays where it was when the items are fewer than before.     *)
HomeEnter ==
    /\ KeysFree /\ tab = "home"
    /\ \/ cursor < Len(HomeItems) /\ executeHomeAction(HomeItems[cursor + 1])
       \/ /\ cursor >= Len(HomeItems)
          /\ over' = "panic" /\ UNCHANGED <<dialogVars, waitVars, jobVars>>
    /\ UNCHANGED <<filesVars, tab, cursor, groupVars, showOutput, benchVars, statusInfo>>

-----------------------------------------------------------------------------
(* The keys of the Servers tab                                             *)

ServersKey == KeysFree /\ tab = "servers"

(* The digits show another group, and drop the results.                    *)
ShowGroup(i) ==
    /\ ServersKey
    /\ activeGroup' = i /\ cursor' = 0
    /\ benchDone' = FALSE /\ benchResults' = <<>>
    /\ UNCHANGED <<filesVars, over, tab, groups, dialogVars, showOutput, waitVars,
                   benchRunning, benchSortAsc, statusInfo, jobVars>>

(* Enter acts on the row of the file under the cursor, sorted or not.      *)
SlipSelected ==
    IF HasResults /\ cursor < Len(benchResults) THEN benchResults[cursor + 1].idx
    ELSE IF cursor < Len(currentLinks) THEN currentLinks[cursor + 1].idx ELSE 0

(* The place in the file of the link that enter selects; 0 for none.       *)
Selected ==
    IF HasResults /\ cursor < Len(benchResults)
    THEN getSortedBenchResults[cursor + 1].idx
    ELSE IF cursor < Len(currentLinks) THEN currentLinks[cursor + 1].idx ELSE 0

ServersEnter ==
    /\ ServersKey /\ Selected # 0
    /\ \/ groups = <<>> /\ over' = "panic" /\ UNCHANGED <<waitVars, jobVars>>
       \/ /\ groups # <<>> /\ UNCHANGED over
          /\ RunAction([Fresh("select") EXCEPT !.group = Shown, !.idx = Selected])
    /\ UNCHANGED <<filesVars, tab, cursor, groupVars, dialogVars, showOutput,
                   benchVars, statusInfo>>

(* p pings every link, s and b also test them through the engine.          *)
Bench ==
    /\ ServersKey /\ currentLinks # <<>>
    /\ benchRunning' = TRUE /\ benchDone' = FALSE /\ benchResults' = <<>>
    /\ benchSortAsc' \in {benchSortAsc, TRUE}
    /\ Launch([Fresh("bench") EXCEPT !.group = Shown,
                 !.rows = [k \in DOMAIN currentLinks |->
                             [idx |-> currentLinks[k].idx, link |-> currentLinks[k].link,
                              ms |-> 0]]])
    /\ UNCHANGED <<filesVars, over, tab, cursor, groupVars, dialogVars, showOutput,
                   waitVars, statusInfo>>

Flip ==
    /\ ServersKey /\ HasResults
    /\ benchSortAsc' = ~benchSortAsc /\ cursor' = 0
    /\ UNCHANGED <<filesVars, over, tab, groupVars, dialogVars, showOutput, waitVars,
                   benchRunning, benchDone, benchResults, statusInfo, jobVars>>

(* t tests one link.                                                       *)
TestSingle ==
    /\ ServersKey /\ cursor < Len(currentLinks)
    /\ RunAction([Fresh("test") EXCEPT !.group = Shown,
                                       !.idx = currentLinks[cursor + 1].idx])
    /\ UNCHANGED <<filesVars, over, tab, cursor, groupVars, dialogVars, showOutput,
                   benchVars, statusInfo>>

(* n, x and d open a dialog: a new group, the removal of the group that is *)
(* shown unless it is the default one, the removal of a link.              *)
ServersDialog ==
    /\ ServersKey /\ OnlyDialog
    /\ \/ Edit("create-group", None) /\ UNCHANGED showOutput
       \/ /\ groups # <<>> /\ Shown # Default
          /\ Ask("delete-group", Shown, 0, FALSE) /\ UNCHANGED showOutput
       \/ /\ groups # <<>> /\ Shown = Default
          /\ showOutput' = TRUE /\ UNCHANGED dialogVars
       \/ /\ cursor < Len(currentLinks)
          /\ Ask("delete-server", Shown, currentLinks[cursor + 1].idx, FALSE)
          /\ UNCHANGED showOutput
    /\ UNCHANGED <<filesVars, tab, cursor, groupVars, benchVars, statusInfo>>

-----------------------------------------------------------------------------
(* The keys of the Subscriptions tab                                       *)

SubsRow == loadSubscriptions[cursor + 1]

(* u and p update every group; enter and o the group of the row.           *)
SubsUpdate ==
    /\ KeysFree /\ tab = "subs"
    /\ \/ RunAction(Fresh("update"))
       \/ /\ cursor < Len(loadSubscriptions)
          /\ RunAction([Fresh("update") EXCEPT !.group = SubsRow])
    /\ UNCHANGED <<filesVars, over, tab, cursor, groupVars, dialogVars, showOutput,
                   benchVars, statusInfo>>

SubsDialog ==
    /\ KeysFree /\ tab = "subs" /\ OnlyDialog
    /\ \/ Edit("sub-add", None)
       \/ cursor < Len(loadSubscriptions) /\ Edit("rename-group", SubsRow)
       \/ cursor < Len(loadSubscriptions) /\ Ask("delete-sub", SubsRow, 0, FALSE)
    /\ UNCHANGED <<filesVars, tab, cursor, groupVars, showOutput, benchVars, statusInfo>>

-----------------------------------------------------------------------------
(* Dialogs                                                                 *)

(* An arrow, y, or n where it does not close the dialog.                   *)
ConfirmMove ==
    /\ over = "no" /\ confirm # None /\ confirmYes' = ~confirmYes
    /\ UNCHANGED <<filesVars, over, tab, cursor, groupVars, confirm, input, showOutput,
                   waitVars, benchVars, statusInfo, jobVars>>

Closed == confirm' = None /\ confirmYes' = FALSE /\ UNCHANGED input

ConfirmClose ==
    /\ over = "no" /\ confirm # None
    /\ Closed
    /\ UNCHANGED <<filesVars, over, tab, cursor, groupVars, showOutput, waitVars,
                   benchVars, statusInfo, jobVars>>

ConfirmNo ==
    /\ over = "no" /\ confirm # None /\ ~confirmYes /\ confirm.act # "update-method"
    /\ Closed
    /\ UNCHANGED <<filesVars, over, tab, cursor, groupVars, showOutput, waitVars,
                   benchVars, statusInfo, jobVars>>

(* The second question of the update, then the update takes the terminal   *)
(* and the menu ends.                                                      *)
ConfirmUpdate ==
    /\ over = "no" /\ confirm # None
    /\ \/ /\ confirm.act = "update-ask" /\ confirmYes
          /\ Ask("update-method", None, 0, FALSE) /\ UNCHANGED over
       \/ confirm.act = "update-method" /\ Closed /\ over' = "quit"
    /\ UNCHANGED <<filesVars, tab, cursor, groupVars, showOutput, waitVars, benchVars,
                   statusInfo, jobVars>>

ConfirmJob ==
    /\ over = "no" /\ confirm # None /\ confirmYes
    /\ \/ confirm.act \in {"restart", "stop"} /\ RunAction(Fresh("task"))
       \/ /\ confirm.act = "delete-server"
          /\ RunAction([Fresh("remove") EXCEPT !.group = confirm.group,
                                               !.idx = confirm.idx])
    /\ Closed
    /\ UNCHANGED <<filesVars, over, tab, cursor, groupVars, showOutput, benchVars,
                   statusInfo>>

(* The index keeps pointing past the end.                                  *)
SlipDeleteGroup ==
    /\ over = "no" /\ confirm # None /\ confirmYes /\ confirm.act = "delete-group"
    /\ disk' = [disk EXCEPT ![confirm.group] = None]
    /\ groups' = Only(Names, Existing(disk'))
    /\ activeGroup' = activeGroup
    /\ cursor' = 0 /\ showOutput' = TRUE /\ Closed
    /\ UNCHANGED <<over, tab, waitVars, benchVars, statusInfo, jobVars>>

(* delete-group-<name>: the index stays, so the next group is shown.       *)
DeleteGroup ==
    /\ over = "no" /\ confirm # None /\ confirmYes /\ confirm.act = "delete-group"
    /\ disk' = [disk EXCEPT ![confirm.group] = None]
    /\ groups' = Only(Names, Existing(disk'))
    /\ activeGroup' = IF activeGroup > Len(groups') THEN 1 ELSE activeGroup
    /\ cursor' = 0 /\ showOutput' = TRUE /\ Closed
    /\ UNCHANGED <<over, tab, waitVars, benchVars, statusInfo, jobVars>>

(* removeSubscription                                                      *)
DeleteSub ==
    /\ over = "no" /\ confirm # None /\ confirmYes /\ confirm.act = "delete-sub"
    /\ \/ /\ confirm.group \in Subscribed(disk)
          /\ disk' = [disk EXCEPT ![confirm.group].sub = FALSE]
          /\ cursor' = IF cursor > 0 THEN cursor - 1 ELSE 0
       \/ confirm.group \notin Subscribed(disk) /\ UNCHANGED <<disk, cursor>>
    /\ showOutput' = TRUE /\ Closed
    /\ UNCHANGED <<over, tab, groupVars, waitVars, benchVars, statusInfo, jobVars>>

InputClose ==
    /\ over = "no" /\ confirm = None /\ input # None
    /\ input' = None
    /\ UNCHANGED <<filesVars, over, tab, cursor, groupVars, confirm, confirmYes,
                   showOutput, waitVars, benchVars, statusInfo, jobVars>>

(* The line is a URL, whose group has the name of its host and is never    *)
(* the default one, a link, a port, or the name of a group.                *)
InputEnter ==
    /\ over = "no" /\ confirm = None /\ input # None
    /\ \/ input.act = "change-port" /\ RunAction(Fresh("task"))
       \/ input.act = "add-link" /\ RunAction(Fresh("add-link"))
       \/ /\ input.act = "sub-add"
          /\ \E g \in Typed \ {Default} :
               RunAction([Fresh("sub-add") EXCEPT !.name = g])
       \/ /\ input.act = "create-group"
          /\ \E g \in Typed : RunAction([Fresh("create") EXCEPT !.name = g])
       \/ /\ input.act = "rename-group"
          /\ \E g \in Typed :
               RunAction([Fresh("rename") EXCEPT !.group = input.group, !.name = g])
    /\ input' = None
    /\ UNCHANGED <<filesVars, over, tab, cursor, groupVars, confirm, confirmYes,
                   showOutput, benchVars, statusInfo>>

-----------------------------------------------------------------------------

Keys ==
    \/ ctrlC \/ Dismiss \/ Esc \/ SwitchTab \/ Move \/ HomeEnter
    \/ (\E i \in DOMAIN groups : ShowGroup(i))
    \/ ServersEnter \/ Bench \/ Flip \/ TestSingle \/ ServersDialog
    \/ SubsUpdate \/ SubsDialog
    \/ ConfirmMove \/ ConfirmClose \/ ConfirmNo \/ ConfirmUpdate \/ ConfirmJob
    \/ DeleteGroup \/ DeleteSub \/ InputClose \/ InputEnter

JobSteps == \E j \in jobs : Finish(j) \/ BenchDoneMsg(j) \/ ActionDoneMsg(j)

Key == keys < MaxKeys /\ Keys /\ keys' = keys + 1

Next == Key \/ (JobSteps /\ UNCHANGED keys)

(* Every job ends: each network call and each wait it makes has a timeout, *)
(* and bubbletea hands every message over.                                 *)
Fairness ==
    \A i \in 1..MaxStarts :
        WF_vars(\E j \in jobs : j.id = i
                                /\ (Finish(j) \/ BenchDoneMsg(j) \/ ActionDoneMsg(j))
                                /\ UNCHANGED keys)

Spec == Init /\ [][Next]_vars
FairSpec == Spec /\ Fairness

-----------------------------------------------------------------------------
(* Properties                                                              *)

(* The group that is shown exists in the list: m.groups[m.activeGroup] is  *)
(* read by every key and every frame of the Servers tab without a check.   *)
GroupIndexValid == groups = <<>> \/ activeGroup \in DOMAIN groups

(* Whoever waits waits for something: while "running" an action is on its  *)
(* way back, while "Testing..." a benchmark is, and what esc would cancel  *)
(* is the live status that is awaited, however many jobs were left behind. *)
WaitsForAJob ==
    /\ running => \E j \in jobs : j.kind # "bench"
    /\ benchRunning => \E j \in jobs : j.kind = "bench"
    /\ cancelFn # 0 => running /\ \E j \in jobs : j.id = cancelFn /\ j.kind = "live"

(* "preserving the active group by name (not index)": whatever a job did   *)
(* to the files, the same group is shown after it, if it still exists, and *)
(* a group that was renamed is shown under its new name.                   *)
ShownGroupKept ==
    [][\A j \in jobs \ jobs' :
         (j.back /\ j.kind # "bench" /\ Shown # None) =>
           /\ disk[Shown] # None => Shown' = Shown
           /\ disk[Shown] = None /\ j.name # None /\ disk[j.name] # None
                => Shown' = j.name]_vars

(* Results of other links than those that are in their places now: they    *)
(* arrived under another group, or the file was changed after them.        *)
Stale == HasResults /\ \E k \in DOMAIN benchResults :
            LET row == benchResults[k]
            IN  \/ row.idx > Len(LinksOf(Shown))
                \/ LinksOf(Shown)[row.idx] # row.link

(* "use the sorted entry's idx": in either order of the results, and past  *)
(* the links that are not listed, enter selects the link under the cursor, *)
(* if each result is of the link in its place. It does not under stale     *)
(* results, against which the code does nothing.                           *)
EnterNamesHighlighted ==
    [][\A j \in jobs' :
         (j.kind = "select" /\ j.id > started /\ Highlighted # None /\ ~Stale) =>
           LinksOf(j.group)[j.idx] = Highlighted]_vars

(* Neither wait lasts: every job comes back, and its message ends the wait *)
(* whatever else it finds.                                                 *)
WorkEnds ==
    /\ (running ~> ~running \/ over # "no")
    /\ (benchRunning ~> ~benchRunning \/ over # "no")
=============================================================================
