---------------------------- MODULE SearchIndex -----------------------------
(***************************************************************************)
(* The search box of the scaladoc index page (index.js) on the scheduler   *)
(* of scheduler.js.  A search is cut into jobs, one per package and two    *)
(* more for what it found, which the browser runs one timer at a time,     *)
(* between the keys and clicks of the user; all of them share one page.    *)
(*                                                                         *)
(* Entities and queries are model values.  NameMatches and MemberMatches   *)
(* stand for the regular expression that compilePattern makes of a query:  *)
(* the entities whose name, or one of whose members, it accepts.  It makes  *)
(* none of a text such as `{1}`, whose braces it leaves unescaped: there   *)
(* `new RegExp` throws, in the middle of searchAll.                        *)
(***************************************************************************)
EXTENDS Scheduler

CONSTANTS
  Query,          \* non-empty search texts
  Malformed,      \* those that compilePattern makes no regular expression of
  Packages,       \* the keys of Index.PACKAGES in sorted order
  Entities,       \* [package -> sequence of its entities]
  NameMatches,    \* [query that is not malformed -> set of entities]
  MemberMatches,  \* [query that is not malformed -> set of entities]
  None,           \* "", undefined
  MaxSearches,    \* keys that start a search
  MaxNavigations  \* presses of the down arrow in the search box

ASSUME SearchConstants ==
  /\ Packages \in Seq(DOMAIN Entities)
  /\ \A p \in DOMAIN Entities : Entities[p] \in Seq(Range(Entities[p]))
  /\ Malformed \subseteq Query
  /\ {NameMatches, MemberMatches} \subseteq
       [Query \ Malformed -> SUBSET UNION {Range(Entities[p]) : p \in DOMAIN Entities}]
  /\ None \notin Query
  /\ MaxSearches \in Nat /\ MaxNavigations \in Nat

VARIABLES
  sched,       \* the scheduler
  input,       \* the text of #index-input
  focus,       \* whether it has the focus
  clearShown,  \* whether the clear button beside it is shown
  panel,       \* whether #search-results is shown
  view,        \* #results-content, maxJobs, and the jobs the progress bar has counted
  bound,       \* the handlers that configureTextFilter has bound
  nav,         \* the iterators of the keydown handlers bound to the window
  page,        \* "open", or "left" for another page
  searches, navigations   \* how often a key has started one

vars == <<sched, input, focus, clearShown, panel, view, bound, nav, page, searches, navigations>>
user == <<searches, navigations>>

-----------------------------------------------------------------------------
(* Jobs and what they put on the page.                                     *)

Job(fn, pack, query) == [fn |-> fn, pack |-> pack, query |-> query]

\* The jobs of searchPackage that searchAll queues: compilePattern throws
\* before the first of them, and nothing catches it.
PackageJobs(query) ==
  IF query \in Malformed THEN <<>>
  ELSE [i \in DOMAIN Packages |-> Job("package", Packages[i], query)]
ConfigureJobs == [i \in 1..3 |-> Job(<<"bindKeyup", "bindClear", "bindClose">>[i], None, None)]

\* The entities of a list that a set has, one push at a time.
Matched(entities, matching) ==
  LET upTo[i \in 0..Len(entities)] ==
        IF i = 0 THEN <<>>
        ELSE IF entities[i] \in matching THEN Append(upTo[i - 1], entities[i])
        ELSE upTo[i - 1]
  IN  upTo[Len(entities)]

Block(pack, query, matching) ==
  [pack |-> pack, query |-> query, items |-> Matched(Entities[pack], matching[query])]

EntityBlock(pack, query) == Block(pack, query, NameMatches)
MemberBlock(pack, query) == Block(pack, query, MemberMatches)

\* The links of the list items, in the order of the page.
ItemsOf(blocks) == FlattenSeq([i \in DOMAIN blocks |-> blocks[i].items])

Blank(query) == [query |-> query, entities |-> <<>>, members |-> <<>>, maxJobs |-> 1, shownJobs |-> 1]

-----------------------------------------------------------------------------
(* searchAll: the scheduler, the view and the panel it leaves.  The queue  *)
(* is cleared, the lists are emptied and the text is on the page before    *)
(* compilePattern, so that they are so for a malformed text as well.       *)

\* A faulty variant: the jobs of the previous search stay.
SearchAllKeepsJobs(s, text) ==
  IF text = None THEN s ELSE AddAll(s, "search", PackageJobs(text))

SearchAllJobs(s, text) ==
  IF text = None THEN Clear(s, "search")
                 ELSE AddAll(Clear(s, "search"), "search", PackageJobs(text))

SearchAllView(v, text) ==
  IF text = None THEN [v EXCEPT !.maxJobs = 1]
                 ELSE [Blank(text) EXCEPT !.shownJobs = v.shownJobs]

SearchAll(text) ==
  /\ sched' = SearchAllJobs(sched, text)
  /\ view' = SearchAllView(view, text)
  /\ panel' = (panel /\ text # None)

-----------------------------------------------------------------------------
(* document.ready: the labels, the jobs of configureTextFilter, and the    *)
(* search of the query string, if the address has one.                     *)

Labelled ==
  AddLabel(AddLabel(AddLabel(AddLabel(NewScheduler,
    "init", 1), "focus", 2), "filter", 4), "search", 5)

Ready == AddAll(Labelled, "init", ConfigureJobs)

Init ==
  /\ input \in Query \cup {None}
  /\ sched = IF input = None THEN Ready ELSE SearchAllJobs(Ready, input)
  /\ view = SearchAllView(Blank(None), input)
  /\ focus = FALSE /\ clearShown = FALSE /\ panel = FALSE
  /\ bound = {} /\ nav = <<>> /\ page = "open"
  /\ searches = 0 /\ navigations = 0

-----------------------------------------------------------------------------
(* The timer: one job, then another timer, until there is no job.          *)

Due(fn) ==
  /\ page = "open" /\ sched.timers > 0
  /\ HasWork(sched) /\ NextWork(sched).fn = fn

Rest == Taken(Fired(sched))
Work == NextWork(sched)

\* A faulty variant: the members only of packages with a matching entity.
PackageOfMatches ==
  /\ Due("package")
  /\ LET found == EntityBlock(Work.pack, Work.query).items # <<>>
         members == IF found THEN Add(Rest, "search", Job("members", Work.pack, Work.query))
                             ELSE Rest
     IN  sched' = DoWork(Add(members, "search", Job("results", Work.pack, Work.query)))
  /\ UNCHANGED <<input, focus, clearShown, panel, view, bound, nav, page, user>>

\* The job of searchPackage.
RunPackage ==
  /\ Due("package")
  /\ LET members == Add(Rest, "search", Job("members", Work.pack, Work.query))
         results == Add(members, "search", Job("results", Work.pack, Work.query))
     IN  sched' = DoWork(results)
  /\ UNCHANGED <<input, focus, clearShown, panel, view, bound, nav, page, user>>

\* searchMembers; its promises settle before the next timer fires.
RunMembers ==
  /\ Due("members")
  /\ sched' = DoWork(Rest)
  /\ view' = [view EXCEPT !.members = Append(@, MemberBlock(Work.pack, Work.query))]
  /\ UNCHANGED <<input, focus, clearShown, panel, bound, nav, page, user>>

\* handleSearchedPackage and setProgress.
RunResults ==
  /\ Due("results")
  /\ sched' = DoWork(Rest)
  /\ panel' = TRUE
  /\ LET running == NumberOfJobs(Rest, "search") IN
       view' = [view EXCEPT !.entities = Append(@, EntityBlock(Work.pack, Work.query)),
                            !.maxJobs = IF running > @ THEN running ELSE @,
                            !.shownJobs = running]
  /\ UNCHANGED <<input, focus, clearShown, bound, nav, page, user>>

RunBinding ==
  /\ Due("bindKeyup") \/ Due("bindClear") \/ Due("bindClose")
  /\ sched' = DoWork(Rest)
  /\ bound' = bound \cup {Work.fn}
  /\ UNCHANGED <<input, focus, clearShown, panel, view, nav, page, user>>

RunNothing ==
  /\ page = "open" /\ sched.timers > 0 /\ ~HasWork(sched)
  /\ sched' = Idle(Fired(sched))
  /\ UNCHANGED <<input, focus, clearShown, panel, view, bound, nav, page, user>>

-----------------------------------------------------------------------------
(* Keyboard navigation: an iterator over the entities on the left and the  *)
(* members on the right of the page at the time of the job.                *)

ItemAt(it, index) ==
  LET items == IF it.onLeft THEN it.litems ELSE it.ritems
  IN  IF index + 1 \in DOMAIN items THEN items[index + 1] ELSE None

Length(it) == Len(IF it.onLeft THEN it.litems ELSE it.ritems)

To(it, index) == [it EXCEPT !.index = index, !.old = ItemAt(it, index)]

NextItem(it) == To(it, Min({Length(it) - 1, it.index + 1}))
PrevItem(it) == To(it, Max({-1, it.index - 1}))
\* A faulty variant: the index is kept on a shorter side.
RightItemUnbounded(it) ==
  IF it.ritems = <<>> THEN To(it, it.index) ELSE To([it EXCEPT !.onLeft = FALSE], it.index)

RightItem(it) ==
  LET there == [it EXCEPT !.onLeft = FALSE]
  IN  IF it.ritems = <<>> THEN To(it, it.index)
                          ELSE To(there, Min({it.index, Length(there) - 1}))
LeftItem(it) ==
  LET there == [it EXCEPT !.onLeft = TRUE]
  IN  IF it.litems = <<>> THEN To(it, it.index)
                          ELSE To(there, Min({it.index, Length(there) - 1}))

EntityIterator(litems, ritems) ==
  [litems |-> litems, ritems |-> ritems, onLeft |-> litems # <<>>, index |-> -1, old |-> None]

\* The init job of handleKeyNavigation.
RunNavigation ==
  /\ Due("navigate")
  /\ sched' = DoWork(Rest)
  /\ focus' = FALSE
  /\ nav' = Append(nav, NextItem(EntityIterator(ItemsOf(view.entities), ItemsOf(view.members))))
  /\ UNCHANGED <<input, clearShown, panel, view, bound, page, user>>

\* $old.offset() of an empty selection is undefined: the handler throws
\* before it moves, and the handlers bound after it are not called.
Sideways(left) ==
  LET called == {i \in DOMAIN nav : \A j \in 1..i : nav[j].old # None}
  IN  nav' = [i \in DOMAIN nav |->
                IF i \notin called THEN nav[i]
                ELSE IF left THEN LeftItem(nav[i]) ELSE RightItem(nav[i])]

Keydown == page = "open" /\ nav # <<>>

KeydownMove ==
  /\ Keydown
  /\ \/ nav' = [i \in DOMAIN nav |-> NextItem(nav[i])]
     \/ \E left \in BOOLEAN : Sideways(left)
  /\ UNCHANGED <<sched, input, focus, clearShown, panel, view, bound, page, user>>

\* Past the first item every keydown handler goes and the box has the focus.
KeydownUp ==
  /\ Keydown
  /\ LET moved == [i \in DOMAIN nav |-> PrevItem(nav[i])]
         top == \E i \in DOMAIN moved : moved[i].index = -1
     IN  /\ nav' = IF top THEN <<>> ELSE moved
         /\ focus' = (focus \/ top)
  /\ UNCHANGED <<sched, input, clearShown, panel, view, bound, page, user>>

KeydownEnter ==
  /\ Keydown
  /\ page' = "left" /\ input' = None
  /\ UNCHANGED <<sched, focus, clearShown, panel, view, bound, nav, user>>

KeydownEscape ==
  /\ Keydown
  /\ input' = None /\ panel' = FALSE
  /\ UNCHANGED <<sched, focus, clearShown, view, bound, nav, page, user>>

-----------------------------------------------------------------------------
(* The search box.                                                         *)

Focus ==
  /\ page = "open" /\ ~focus
  /\ focus' = TRUE
  /\ UNCHANGED <<sched, input, clearShown, panel, view, bound, nav, page, user>>

\* The text changes, and with it the clear button; the key is still down.
Input(text) ==
  /\ page = "open" /\ focus /\ text # input
  /\ input' = text /\ clearShown' = (text # None)
  /\ UNCHANGED <<sched, focus, panel, view, bound, nav, page, user>>

Keyup == page = "open" /\ focus /\ "bindKeyup" \in bound

KeyupSearch ==
  /\ Keyup /\ searches < MaxSearches
  /\ SearchAll(input)
  /\ searches' = searches + 1
  /\ UNCHANGED <<input, focus, clearShown, bound, nav, page, navigations>>

\* The text is emptied, so that searchAll only clears its queue and hides.
KeyupEscape ==
  /\ Keyup
  /\ input' = None
  /\ SearchAll(None)
  /\ UNCHANGED <<focus, clearShown, bound, nav, page, user>>

KeyupDown ==
  /\ Keyup /\ navigations < MaxNavigations
  /\ nav' = <<>>
  /\ sched' = Add(sched, "init", Job("navigate", None, None))
  /\ navigations' = navigations + 1
  /\ UNCHANGED <<input, focus, clearShown, panel, view, bound, page, searches>>

\* The two buttons hide the results and leave the queue alone.
ClickClear ==
  /\ page = "open" /\ clearShown /\ "bindClear" \in bound
  /\ input' = None /\ panel' = FALSE /\ clearShown' = FALSE
  /\ UNCHANGED <<sched, focus, view, bound, nav, page, user>>

ClickClose ==
  /\ page = "open" /\ panel /\ "bindClose" \in bound
  /\ input' = None /\ panel' = FALSE
  /\ UNCHANGED <<sched, focus, clearShown, view, bound, nav, page, user>>

-----------------------------------------------------------------------------

Timer == RunPackage \/ RunMembers \/ RunResults \/ RunBinding \/ RunNavigation \/ RunNothing

Next ==
  \/ Timer
  \/ KeydownMove \/ KeydownUp \/ KeydownEnter \/ KeydownEscape
  \/ Focus \/ (\E text \in Query \cup {None} : Input(text))
  \/ KeyupSearch \/ KeyupEscape \/ KeyupDown
  \/ ClickClear \/ ClickClose

\* A browser fires its timers; the user owes nothing.
Spec == Init /\ [][Next]_vars /\ WF_vars(Timer)

-----------------------------------------------------------------------------
(* Properties.                                                             *)

Jobset == [fn : {"package", "members", "results", "navigate", "bindKeyup", "bindClear", "bindClose"},
           pack : Range(Packages) \cup {None}, query : Query \cup {None}]

\* Types; the labels keep the order of their priorities.
SearchTypeOK ==
  /\ [i \in DOMAIN sched.labels |-> sched.labels[i].name] = <<"init", "focus", "filter", "search">>
  /\ sched.queues \in Seq(Seq(Jobset)) /\ Len(sched.queues) = 4
  /\ sched.timeout \in BOOLEAN /\ sched.timers \in Nat
  /\ input \in Query \cup {None} /\ view.query \in Query \cup {None}
  /\ {focus, clearShown, panel} \subseteq BOOLEAN
  /\ bound \subseteq {"bindKeyup", "bindClear", "bindClose"}
  /\ page \in {"open", "left"}

\* Between two jobs the scheduler has one timer or none, none only when it
\* knows that, and work is never left without one: a handler that adds a job
\* while another runs neither doubles the timer nor is forgotten by it.
WorkHasTimer ==
  /\ sched.timers = IF sched.timeout THEN 1 ELSE 0
  /\ HasWork(sched) => sched.timeout

\* Whatever the jobs of searches were doing when the user typed on, what the
\* page lists, and what is still to be listed, is of the query it names.
ResultsOfLastSearch ==
  /\ \A i \in DOMAIN Jobs(sched, "search") : Jobs(sched, "search")[i].query = view.query
  /\ \A i \in DOMAIN view.entities : view.entities[i].query = view.query
  /\ \A i \in DOMAIN view.members : view.members[i].query = view.query

\* Results that are shown with no search job left are the whole answer to the
\* text they name: each package once, in order, with its entities and its
\* members (searchAll, "searches all packages and entities for the current
\* search string"), under a progress bar that is full.  Only under the name of
\* a text that compilePattern throws for, typed into results that were shown,
\* there is no package, in particular none that an earlier search has found.
SearchComplete ==
  panel /\ Jobs(sched, "search") = <<>> =>
    IF view.query \in Malformed THEN view.entities = <<>> /\ view.members = <<>>
    ELSE /\ view.shownJobs = 0
         /\ view.entities = [i \in DOMAIN Packages |-> EntityBlock(Packages[i], view.query)]
         /\ view.members = [i \in DOMAIN Packages |-> MemberBlock(Packages[i], view.query)]

\* The iterator of the keys stays on an item of the side it is on, if there is
\* one; both sides may change length only by a new search, which it never sees.
SelectionInBounds ==
  \A i \in DOMAIN nav :
    IF nav[i].litems \o nav[i].ritems = <<>> THEN nav[i].index = -1
                                            ELSE nav[i].index \in 0..(Length(nav[i]) - 1)

\* A search ends: its jobs run, or are cleared, whatever the user does meanwhile.
SearchEnds == Jobs(sched, "search") # <<>> ~> (Jobs(sched, "search") = <<>> \/ page = "left")

=============================================================================
