-------------------------------- MODULE Journals --------------------------------
(***************************************************************************)
(* Journals of a user, their chapters and the templates chapters are made  *)
(* from: the routers journal, chapter and template, and Journal's          *)
(* create_chapter.  A request reads what it is about in one step and       *)
(* commits in a later one; the database then checks the foreign keys, and  *)
(* what it deletes takes along, or forgets, what refers to it.             *)
(*                                                                         *)
(* Documents are left out, but for whether a template has one, and so are  *)
(* titles, grants and the user, of whom there is one.  A chapter's parent  *)
(* may be any chapter, even of another journal: nothing checks it.  One    *)
(* request at a time is between its two steps; the others take one.        *)
(***************************************************************************)
EXTENDS Naturals

CONSTANTS
    JournalIds, ChapterIds, TemplateIds,   \* numbers
    Null,
    WeekLen, MonthLen,   \* days in a week, and in a month
    LastDay              \* bound of the model: days

ASSUME JournalAssumption ==
    /\ JournalIds \union ChapterIds \union TemplateIds \subseteq Nat
    /\ JournalIds \intersect (ChapterIds \union TemplateIds) = {}
    /\ ChapterIds \intersect TemplateIds = {}
    /\ {WeekLen, MonthLen} \subseteq Nat \ {0} /\ LastDay \in Nat

VARIABLES
    journals,   \* the table: a function on the journals there are
    chapters,
    templates,  \* the templates there are; TRUE for one with a document
    usedIds,    \* ids that have been given: serial numbers are not given twice
    request,    \* what a request has read, and will write
    today
journalVars == <<journals, chapters, templates, usedIds, request, today>>

Maybe(S) == S \union {Null}
Without(f, S) == [x \in DOMAIN f \ S |-> f[x]]
AddedJournal(f, x, value) == [y \in DOMAIN f \union {x} |-> IF y = x THEN value ELSE f[y]]

\* The next serial number, if there is one.
NextId(ids) == {i \in ids \ usedIds : \A k \in ids \ usedIds : i <= k}

JournalKinds == {"manual", "day", "week", "month"}   \* JournalType, chapter_interval
NoDates == [since |-> 0, to |-> 0, dated |-> FALSE]
NoRequest == [kind |-> "none"]

\* What a request finds; anything else is answered with 404.
QueryJournal == DOMAIN journals
QueryTemplates == DOMAIN templates
QueryChapter == DOMAIN chapters

JournalInit ==
    /\ journals = <<>> /\ chapters = <<>> /\ templates = <<>>
    /\ usedIds = {} /\ request = NoRequest /\ today = 0

NextDay ==
    /\ today < LastDay /\ today' = today + 1
    /\ UNCHANGED <<journals, chapters, templates, usedIds, request>>

-----------------------------------------------------------------------------
CreateJournal ==
    /\ \E j \in NextId(JournalIds), kind \in JournalKinds :
          /\ journals' = AddedJournal(journals, j, [kind |-> kind, default |-> Null])
          /\ usedIds' = usedIds \union {j}
    /\ UNCHANGED <<chapters, templates, request, today>>

\* update_journal: the default template is checked by its foreign key only.
UpdateJournal ==
    /\ \E j \in QueryJournal, t \in DOMAIN templates :
          journals' = [journals EXCEPT ![j].default = t]
    /\ UNCHANGED <<chapters, templates, usedIds, request, today>>

\* create_template, in one transaction with the journal it is the default of.
CreateTemplate ==
    /\ \E t \in NextId(TemplateIds), j \in Maybe(DOMAIN journals) :
          /\ templates' = AddedJournal(templates, t, FALSE)
          /\ usedIds' = usedIds \union {t}
          /\ journals' = [i \in DOMAIN journals |->
                             IF i = j THEN [journals[i] EXCEPT !.default = t] ELSE journals[i]]
    /\ UNCHANGED <<chapters, request, today>>

UpdateTemplate ==
    /\ \E t \in DOMAIN templates : templates' = [templates EXCEPT ![t] = TRUE]
    /\ UNCHANGED <<journals, chapters, usedIds, request, today>>

DeleteTemplateBug ==
    /\ \E t \in DOMAIN templates :
          /\ templates' = Without(templates, {t})
          /\ journals' = Without(journals, {j \in DOMAIN journals : journals[j].default = t})
          /\ chapters' = Without(chapters, {c \in DOMAIN chapters : chapters[c].template = t})
    /\ UNCHANGED <<usedIds, request, today>>

\* delete_template: ON DELETE SET NULL.
DeleteTemplate ==
    /\ \E t \in DOMAIN templates :
          /\ templates' = Without(templates, {t})
          /\ journals' = [j \in DOMAIN journals |->
                             IF journals[j].default = t
                             THEN [journals[j] EXCEPT !.default = Null] ELSE journals[j]]
          /\ chapters' = [c \in DOMAIN chapters |->
                             IF chapters[c].template = t
                             THEN [chapters[c] EXCEPT !.template = Null] ELSE chapters[c]]
    /\ UNCHANGED <<usedIds, request, today>>

-----------------------------------------------------------------------------
PeriodBug(kind, day) ==
    [since |-> day, dated |-> TRUE,
     to |-> CASE kind = "week" -> day + WeekLen - 1
              [] kind = "month" -> day + MonthLen - 1
              [] OTHER -> day]

\* The dates of a new chapter.  current_chapter is never loaded, so that they
\* are those of the day, week or month it is, whatever chapters there are.
Period(kind, day) ==
    LET length == CASE kind = "week" -> WeekLen [] kind = "month" -> MonthLen [] OTHER -> 1
        since == length * (day \div length)
    IN  [since |-> since, to |-> since + length - 1, dated |-> TRUE]

\* create_chapter until its commit: the journal and the template are read.  A
\* template without a document raises.
BeginChapter ==
    /\ request = NoRequest
    /\ \E j \in QueryJournal, p \in Maybe(DOMAIN chapters),
          t \in Maybe({u \in QueryTemplates : templates[u]}) :
          request' = [kind |-> "create", parent |-> p,
                      row |-> [journal |-> j, parent |-> p, template |-> t, edited |-> FALSE,
                               dates |-> IF journals[j].kind = "manual" THEN NoDates
                                         ELSE Period(journals[j].kind, today)]]
    /\ UNCHANGED <<journals, chapters, templates, usedIds, today>>

\* update_chapter until its commit.
BeginUpdate ==
    /\ request = NoRequest
    /\ \E c \in QueryChapter, p \in Maybe(DOMAIN chapters) :
          request' = [kind |-> "update", chapter |-> c, parent |-> p]
    /\ UNCHANGED <<journals, chapters, templates, usedIds, today>>

\* The foreign keys of a chapter.
KeysHold(row) ==
    /\ row.journal \in DOMAIN journals
    /\ row.parent \in Maybe(DOMAIN chapters)
    /\ row.template \in Maybe(DOMAIN templates)

CommitRequestBug ==
    /\ request # NoRequest /\ request' = NoRequest
    /\ IF request.kind = "create"
       THEN /\ usedIds # ChapterIds
            /\ \E c \in NextId(ChapterIds) :
                  chapters' = AddedJournal(chapters, c, request.row) /\ usedIds' = usedIds \union {c}
       ELSE /\ request.chapter \in DOMAIN chapters
            /\ request.parent \in Maybe(DOMAIN chapters)
            /\ chapters' = [chapters EXCEPT ![request.chapter].parent = request.parent,
                                            ![request.chapter].edited = TRUE]
            /\ UNCHANGED usedIds
    /\ UNCHANGED <<journals, templates, today>>

\* The commit of a request.  The update may set other dates, too.
CommitRequest ==
    /\ request # NoRequest /\ request' = NoRequest
    /\ IF request.kind = "create"
       THEN /\ KeysHold(request.row)
            /\ \E c \in NextId(ChapterIds) :
                  chapters' = AddedJournal(chapters, c, request.row) /\ usedIds' = usedIds \union {c}
       ELSE /\ request.chapter \in DOMAIN chapters
            /\ request.parent \in Maybe(DOMAIN chapters)
            /\ chapters' = [chapters EXCEPT ![request.chapter].parent = request.parent,
                                            ![request.chapter].edited = TRUE]
            /\ UNCHANGED usedIds
    /\ UNCHANGED <<journals, templates, today>>

\* An IntegrityError, or a chapter that is gone: nothing is written.
Rejected ==
    /\ request # NoRequest /\ request' = NoRequest
    /\ IF request.kind = "create" THEN ~ KeysHold(request.row)
       ELSE \/ request.chapter \notin DOMAIN chapters
            \/ request.parent \notin Maybe(DOMAIN chapters)
    /\ UNCHANGED <<journals, chapters, templates, usedIds, today>>

-----------------------------------------------------------------------------
\* Chapters and the chapters under them, which may go round in a circle: the
\* least set that has them and, with a chapter, its children.
Under(roots) ==
    {c \in DOMAIN chapters : \A S \in SUBSET DOMAIN chapters :
        /\ roots \subseteq S
        /\ \A d \in DOMAIN chapters : chapters[d].parent \in S => d \in S
        => c \in S}

\* delete_chapter: ON DELETE CASCADE of parent_id.
DeleteChapter ==
    /\ \E c \in QueryChapter : chapters' = Without(chapters, Under({c}))
    /\ UNCHANGED <<journals, templates, usedIds, request, today>>

\* delete_journal: with its chapters, and those under them.
DeleteJournal ==
    /\ \E j \in QueryJournal :
          /\ journals' = Without(journals, {j})
          /\ chapters' = Without(chapters,
                             Under({c \in DOMAIN chapters : chapters[c].journal = j}))
    /\ UNCHANGED <<templates, usedIds, request, today>>

JournalNext ==
    \/ NextDay
    \/ CreateJournal \/ UpdateJournal \/ DeleteJournal
    \/ CreateTemplate \/ UpdateTemplate \/ DeleteTemplate
    \/ BeginChapter \/ BeginUpdate \/ CommitRequest \/ Rejected \/ DeleteChapter

JournalSpec == JournalInit /\ [][JournalNext]_journalVars

-----------------------------------------------------------------------------
\* A journal or a template deleted while a request is about to use it, and
\* deletions that reach chapters of other journals: nothing that is stored ever
\* refers to what is not (the foreign keys of journal and chapter).
NothingDangles ==
    /\ \A j \in DOMAIN journals : journals[j].default \in Maybe(DOMAIN templates)
    /\ \A c \in DOMAIN chapters : KeysHold(chapters[c])

\* A chapter is only lost by a request that deletes it, its journal or its
\* parent; its text survives the template it was made from.
OnlyAsked ==
    [][\A c \in DOMAIN chapters \ DOMAIN chapters' :
          \/ chapters[c].journal \notin DOMAIN journals'
          \/ chapters[c].parent \in DOMAIN chapters \ DOMAIN chapters'
          \/ \A d \in DOMAIN chapters \ DOMAIN chapters' : d \in Under({c})]_chapters

\* Requests on different days, one perhaps committed days later: the periods of
\* two chapters of a journal, as created, are equal or have no day in common.
PeriodsAreApart ==
    \A c, d \in DOMAIN chapters :
        LET a == chapters[c].dates
            b == chapters[d].dates
        IN  /\ chapters[c].journal = chapters[d].journal
            /\ a.dated /\ b.dated
            /\ ~ chapters[c].edited /\ ~ chapters[d].edited
            => a = b \/ a.to < b.since \/ b.to < a.since
=============================================================================
