-------------------------------- MODULE Notes --------------------------------
(***************************************************************************)
(* What a user writes beside the trades: journals and their chapters, and  *)
(* labels.  They share no table, and requests for either come at any time. *)
(***************************************************************************)
EXTENDS Journals, Labels

NotesSpec == JournalSpec /\ LabelSpec

\* What a user keeps with the trades stays together: chapters with their journal,
\* their text and their periods, trades with the labels that were asked for.
NotesAreKept == []NothingDangles /\ []PeriodsAreApart /\ OnlyAsked /\ AskedAreThere
=============================================================================
