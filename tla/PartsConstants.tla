-------------------------- MODULE PartsConstants ----------------------------
(***************************************************************************)
(* The constants of the components that are checked side by side.          *)
(***************************************************************************)
EXTENDS Integers, FiniteSets, TLC

CONSTANTS
  None,
  Slots, MaxChanges,  \* AccountPanel
  Roots, First, Files, MaxWrites, MaxGeneration,  \* DataStorage
  Tasks,  \* HistoryDeletion
  MaxChecks,  \* Maintenance
  MaxDownloads, MaxEvents,  \* ModelDownload
  Languages, Fallback, MaxChoices,  \* Language
  AsrModels, MaxReads,  \* Settings
  Notes, OpenCollections, MaxVisits,  \* Shell
  Collections, MaxShelf, MaxIntents,  \* NoteCollections
  MaxSaves,  \* NoteActions
  Profiles, MaxCalls,  \* PreferenceFlow
  MaxEdits, MaxWire,  \* Transcript
  MaxDeeds,  \* Results
  Users, Codes, Orders, Events, Transactions, Requests, Credits, PassDays, MaxDays, MaxAccountCalls,  \* MemoryAccounts
  Emails, Logins, EmailPerHour, PlacePerHour, MaxGuesses, CodeLength, TicketLength, MinuteLength, HourLength, MaxMinutes, MaxAuthCalls,  \* MemoryAuth
  Ops, MaxBoots, MaxCrashes,  \* WebPageVisit
  ApiKeys, Secrets, MaxForms, Checkouts, MaxCredits, MaxStarts,  \* ServiceKeys
  Tabs, MaxPosts, MaxLogins,  \* AdminConsole
  MaxServing   \* ServerLife

\* The bounds are numbers, and nothing is none of the things that there are.
ASSUME ConstantsAssumption ==
  /\ MaxChecks \in Nat /\ MaxChanges \in Nat /\ MaxShelf \in Nat /\ MaxIntents \in Nat
  /\ None \notin Slots
  /\ None \notin [task : Tasks, phase : {"prepared", "accepted"},
                   caches : SUBSET {"worker", "review"}]
=============================================================================
