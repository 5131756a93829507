-------------------------------- MODULE Language --------------------------------
(***************************************************************************)
(* The language of the application: a preference that is applied at once   *)
(* and saved after the saves before it (app/src/i18n/startup.ts,           *)
(* languagePreferenceQueue.ts and LocaleProvider.tsx).                     *)
(***************************************************************************)
EXTENDS Integers, Sequences

CONSTANTS Languages,      \* the supported locales
          Fallback,       \* the one of a start without preferences
          MaxChoices      \* bound on the choices of a language

VARIABLES
  language,   \* the preference, its locale, and the queue of its saves
  stored,     \* the preference on disk
  system      \* the language of the operating system

vars == <<language, stored, system>>

Preferences == Languages \cup {"system"}
Choice == [sequence : 1..MaxChoices, preference : Preferences]

TypeOK ==
  /\ language \in [mounted : BOOLEAN, preference : Preferences, resolved : Languages,
                   anchor : Preferences \cup {"none"}, latest : 0..MaxChoices,
                   queue : Seq(Choice), reading : BOOLEAN, lost : BOOLEAN]
  /\ stored \in Preferences /\ system \in Languages

Init ==
  /\ stored \in Preferences /\ system \in Languages
  /\ language = [mounted |-> FALSE, preference |-> Fallback, resolved |-> Fallback,
                 anchor |-> "none", latest |-> 0, queue |-> <<>>, reading |-> FALSE,
                 lost |-> FALSE]

-----------------------------------------------------------------------------
resolveLanguagePreference(p) == IF p = "system" THEN system ELSE p
applied(l, p) == [l EXCEPT !.preference = p, !.resolved = resolveLanguagePreference(p)]

\* resolveStartupLocale: what is stored, unless it cannot be read in time.
startLocalizedApplication ==
  /\ ~language.mounted
  /\ \/ language' = [applied(language, stored) EXCEPT !.mounted = TRUE, !.anchor = stored]
     \/ language' = [applied(language, Fallback) EXCEPT !.mounted = TRUE]
  /\ UNCHANGED <<stored, system>>

\* observeSystemLocale.
SystemChanges ==
  /\ language.mounted
  /\ \E l \in Languages \ {system} :
       /\ system' = l
       /\ language' = IF language.preference = "system" THEN [language EXCEPT !.resolved = l]
                      ELSE language
  /\ UNCHANGED <<stored>>

\* select: applied at once, saved after the saves before it.
select(p) ==
  /\ language.mounted /\ language.latest < MaxChoices
  /\ language' = [applied(language, p) EXCEPT
                    !.latest = @ + 1, !.lost = FALSE,
                    !.queue = Append(@, [sequence |-> language.latest + 1, preference |-> p])]
  /\ UNCHANGED <<stored, system>>

\* persist: the choice at the head is saved, or it fails.  The failure of the
\* latest one takes back what was applied.
Done(l) == [l EXCEPT !.queue = Tail(@), !.reading = FALSE]
Saved ==
  /\ language.queue # <<>> /\ ~language.reading
  /\ stored' = Head(language.queue).preference
  /\ language' = Done([language EXCEPT !.anchor = stored'])
  /\ UNCHANGED <<system>>

SaveFails ==
  /\ language.queue # <<>> /\ ~language.reading
  /\ language' = IF Head(language.queue).sequence # language.latest THEN Done(language)
                 ELSE IF language.anchor = "none" THEN [language EXCEPT !.reading = TRUE]
                 ELSE Done(applied(language, language.anchor))
  /\ UNCHANGED <<stored, system>>

\* Nothing is known to go back to: it is read, and only then applied, unless
\* another choice was made meanwhile.
RolledBack ==
  /\ language.reading
  /\ LET latest == Head(language.queue).sequence = language.latest
         anchored == [language EXCEPT !.anchor = stored]
     IN \/ language' = Done(IF latest THEN applied(anchored, stored) ELSE anchored)
        \/ language' = IF latest THEN [Done(applied(language, "system")) EXCEPT !.lost = TRUE]
                       ELSE Done(language)
  /\ UNCHANGED <<stored, system>>

Next ==
  \/ startLocalizedApplication \/ SystemChanges \/ \E p \in Preferences : select(p)
  \/ Saved \/ SaveFails \/ RolledBack

Spec == Init /\ [][Next]_vars

-----------------------------------------------------------------------------
\* Once every choice of a language was saved or has failed, the one that is
\* applied is the one on disk, whichever saves failed, in whichever order the
\* choices were made, and also after a start that could not read it; unless it
\* could not be read to go back to.
LanguageIsStored ==
  language.latest > 0 /\ language.queue = <<>> /\ ~language.lost =>
    /\ language.preference = stored
    /\ language.resolved = resolveLanguagePreference(stored)
===============================================================================
