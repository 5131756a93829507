---------------------------- MODULE StoredParts -----------------------------
(***************************************************************************)
(* Components that keep what the user has made or paid for: each by itself,*)
(* with its own variables.                                                 *)
(***************************************************************************)
EXTENDS PartsConstants

VARIABLES
  disk, library, near, control, job, permit, cancelled, boot,
  scripts, subject, paper, wire, player, polish, generating, erasing, edits, missed,
  folders, board, stint, editor, asked, post, leaving, deeds, astray,
  ledger, ongoing, today, accountCalls,
  registry, underway, minutes, authCalls

Storage == INSTANCE DataStorage
Script == INSTANCE Transcript
Made == INSTANCE Results
Vault == INSTANCE MemoryAccounts
Entrance == INSTANCE MemoryAuth

\* The same of the store in memory: no row and no operation is None, grants are of
\* codes or of orders, someone may have paid under an older version, and an hour is
\* some minutes.
ASSUME MemoryAssumption ==
  /\ Credits \in Nat /\ PassDays \in Nat /\ MaxDays \in Nat /\ MaxAccountCalls \in Nat
  /\ None \notin Users /\ Codes \cap Orders = {}
  /\ Users # {} /\ Orders # {} /\ Transactions # {}
  /\ None \notin Vault!EntitlementRecord /\ None \notin Vault!ActivationCodeRecord
  /\ None \notin Vault!OrderRecord /\ None \notin Vault!WebhookEventRecord
  /\ None \notin Vault!Operations
  /\ HourLength \in Nat \ {0} /\ MinuteLength \in Nat /\ TicketLength \in Nat
  /\ MaxMinutes \in Nat /\ MaxAuthCalls \in Nat
  /\ None \notin Entrance!AuthRateLimitRecord /\ None \notin Entrance!Operations

\* The same of the library: it is somewhere, and no file, operation, answer, text or
\* draft is None.
ASSUME LibraryAssumption ==
  /\ First \in Roots /\ MaxWrites \in Nat /\ MaxGeneration \in Nat
  /\ None \notin Storage!Data /\ None \notin Storage!Ids
  /\ None \notin [data : Storage!Data, id : Storage!Ids] /\ None \notin Storage!Operations
  /\ MaxEdits \in Nat /\ None \notin Notes
  /\ None \notin Script!Copies /\ None \notin Script!Detail /\ None \notin {"save", "polish"}
  /\ None \notin [of : Notes, from : Script!Maybe]
  /\ None \notin [text : Script!Copies, segments : Script!Maybe, polished : Script!Maybe]
  /\ MaxDeeds \in Nat /\ None \notin Made!Targets
  /\ LET Seeds == Nat \cup {None}
         Written == [of : Notes, seed : Seeds, typed : Nat]
         Folders == [body : Nat, list : Nat, draft : Written \cup {None}, seed : Seeds,
                     dissection : Seeds]
     IN  /\ None \notin [seed : Seeds] /\ None \notin Written /\ None \notin Folders
         /\ None \notin [of : Notes, target : Made!Targets, seed : Seeds,
                         result : Folders \cup {None}, warned : BOOLEAN]

storageVars == <<disk, library, near, control, job, permit, cancelled, boot>>
transcriptVars == <<scripts, subject, paper, wire, player, polish,
                    generating, erasing, edits, missed>>
resultsVars == <<folders, board, stint, editor, asked, post, leaving, deeds,
                 astray>>
ledgerVars == <<ledger, ongoing, today, accountCalls>>
registryVars == <<registry, underway, minutes, authCalls>>
=============================================================================
