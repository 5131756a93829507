------------------------------ MODULE MCParts -------------------------------
(***************************************************************************)
(* Components that share nothing, model-checked side by side: a behaviour  *)
(* is one of a single component, the variables of the others are None.     *)
(***************************************************************************)
EXTENDS StoredParts, RunningParts

VARIABLES
  part,  \* the component
  errand, parcel, handed, outcome,
  notice, relayed, heard, rendered,
  bureau, truths, ask, letter, brought, screen

Answers == INSTANCE WorkerAnswers
Tidings == INSTANCE WorkerProgress
Counter == INSTANCE AccountAnswers

answersVars == <<errand, parcel, handed, outcome>>
progressVars == <<notice, relayed, heard, rendered>>
accountVars == <<bureau, truths, ask, letter, brought, screen>>

vars == <<part, panelVars, storageVars, deletionVars, maintenanceVars, modelsVars,
          languageVars, settingsVars, shellVars, collectionsVars, notesVars,
          preferencesVars, transcriptVars, resultsVars, ledgerVars,
          registryVars, answersVars, progressVars, accountVars, importVars,
          keysVars, consoleVars, serverVars>>

\* Nothing of a component but the one that is checked.
NoPanel == (desk = None /\ account = None /\ pending = None /\ call = None /\
            loading = None /\ redeeming = None /\ request = None)
NoStorage == (disk = None /\ library = None /\ near = None /\ control = None /\
              job = None /\ permit = None /\ cancelled = None /\ boot = None)
NoDeletion == (task = None /\ cache = None /\ member = None /\ intent = None /\
               deletion = None /\ lease = None /\ adds = None /\ active = None)
NoUpkeep == (update = None /\ checks = None /\ work = None /\ front = None /\
             shown = None /\ preflight = None /\ native = None)
NoModels == (model = None /\ downloads = None /\ cancels = None /\
             component = None /\ lane = None /\ stopping = None /\ events = None /\
             complete = None /\ submission = None)
NoLocale == (language = None /\ stored = None /\ system = None)
NoPreferences == (sheet = None /\ requests = None /\ config = None)
NoWindow == (nav = None /\ move = None /\ list = None /\ detail = None /\
             removal = None /\ dropping = None /\ flow = None /\ kept = None /\
             odd = None)
NoShelves == (shelf = None /\ view = None /\ reading = None /\ change = None /\
              creation = None /\ making = None /\ made = None)
NoDeeds == (metadata = None /\ rows = None /\ listing = None /\ displayed = None /\
            opening = None /\ deed = None /\ slip = None /\ asking = None /\
            newest = None)
NoWishes == (prefs = None /\ wizard = None /\ summaryOpen = None /\ calls = None /\
             busy = None /\ held = None /\ running = None /\ awaiting = None)
NoScript == (scripts = None /\ subject = None /\ paper = None /\ wire = None /\
             player = None /\ polish = None /\ generating = None /\ erasing = None /\
             edits = None /\ missed = None)
NoMade == (folders = None /\ board = None /\ stint = None /\ editor = None /\
           asked = None /\ post = None /\ leaving = None /\ deeds = None /\
           astray = None)
NoVault == (ledger = None /\ ongoing = None /\ today = None /\ accountCalls = None)
NoEntrance == (registry = None /\ underway = None /\ minutes = None /\
               authCalls = None)
NoAnswers == (errand = None /\ parcel = None /\ handed = None /\ outcome = None)
NoTidings == (notice = None /\ relayed = None /\ heard = None /\ rendered = None)
NoCounter == (bureau = None /\ truths = None /\ ask = None /\ letter = None /\
              brought = None /\ screen = None)
NoVisits == (claim = None /\ visit = None /\ spaces = None /\ procs = None /\
             fed = None /\ pages = None /\ told = None /\ app = None)
NoSafe == (services = None /\ host = None /\ saves = None /\ checkouts = None /\
           credits = None)
NoConsole == (sessions = None /\ cookie = None /\ tabs = None /\ posts = None /\
              granted = None)
NoProcess == (phase = None /\ runtime = None /\ ready = None /\ fastify = None /\
              database = None /\ closing = None /\ deadline = None /\ exit = None /\
              serving = None /\ probe = None)

Init ==
  \/ part = "panel" /\ Panel!Init
       /\ NoStorage /\ NoDeletion /\ NoUpkeep /\ NoModels /\ NoLocale /\ NoPreferences 
       /\ NoWindow /\ NoShelves /\ NoDeeds /\ NoWishes /\ NoScript /\ NoMade /\ NoVault 
       /\ NoEntrance /\ NoAnswers /\ NoTidings /\ NoCounter /\ NoVisits /\ NoSafe 
       /\ NoConsole /\ NoProcess
  \/ part = "storage" /\ Storage!Init
       /\ NoPanel /\ NoDeletion /\ NoUpkeep /\ NoModels /\ NoLocale /\ NoPreferences 
       /\ NoWindow /\ NoShelves /\ NoDeeds /\ NoWishes /\ NoScript /\ NoMade /\ NoVault 
       /\ NoEntrance /\ NoAnswers /\ NoTidings /\ NoCounter /\ NoVisits /\ NoSafe 
       /\ NoConsole /\ NoProcess
  \/ part = "deletion" /\ Deletion!Init
       /\ NoPanel /\ NoStorage /\ NoUpkeep /\ NoModels /\ NoLocale /\ NoPreferences 
       /\ NoWindow /\ NoShelves /\ NoDeeds /\ NoWishes /\ NoScript /\ NoMade /\ NoVault 
       /\ NoEntrance /\ NoAnswers /\ NoTidings /\ NoCounter /\ NoVisits /\ NoSafe 
       /\ NoConsole /\ NoProcess
  \/ part = "maintenance" /\ Upkeep!Init
       /\ NoPanel /\ NoStorage /\ NoDeletion /\ NoModels /\ NoLocale /\ NoPreferences 
       /\ NoWindow /\ NoShelves /\ NoDeeds /\ NoWishes /\ NoScript /\ NoMade /\ NoVault 
       /\ NoEntrance /\ NoAnswers /\ NoTidings /\ NoCounter /\ NoVisits /\ NoSafe 
       /\ NoConsole /\ NoProcess
  \/ part = "models" /\ Models!Init
       /\ NoPanel /\ NoStorage /\ NoDeletion /\ NoUpkeep /\ NoLocale /\ NoPreferences 
       /\ NoWindow /\ NoShelves /\ NoDeeds /\ NoWishes /\ NoScript /\ NoMade /\ NoVault 
       /\ NoEntrance /\ NoAnswers /\ NoTidings /\ NoCounter /\ NoVisits /\ NoSafe 
       /\ NoConsole /\ NoProcess
  \/ part = "language" /\ Locale!Init
       /\ NoPanel /\ NoStorage /\ NoDeletion /\ NoUpkeep /\ NoModels /\ NoPreferences 
       /\ NoWindow /\ NoShelves /\ NoDeeds /\ NoWishes /\ NoScript /\ NoMade /\ NoVault 
       /\ NoEntrance /\ NoAnswers /\ NoTidings /\ NoCounter /\ NoVisits /\ NoSafe 
       /\ NoConsole /\ NoProcess
  \/ part = "settings" /\ Preferences!Init
       /\ NoPanel /\ NoStorage /\ NoDeletion /\ NoUpkeep /\ NoModels /\ NoLocale 
       /\ NoWindow /\ NoShelves /\ NoDeeds /\ NoWishes /\ NoScript /\ NoMade /\ NoVault 
       /\ NoEntrance /\ NoAnswers /\ NoTidings /\ NoCounter /\ NoVisits /\ NoSafe 
       /\ NoConsole /\ NoProcess
  \/ part = "shell" /\ Window!Init
       /\ NoPanel /\ NoStorage /\ NoDeletion /\ NoUpkeep /\ NoModels /\ NoLocale 
       /\ NoPreferences /\ NoShelves /\ NoDeeds /\ NoWishes /\ NoScript /\ NoMade 
       /\ NoVault /\ NoEntrance /\ NoAnswers /\ NoTidings /\ NoCounter /\ NoVisits 
       /\ NoSafe /\ NoConsole /\ NoProcess
  \/ part = "collections" /\ Shelves!Init
       /\ NoPanel /\ NoStorage /\ NoDeletion /\ NoUpkeep /\ NoModels /\ NoLocale 
       /\ NoPreferences /\ NoWindow /\ NoDeeds /\ NoWishes /\ NoScript /\ NoMade 
       /\ NoVault /\ NoEntrance /\ NoAnswers /\ NoTidings /\ NoCounter /\ NoVisits 
       /\ NoSafe /\ NoConsole /\ NoProcess
  \/ part = "notes" /\ Deeds!Init
       /\ NoPanel /\ NoStorage /\ NoDeletion /\ NoUpkeep /\ NoModels /\ NoLocale 
       /\ NoPreferences /\ NoWindow /\ NoShelves /\ NoWishes /\ NoScript /\ NoMade 
       /\ NoVault /\ NoEntrance /\ NoAnswers /\ NoTidings /\ NoCounter /\ NoVisits 
       /\ NoSafe /\ NoConsole /\ NoProcess
  \/ part = "preferences" /\ Wishes!Init
       /\ NoPanel /\ NoStorage /\ NoDeletion /\ NoUpkeep /\ NoModels /\ NoLocale 
       /\ NoPreferences /\ NoWindow /\ NoShelves /\ NoDeeds /\ NoScript /\ NoMade 
       /\ NoVault /\ NoEntrance /\ NoAnswers /\ NoTidings /\ NoCounter /\ NoVisits 
       /\ NoSafe /\ NoConsole /\ NoProcess
  \/ part = "transcript" /\ Script!Init
       /\ NoPanel /\ NoStorage /\ NoDeletion /\ NoUpkeep /\ NoModels /\ NoLocale 
       /\ NoPreferences /\ NoWindow /\ NoShelves /\ NoDeeds /\ NoWishes /\ NoMade 
       /\ NoVault /\ NoEntrance /\ NoAnswers /\ NoTidings /\ NoCounter /\ NoVisits 
       /\ NoSafe /\ NoConsole /\ NoProcess
  \/ part = "results" /\ Made!Init
       /\ NoPanel /\ NoStorage /\ NoDeletion /\ NoUpkeep /\ NoModels /\ NoLocale 
       /\ NoPreferences /\ NoWindow /\ NoShelves /\ NoDeeds /\ NoWishes /\ NoScript 
       /\ NoVault /\ NoEntrance /\ NoAnswers /\ NoTidings /\ NoCounter /\ NoVisits 
       /\ NoSafe /\ NoConsole /\ NoProcess
  \/ part = "ledger" /\ Vault!Init
       /\ NoPanel /\ NoStorage /\ NoDeletion /\ NoUpkeep /\ NoModels /\ NoLocale 
       /\ NoPreferences /\ NoWindow /\ NoShelves /\ NoDeeds /\ NoWishes /\ NoScript 
       /\ NoMade /\ NoEntrance /\ NoAnswers /\ NoTidings /\ NoCounter /\ NoVisits 
       /\ NoSafe /\ NoConsole /\ NoProcess
  \/ part = "registry" /\ Entrance!Init
       /\ NoPanel /\ NoStorage /\ NoDeletion /\ NoUpkeep /\ NoModels /\ NoLocale 
       /\ NoPreferences /\ NoWindow /\ NoShelves /\ NoDeeds /\ NoWishes /\ NoScript 
       /\ NoMade /\ NoVault /\ NoAnswers /\ NoTidings /\ NoCounter /\ NoVisits /\ NoSafe 
       /\ NoConsole /\ NoProcess
  \/ part = "answers" /\ Answers!Init
       /\ NoPanel /\ NoStorage /\ NoDeletion /\ NoUpkeep /\ NoModels /\ NoLocale 
       /\ NoPreferences /\ NoWindow /\ NoShelves /\ NoDeeds /\ NoWishes /\ NoScript 
       /\ NoMade /\ NoVault /\ NoEntrance /\ NoTidings /\ NoCounter /\ NoVisits 
       /\ NoSafe /\ NoConsole /\ NoProcess
  \/ part = "progress" /\ Tidings!Init
       /\ NoPanel /\ NoStorage /\ NoDeletion /\ NoUpkeep /\ NoModels /\ NoLocale 
       /\ NoPreferences /\ NoWindow /\ NoShelves /\ NoDeeds /\ NoWishes /\ NoScript 
       /\ NoMade /\ NoVault /\ NoEntrance /\ NoAnswers /\ NoCounter /\ NoVisits 
       /\ NoSafe /\ NoConsole /\ NoProcess
  \/ part = "account" /\ Counter!Init
       /\ NoPanel /\ NoStorage /\ NoDeletion /\ NoUpkeep /\ NoModels /\ NoLocale 
       /\ NoPreferences /\ NoWindow /\ NoShelves /\ NoDeeds /\ NoWishes /\ NoScript 
       /\ NoMade /\ NoVault /\ NoEntrance /\ NoAnswers /\ NoTidings /\ NoVisits 
       /\ NoSafe /\ NoConsole /\ NoProcess
  \/ part = "import" /\ Visits!Init
       /\ NoPanel /\ NoStorage /\ NoDeletion /\ NoUpkeep /\ NoModels /\ NoLocale 
       /\ NoPreferences /\ NoWindow /\ NoShelves /\ NoDeeds /\ NoWishes /\ NoScript 
       /\ NoMade /\ NoVault /\ NoEntrance /\ NoAnswers /\ NoTidings /\ NoCounter 
       /\ NoSafe /\ NoConsole /\ NoProcess
  \/ part = "keys" /\ Safe!Init
       /\ NoPanel /\ NoStorage /\ NoDeletion /\ NoUpkeep /\ NoModels /\ NoLocale 
       /\ NoPreferences /\ NoWindow /\ NoShelves /\ NoDeeds /\ NoWishes /\ NoScript 
       /\ NoMade /\ NoVault /\ NoEntrance /\ NoAnswers /\ NoTidings /\ NoCounter 
       /\ NoVisits /\ NoConsole /\ NoProcess
  \/ part = "console" /\ Console!Init
       /\ NoPanel /\ NoStorage /\ NoDeletion /\ NoUpkeep /\ NoModels /\ NoLocale 
       /\ NoPreferences /\ NoWindow /\ NoShelves /\ NoDeeds /\ NoWishes /\ NoScript 
       /\ NoMade /\ NoVault /\ NoEntrance /\ NoAnswers /\ NoTidings /\ NoCounter 
       /\ NoVisits /\ NoSafe /\ NoProcess
  \/ part = "server" /\ Process!Init
       /\ NoPanel /\ NoStorage /\ NoDeletion /\ NoUpkeep /\ NoModels /\ NoLocale 
       /\ NoPreferences /\ NoWindow /\ NoShelves /\ NoDeeds /\ NoWishes /\ NoScript 
       /\ NoMade /\ NoVault /\ NoEntrance /\ NoAnswers /\ NoTidings /\ NoCounter 
       /\ NoVisits /\ NoSafe /\ NoConsole

Next ==
  \/ /\ part = "panel"
     /\ UNCHANGED <<part, storageVars, deletionVars, maintenanceVars,
                   modelsVars, languageVars, settingsVars, shellVars,
                   collectionsVars, notesVars, preferencesVars,
                   transcriptVars, resultsVars, ledgerVars, registryVars,
                   answersVars, progressVars, accountVars, importVars,
                   keysVars, consoleVars, serverVars>>
     /\ Panel!Next
  \/ /\ part = "storage"
     /\ UNCHANGED <<part, panelVars, deletionVars, maintenanceVars,
                   modelsVars, languageVars, settingsVars, shellVars,
                   collectionsVars, notesVars, preferencesVars,
                   transcriptVars, resultsVars, ledgerVars, registryVars,
                   answersVars, progressVars, accountVars, importVars,
                   keysVars, consoleVars, serverVars>>
     /\ Storage!Next
  \/ /\ part = "deletion"
     /\ UNCHANGED <<part, panelVars, storageVars, maintenanceVars, modelsVars,
                   languageVars, settingsVars, shellVars, collectionsVars,
                   notesVars, preferencesVars, transcriptVars, resultsVars,
                   ledgerVars, registryVars, answersVars, progressVars,
                   accountVars, importVars, keysVars, consoleVars,
                   serverVars>>
     /\ Deletion!Next
  \/ /\ part = "maintenance"
     /\ UNCHANGED <<part, panelVars, storageVars, deletionVars, modelsVars,
                   languageVars, settingsVars, shellVars, collectionsVars,
                   notesVars, preferencesVars, transcriptVars, resultsVars,
                   ledgerVars, registryVars, answersVars, progressVars,
                   accountVars, importVars, keysVars, consoleVars,
                   serverVars>>
     /\ Upkeep!Next
  \/ /\ part = "models"
     /\ UNCHANGED <<part, panelVars, storageVars, deletionVars,
                   maintenanceVars, languageVars, settingsVars, shellVars,
                   collectionsVars, notesVars, preferencesVars,
                   transcriptVars, resultsVars, ledgerVars, registryVars,
                   answersVars, progressVars, accountVars, importVars,
                   keysVars, consoleVars, serverVars>>
     /\ Models!Next
  \/ /\ part = "language"
     /\ UNCHANGED <<part, panelVars, storageVars, deletionVars,
                   maintenanceVars, modelsVars, settingsVars, shellVars,
                   collectionsVars, notesVars, preferencesVars,
                   transcriptVars, resultsVars, ledgerVars, registryVars,
                   answersVars, progressVars, accountVars, importVars,
                   keysVars, consoleVars, serverVars>>
     /\ Locale!Next
  \/ /\ part = "settings"
     /\ UNCHANGED <<part, panelVars, storageVars, deletionVars,
                   maintenanceVars, modelsVars, languageVars, shellVars,
                   collectionsVars, notesVars, preferencesVars,
                   transcriptVars, resultsVars, ledgerVars, registryVars,
                   answersVars, progressVars, accountVars, importVars,
                   keysVars, consoleVars, serverVars>>
     /\ Preferences!Next
  \/ /\ part = "shell"
     /\ UNCHANGED <<part, panelVars, storageVars, deletionVars,
                   maintenanceVars, modelsVars, languageVars, settingsVars,
                   collectionsVars, notesVars, preferencesVars,
                   transcriptVars, resultsVars, ledgerVars, registryVars,
                   answersVars, progressVars, accountVars, importVars,
                   keysVars, consoleVars, serverVars>>
     /\ Window!Next
  \/ /\ part = "collections"
     /\ UNCHANGED <<part, panelVars, storageVars, deletionVars,
                   maintenanceVars, modelsVars, languageVars, settingsVars,
                   shellVars, notesVars, preferencesVars, transcriptVars,
                   resultsVars, ledgerVars, registryVars, answersVars,
                   progressVars, accountVars, importVars, keysVars,
                   consoleVars, serverVars>>
     /\ Shelves!Next
  \/ /\ part = "notes"
     /\ UNCHANGED <<part, panelVars, storageVars, deletionVars,
                   maintenanceVars, modelsVars, languageVars, settingsVars,
                   shellVars, collectionsVars, preferencesVars,
                   transcriptVars, resultsVars, ledgerVars, registryVars,
                   answersVars, progressVars, accountVars, importVars,
                   keysVars, consoleVars, serverVars>>
     /\ Deeds!Next
  \/ /\ part = "preferences"
     /\ UNCHANGED <<part, panelVars, storageVars, deletionVars,
                   maintenanceVars, modelsVars, languageVars, settingsVars,
                   shellVars, collectionsVars, notesVars, transcriptVars,
                   resultsVars, ledgerVars, registryVars, answersVars,
                   progressVars, accountVars, importVars, keysVars,
                   consoleVars, serverVars>>
     /\ Wishes!Next
  \/ /\ part = "transcript"
     /\ UNCHANGED <<part, panelVars, storageVars, deletionVars,
                   maintenanceVars, modelsVars, languageVars, settingsVars,
                   shellVars, collectionsVars, notesVars, preferencesVars,
                   resultsVars, ledgerVars, registryVars, answersVars,
                   progressVars, accountVars, importVars, keysVars,
                   consoleVars, serverVars>>
     /\ Script!Next
  \/ /\ part = "results"
     /\ UNCHANGED <<part, panelVars, storageVars, deletionVars,
                   maintenanceVars, modelsVars, languageVars, settingsVars,
                   shellVars, collectionsVars, notesVars, preferencesVars,
                   transcriptVars, ledgerVars, registryVars, answersVars,
                   progressVars, accountVars, importVars, keysVars,
                   consoleVars, serverVars>>
     /\ Made!Next
  \/ /\ part = "ledger"
     /\ UNCHANGED <<part, panelVars, storageVars, deletionVars,
                   maintenanceVars, modelsVars, languageVars, settingsVars,
                   shellVars, collectionsVars, notesVars, preferencesVars,
                   transcriptVars, resultsVars, registryVars, answersVars,
                   progressVars, accountVars, importVars, keysVars,
                   consoleVars, serverVars>>
     /\ Vault!Next
  \/ /\ part = "registry"
     /\ UNCHANGED <<part, panelVars, storageVars, deletionVars,
                   maintenanceVars, modelsVars, languageVars, settingsVars,
                   shellVars, collectionsVars, notesVars, preferencesVars,
                   transcriptVars, resultsVars, ledgerVars, answersVars,
                   progressVars, accountVars, importVars, keysVars,
                   consoleVars, serverVars>>
     /\ Entrance!Next
  \/ /\ part = "answers"
     /\ UNCHANGED <<part, panelVars, storageVars, deletionVars,
                   maintenanceVars, modelsVars, languageVars, settingsVars,
                   shellVars, collectionsVars, notesVars, preferencesVars,
                   transcriptVars, resultsVars, ledgerVars, registryVars,
                   progressVars, accountVars, importVars, keysVars,
                   consoleVars, serverVars>>
     /\ Answers!Next
  \/ /\ part = "progress"
     /\ UNCHANGED <<part, panelVars, storageVars, deletionVars,
                   maintenanceVars, modelsVars, languageVars, settingsVars,
                   shellVars, collectionsVars, notesVars, preferencesVars,
                   transcriptVars, resultsVars, ledgerVars, registryVars,
                   answersVars, accountVars, importVars, keysVars,
                   consoleVars, serverVars>>
     /\ Tidings!Next
  \/ /\ part = "account"
     /\ UNCHANGED <<part, panelVars, storageVars, deletionVars,
                   maintenanceVars, modelsVars, languageVars, settingsVars,
                   shellVars, collectionsVars, notesVars, preferencesVars,
                   transcriptVars, resultsVars, ledgerVars, registryVars,
                   answersVars, progressVars, importVars, keysVars,
                   consoleVars, serverVars>>
     /\ Counter!Next
  \/ /\ part = "import"
     /\ UNCHANGED <<part, panelVars, storageVars, deletionVars,
                   maintenanceVars, modelsVars, languageVars, settingsVars,
                   shellVars, collectionsVars, notesVars, preferencesVars,
                   transcriptVars, resultsVars, ledgerVars, registryVars,
                   answersVars, progressVars, accountVars, keysVars,
                   consoleVars, serverVars>>
     /\ Visits!Next
  \/ /\ part = "keys"
     /\ UNCHANGED <<part, panelVars, storageVars, deletionVars,
                   maintenanceVars, modelsVars, languageVars, settingsVars,
                   shellVars, collectionsVars, notesVars, preferencesVars,
                   transcriptVars, resultsVars, ledgerVars, registryVars,
                   answersVars, progressVars, accountVars, importVars,
                   consoleVars, serverVars>>
     /\ Safe!Next
  \/ /\ part = "console"
     /\ UNCHANGED <<part, panelVars, storageVars, deletionVars,
                   maintenanceVars, modelsVars, languageVars, settingsVars,
                   shellVars, collectionsVars, notesVars, preferencesVars,
                   transcriptVars, resultsVars, ledgerVars, registryVars,
                   answersVars, progressVars, accountVars, importVars,
                   keysVars, serverVars>>
     /\ Console!Next
  \/ /\ part = "server"
     /\ UNCHANGED <<part, panelVars, storageVars, deletionVars,
                   maintenanceVars, modelsVars, languageVars, settingsVars,
                   shellVars, collectionsVars, notesVars, preferencesVars,
                   transcriptVars, resultsVars, ledgerVars, registryVars,
                   answersVars, progressVars, accountVars, importVars,
                   keysVars, consoleVars>>
     /\ Process!Next

Spec == Init /\ [][Next]_vars

-----------------------------------------------------------------------------
\* Each component has the types that its module says.
TypeOK ==
  /\ part = "panel" => Panel!TypeOK
  /\ part = "storage" => Storage!TypeOK
  /\ part = "deletion" => Deletion!TypeOK
  /\ part = "maintenance" => Upkeep!TypeOK
  /\ part = "models" => Models!TypeOK
  /\ part = "language" => Locale!TypeOK
  /\ part = "settings" => Preferences!TypeOK
  /\ part = "shell" => Window!TypeOK
  /\ part = "collections" => Shelves!TypeOK
  /\ part = "notes" => Deeds!TypeOK
  /\ part = "preferences" => Wishes!TypeOK
  /\ part = "transcript" => Script!TypeOK
  /\ part = "results" => Made!TypeOK
  /\ part = "ledger" => Vault!TypeOK
  /\ part = "registry" => Entrance!TypeOK
  /\ part = "answers" => Answers!TypeOK
  /\ part = "progress" => Tidings!TypeOK
  /\ part = "account" => Counter!TypeOK
  /\ part = "import" => Visits!TypeOK
  /\ part = "keys" => Safe!TypeOK
  /\ part = "console" => Console!TypeOK
  /\ part = "server" => Process!TypeOK

\* Nothing that is shown goes back to how it was before: the account and the
\* collections, whatever answers late.
NothingOlder ==
  [][ /\ part = "panel" => account'.after >= account.after
      /\ part = "collections" => view'.changes >= view.changes ]_vars

\* Whatever crashes, errors, cancellations and late answers do: every file of the
\* library is where the control file says, as the user last wrote it, the text of a
\* note is whole and its own, and no process of an import is forgotten.
NothingLost ==
  /\ part = "storage" => Storage!NothingLost
  /\ part = "transcript" => Script!TranscriptIsWhole
  /\ part = "results" => Made!EditedDraftIsKept
  /\ part = "import" => Visits!OrphansAreFound

\* What waits can always go on or end: an interrupted merge, a server that is shut
\* down, and whatever a window or a page shows as busy.
NothingStuck ==
  /\ part = "storage" => Storage!MergeGoesOn
  /\ part = "models" => Models!ActiveWillEnd
  /\ part = "settings" => Preferences!BusyWillEnd
  /\ part = "collections" => Shelves!AttachmentWillEnd
  /\ part = "notes" => Deeds!SheetIsOfItsNote
  /\ part = "preferences" => Wishes!PreferencesWillAnswer
  /\ part = "transcript" => Script!TranscriptWillAnswer
  /\ part = "results" => Made!ResultsWillAnswer
  /\ part = "import" => Visits!ClaimIsOfVisit
  /\ part = "console" => Console!ButtonsWillAnswer
  /\ part = "server" => Process!ShutdownWillEnd

\* What consists of several writes is made as a whole or not at all: a deletion from
\* the history, and the operations of the store in memory.
AllOrNothing ==
  /\ part = "deletion" => Deletion!AllOrNothing
  /\ part = "ledger" => Vault!AccountOperationsAreWhole
  /\ part = "registry" => Entrance!SignInsAreWhole

\* An update and a move of the data exclude each other, an installed update
\* stays installed, and a move that the user gave up does not go on.
UpdatesAndMoves ==
  /\ part = "maintenance" => Upkeep!InstallOrMove
  /\ part = "maintenance" => Upkeep!InstalledStays
  /\ part = "maintenance" => Upkeep!GivenUpIsGone

\* What the window shows is what it says it shows: the language that is stored,
\* and the page of the very task it names, of none that is deleted; and what is
\* answered of a web page is what the disk has; the credits that the administrator's
\* page shows are those that its audit explains.
NoStaleView ==
  /\ part = "language" => Locale!LanguageIsStored
  /\ part = "shell" => Window!NoDeadVisit
  /\ part = "shell" => Window!NamedIsShown
  /\ part = "notes" => Deeds!NoOlderNote
  /\ part = "preferences" => Wishes!ProfileIsStored
  /\ part = "transcript" => Script!PolishedIsOfText
  /\ part = "results" => Made!ShownIsOfNote
  /\ part = "import" => Visits!AnswerIsOfDisk
  /\ part = "console" => Console!CreditsAreExplained

\* What is sent or stored is what the other side accepts, no limit is
\* passed, and what the window permits was so while it asked.
Acceptable ==
  /\ part = "preferences" => Wishes!ConfirmedIsValid
  /\ part = "results" => Made!SeedIsOfList
  /\ part = "ledger" => Vault!AccountLimitsHold
  /\ part = "registry" => Entrance!DispatchLimitsHold
  /\ part = "answers" => Answers!AnswersAreRead
  /\ part = "answers" => Answers!ShownIsSound
  /\ part = "answers" => Answers!RequestsAreHeard
  /\ part = "progress" => Tidings!ProgressIsHeard
  /\ part = "account" => Counter!AccountIsRead
  /\ part = "account" => Counter!PermitsAreHeld
  /\ part = "account" => Counter!RefusalIsTold
  /\ part = "keys" => Safe!StoredKeysAreSound
  /\ part = "keys" => Safe!ChargedIsHandedOut
  /\ part = "console" => Console!LoggedOutIsRevoked
  /\ part = "server" => Process!AcceptedIsServable
  /\ part = "server" => Process!RequestsHaveDatabase

\* What there are two of, and no constant or initial state tells apart, can change
\* places. No component has more than one kind of it, so all kinds share their values.
Symmetry == Permutations(Notes)
=============================================================================
