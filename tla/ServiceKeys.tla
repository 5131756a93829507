----------------------------- MODULE ServiceKeys -----------------------------
(***************************************************************************)
(* The services that the server pays for, a language model and a search:   *)
(* how an administrator sets their keys (server/src/adminPage.ts,          *)
(* routes/admin.ts, llmConfig.ts, anysearchConfig.ts) and how a desktop    *)
(* gets them, the model for a credit (routes/desktopLlm.ts).  A handler    *)
(* gives way to others wherever it awaits the store: a save reads the row  *)
(* and writes it in two steps, so saves from several pages overlap.        *)
(***************************************************************************)
EXTENDS Integers, FiniteSets

CONSTANTS
  None,
  ApiKeys,      \* API keys
  Secrets,      \* values of FRAMEQ_LLM_CONFIG_ENCRYPTION_KEY
  MaxForms,     \* bound on the saves that are ever sent
  Checkouts,    \* request_id of the desktop's calls
  MaxCredits,   \* the credits of the user
  MaxStarts     \* bound on the starts of the server

VARIABLES
  services,   \* LlmConfigRecord and AnysearchConfigRecord
  host,       \* the server's encryption key, None only in development; its starts
  saves,      \* the POSTs of the forms
  checkouts,  \* the calls of the desktop
  credits     \* llmQuotaLimit, and the request ids of LlmUsageEvent

vars == <<services, host, saves, checkouts, credits>>

Names == {"llm", "search"}
Saves == 1..MaxForms
MaybeKey == ApiKeys \cup {None}

\* A row: the key, the secret that it is encrypted with, and the key of its last four
\* characters.  Provider, address, model and timeout are valid in every row.
Row == [key : MaybeKey, under : Secrets \cup {None}, last4 : MaybeKey]
Save == [name : Names, apiKey : MaybeKey, clearApiKey : BOOLEAN,
         step : {"sent", "read", "answered"}, existing : Row \cup {None}]
Checkout == [name : Names, key : MaybeKey, lost : BOOLEAN,
             step : {"idle", "known", "configured", "paid", "config", "refused"}]

TypeOK ==
  /\ services \in [Names -> Row \cup {None}]
  /\ host \in [secret : Secrets \cup {None}, starts : 1..MaxStarts]
  /\ saves \in [Saves -> Save \cup {None}]
  /\ checkouts \in [Checkouts -> Checkout]
  /\ credits \in [limit : {MaxCredits}, events : SUBSET Checkouts]

\* The search without a key, and the rows of earlier runs of the server.
Anonymous == [key |-> None, under |-> None, last4 |-> None]
EarlierRows ==
  {[key |-> key, under |-> under, last4 |-> key] : key \in ApiKeys, under \in Secrets} \cup {Anonymous}

Init ==
  /\ host \in [secret : Secrets \cup {None}, starts : {1}]
  /\ services \in [Names -> EarlierRows \cup {None}]
  /\ services["llm"] # Anonymous
  /\ saves = [s \in Saves |-> None]
  /\ checkouts \in [Checkouts -> [name : Names, key : {None}, lost : {FALSE}, step : {"idle"}]]
  /\ credits = [limit |-> MaxCredits, events |-> {}]

-----------------------------------------------------------------------------
\* The form of a page is sent, as often as its button is clicked: a key may be typed,
\* and the search may be marked as anonymous, which typing a key takes back until the
\* mark is set again.
Submit(s, name, key, anonymous) ==
  /\ saves[s] = None /\ \A r \in Saves : r < s => saves[r] # None
  /\ saves' = [saves EXCEPT ![s] =
                 [name |-> name, apiKey |-> key, clearApiKey |-> anonymous /\ name = "search",
                  step |-> "sent", existing |-> None]]
  /\ UNCHANGED <<services, host, checkouts, credits>>

-----------------------------------------------------------------------------
At(s, step) == saves[s] # None /\ saves[s].step = step
Over == [name |-> "llm", apiKey |-> None, clearApiKey |-> FALSE, step |-> "answered",
         existing |-> None]
Answered(s) == saves' = [saves EXCEPT ![s] = Over]

\* The session is one of this page and the body one that the schema admits: saveConfig
\* awaits getLlmConfig or getAnysearchConfig.
ReadExisting(s) ==
  /\ At(s, "sent")
  /\ saves' = [saves EXCEPT ![s].step = "read", ![s].existing = services[saves[s].name]]
  /\ UNCHANGED <<services, host, checkouts, credits>>

Brings(save) == save.apiKey # None /\ ~save.clearApiKey

\* encryptSecret; without a secret it throws, and so does the first save of the
\* model's settings without a key.
Encrypted(key) == [key |-> key, under |-> host.secret, last4 |-> key]
Throws(save) ==
  \/ Brings(save) /\ host.secret = None
  \/ save.name = "llm" /\ save.apiKey = None /\ save.existing = None

\* What a save writes: no key, the key that it brings, or the row that it has read.
Saved(save) ==
  IF Brings(save) THEN Encrypted(save.apiKey)
  ELSE IF save.clearApiKey \/ save.existing = None THEN Anonymous
  ELSE save.existing

WriteConfig(s) ==
  /\ At(s, "read") /\ ~Throws(saves[s])
  /\ services' = [services EXCEPT ![saves[s].name] = Saved(saves[s])]
  /\ Answered(s)
  /\ UNCHANGED <<host, checkouts, credits>>

\* No session, or the page of another one; a body that the schema refuses; or saveConfig
\* throws, for a reason above or for an address, a model or a timeout that is not valid.
RefuseSave(s) ==
  /\ At(s, "sent") \/ At(s, "read")
  /\ Answered(s)
  /\ UNCHANGED <<services, host, checkouts, credits>>

-----------------------------------------------------------------------------
To(c, step) == checkouts' = [checkouts EXCEPT ![c].step = step]

\* The desktop asks, again with the same id if it had no answer.
Ask(c) ==
  /\ checkouts[c].step = "idle" /\ To(c, "known")
  /\ UNCHANGED <<services, host, saves, credits>>

\* What getDesktopConfig returns a row for: the settings of the model have a key.
Complete(name) == services[name] # None /\ (name = "search" \/ services[name].key # None)
Decrypts(row) == row.key = None \/ (host.secret # None /\ row.under = host.secret)

GetDesktopConfig(c) ==
  /\ checkouts[c].step = "known"
  /\ LET name == checkouts[c].name
     IN  /\ Complete(name) /\ Decrypts(services[name])
         /\ checkouts' = [checkouts EXCEPT
                            ![c].key = services[name].key,
                            ![c].step = IF name = "llm" THEN "configured" ELSE "config"]
  /\ UNCHANGED <<services, host, saves, credits>>

\* consumeLlmQuota: one credit for one request id.
Creditable(c) == c \in credits.events \/ Cardinality(credits.events) < credits.limit
Charge(c) == credits' = [credits EXCEPT !.events = @ \cup {c}]

ConsumeLlmQuota(c) ==
  /\ checkouts[c].step = "configured" /\ Creditable(c)
  /\ Charge(c) /\ To(c, "paid")
  /\ UNCHANGED <<services, host, saves>>

\* The answer has the settings that were read before the credit was taken.
AnswerConfig(c) ==
  /\ checkouts[c].step = "paid" /\ To(c, "config")
  /\ UNCHANGED <<services, host, saves, credits>>

\* No session, or an id that the schema refuses; no settings, or a key that this server
\* cannot decrypt; or no credit, a store that is busy, or one that fails.
RefuseCheckout(c) ==
  /\ checkouts[c].step \in {"known", "configured"} /\ To(c, "refused")
  /\ UNCHANGED <<services, host, saves, credits>>

\* The answer is lost on its way.
LoseAnswer(c) ==
  /\ checkouts[c].step \in {"config", "refused"} /\ ~checkouts[c].lost
  /\ checkouts' = [checkouts EXCEPT ![c].step = "idle", ![c].key = None, ![c].lost = TRUE]
  /\ UNCHANGED <<services, host, saves, credits>>

\* The server starts again, perhaps with another secret: what it was at is lost.
Restart(secret) ==
  /\ host.starts < MaxStarts
  /\ host' = [secret |-> secret, starts |-> host.starts + 1]
  /\ saves' = [s \in Saves |->
                 IF saves[s] = None THEN None ELSE Over]
  /\ checkouts' = [c \in Checkouts |->
                     IF checkouts[c].step \in {"idle", "config", "refused"} THEN checkouts[c]
                     ELSE [checkouts[c] EXCEPT !.step = "idle", !.key = None, !.lost = TRUE]]
  /\ UNCHANGED <<services, credits>>

Next ==
  \/ \E s \in Saves, name \in Names, key \in MaybeKey, anonymous \in BOOLEAN :
       Submit(s, name, key, anonymous)
  \/ \E s \in Saves : ReadExisting(s) \/ WriteConfig(s) \/ RefuseSave(s)
  \/ \E c \in Checkouts :
       \/ Ask(c) \/ GetDesktopConfig(c) \/ ConsumeLlmQuota(c) \/ AnswerConfig(c)
       \/ RefuseCheckout(c) \/ LoseAnswer(c)
  \/ \E secret \in Secrets \cup {None} : Restart(secret)

Spec == Init /\ [][Next]_vars

-----------------------------------------------------------------------------
\* Whichever saves overlap, across pages and restarts: no key is stored in the clear,
\* the last four characters that a page shows are of the key that is stored, and the
\* model, once it is set up, never is without a key again.
StoredKeysAreSound ==
  \A name \in Names : services[name] # None =>
    /\ services[name].key # None => services[name].under \in Secrets
    /\ services[name].last4 = services[name].key
    /\ name = "llm" => services[name].key # None

\* A credit is taken only for settings that are handed out: who was charged gets them
\* unless the answer is lost, who is refused for missing or unreadable settings is not
\* charged, one id is charged once, and nothing is charged for the search.
ChargedIsHandedOut ==
  /\ Cardinality(credits.events) <= credits.limit
  /\ \A c \in Checkouts :
       /\ c \in credits.events =>
            checkouts[c].name = "llm" /\ (checkouts[c].lost \/ checkouts[c].step \in {"paid", "config"})
       /\ checkouts[c].name = "llm" /\ checkouts[c].step = "config" =>
            c \in credits.events /\ checkouts[c].key # None
=============================================================================
