----------------------------- MODULE Onboarding -----------------------------
(***************************************************************************)
(* How a workspace is set up: its domains with their proof by a DNS record, *)
(* the prompts to monitor with their monitors, the steps of the guide and   *)
(* its completion; and what the settings do to domains afterwards.          *)
(*                                                                          *)
(* Requests run at the same time (two tabs, two admins, a form sent twice); *)
(* every statement is a step, and a request may die between two.  Other     *)
(* workspaces, members' permissions, the names of workspace and brand and   *)
(* prompts added outside the guide are left out.                            *)
(***************************************************************************)
EXTENDS Integers, FiniteSets

CONSTANTS
  Workers,      \* requests that may be at work at once
  Hosts,        \* hostnames
  Texts,        \* prompts, normalised
  Nothing,      \* no host, no prompt
  MaxDomains,   \* domains the plan allows
  MaxAttempts,  \* MAX_ATTEMPTS_PER_HOUR
  Faults,       \* what may go wrong, a subset of FaultKinds
  MaxFaults,    \* bound on crashes and failed writes together
  MaxRequests   \* bound on requests

(* crash: the request dies between two steps.  store: a write fails.        *)
FaultKinds == {"crash", "store"}

ASSUME HostsAssumption == IsFiniteSet(Hosts)
ASSUME WorkersAssumption == IsFiniteSet(Workers)
ASSUME NothingAssumption == Nothing \notin Hosts \cup Texts
ASSUME BoundsAssumption ==
  /\ MaxDomains \in Nat /\ MaxAttempts \in Nat \ {0} /\ MaxFaults \in Nat /\ MaxRequests \in Nat
  /\ Faults \subseteq FaultKinds

VARIABLES
  domain,      \* rows of domains
  branded,     \* is there a row in brands?
  prompts,     \* rows of monitored_prompts
  configs,     \* those of them with rows in monitor_configurations
  step,        \* workspace_onboarding.current_step
  completed,   \* workspace_onboarding.completed_at is set
  attempts,    \* verification attempts of the last hour, counted to the limit
  published,   \* the token in the DNS record of each host, 0 if none
  tokens,      \* tokens generated so far
  pc,          \* what each request does next
  job,         \* its local data
  requests,    \* requests so far; also names the rows a request inserts
  faults,      \* crashes and failed writes so far
  (* history *)
  furthest,    \* the furthest step there has been
  found,       \* the token last found in the DNS record of each host
  lookups,     \* DNS lookups of the last hour
  saved,       \* the prompts last asked for, by host
  overlapped   \* have two requests ever been at work at once?

rows == <<domain, branded, prompts, configs, step, completed, attempts>>
environment == <<published, tokens>>
history == <<furthest, found, lookups, saved, overlapped>>
vars == <<rows, environment, pc, job, requests, faults, history>>

-----------------------------------------------------------------------------
(* Types *)

Domain == [status: {"none", "pending", "failed", "verified", "disabled"},
           token: Nat,    \* verification_token
           since: Nat]    \* orders created_at

NoDomain == [status |-> "none", token |-> 0, since |-> 0]
NoDomains == [h \in Hosts |-> NoDomain]

Prompt == [host: Hosts, text: Texts, save: Nat]

Job == [host: Hosts \cup {Nothing},
        target: 0 .. 5,                   \* the step to go to, 0 if none
        token: Nat,                       \* as read, 0 if there was none
        match: BOOLEAN,                   \* the answer of the DNS
        todo: SUBSET Texts,               \* not yet inserted
        old: SUBSET Prompt,               \* rows to replace
        text: Texts \cup {Nothing},       \* the one just inserted
        id: Nat]

NoJob == [host |-> Nothing, target |-> 0, token |-> 0, match |-> FALSE, todo |-> {},
          old |-> {}, text |-> Nothing, id |-> 0]

Checks == {"verified", "branded", "prompted", "configured"}

TypeOK ==
  /\ domain \in [Hosts -> Domain]
  /\ \A g, h \in Hosts : domain[g].since = domain[h].since /\ g # h => domain[g] = NoDomain
  /\ branded \in BOOLEAN
  /\ prompts \subseteq Prompt /\ configs \subseteq prompts
  /\ \A p, q \in prompts : p.host = q.host /\ p.text = q.text => p = q
  /\ step \in 1 .. 5 /\ furthest \in step .. 5
  /\ completed \in BOOLEAN
  /\ attempts \in [Hosts -> 0 .. MaxAttempts]
  /\ published \in [Hosts -> Nat] /\ found \in [Hosts -> Nat] /\ lookups \in [Hosts -> Nat]
  /\ tokens \in Nat
  /\ pc \in [Workers -> Checks \cup
       {"idle", "domain", "room", "insert", "brand", "name", "step", "advance", "token",
        "limit", "lookup", "record", "verdict", "old", "unconfigure", "unprompt", "prompt",
        "config", "complete"}]
  /\ job \in [Workers -> Job]
  /\ requests \in 0 .. MaxRequests
  /\ faults \in 0 .. MaxFaults
  /\ saved \in [Hosts -> SUBSET Texts]
  /\ overlapped \in BOOLEAN

(* A workspace nobody has set up yet... *)
Fresh ==
  /\ domain = NoDomains
  /\ branded = FALSE
  /\ prompts = {}
  /\ step = 1
  /\ completed = FALSE
  /\ tokens = 0
  /\ published = [h \in Hosts |-> 0] /\ found = [h \in Hosts |-> 0]
  /\ saved = [h \in Hosts |-> {}]

(* ... or one with a domain and a prompt, its guide finished or about to    *)
(* be: Fresh leads there, and fewer requests show what happens after it.    *)
SetUp ==
  /\ \E h \in Hosts, text \in Texts :
       /\ domain = [NoDomains EXCEPT ![h] = [status |-> "verified", token |-> 1, since |-> 1]]
       /\ prompts = {[host |-> h, text |-> text, save |-> 0]}
       /\ published = [g \in Hosts |-> IF g = h THEN 1 ELSE 0]
       /\ saved = [g \in Hosts |-> IF g = h THEN {text} ELSE {}]
  /\ branded = TRUE
  /\ step = 5
  /\ completed \in BOOLEAN
  /\ tokens = 1
  /\ found = published

Init ==
  /\ Fresh \/ SetUp
  /\ configs = prompts
  /\ furthest = step
  /\ attempts = [h \in Hosts |-> 0]
  /\ pc = [w \in Workers |-> "idle"]
  /\ job = [w \in Workers |-> NoJob]
  /\ requests = 0 /\ faults = 0
  /\ lookups = [h \in Hosts |-> 0]
  /\ overlapped = FALSE

-----------------------------------------------------------------------------
(* Local steps, faults and requests *)

Goto(w, label) == pc' = [pc EXCEPT ![w] = label]

Return(w) ==
  /\ Goto(w, "idle")
  /\ job' = [job EXCEPT ![w] = NoJob]

Fault(kind) ==
  /\ kind \in Faults /\ faults < MaxFaults
  /\ faults' = faults + 1

Quiet == \A w \in Workers : pc[w] = "idle"

Request ==
  /\ requests < MaxRequests
  /\ requests' = requests + 1
  /\ overlapped' = (overlapped \/ ~Quiet)

(* A request begins with local data that are those of NoJob unless given.   *)
Begin(w, label, data) ==
  /\ pc[w] = "idle"
  /\ Request
  /\ Goto(w, label)
  /\ job' = [job EXCEPT ![w] = [data EXCEPT !.id = requests']]

Exists(h) == domain[h].status # "none"
Enabled(h) == domain[h].status \notin {"none", "disabled"}

(* getWorkspaceDomainSetup: the oldest domain that is not disabled. *)
IsSetup(h) ==
  Enabled(h) /\ \A g \in Hosts : Enabled(g) => domain[h].since <= domain[g].since

(* Definitions marked "Wrong:" are bugs a change could introduce.  No run   *)
(* uses them as they stand: each takes the place of the definition after it *)
(* to show that the property it names would notice.                         *)

-----------------------------------------------------------------------------
(* setOnboardingStep *)

(* saveWorkspaceStepAction, saveVerifyLaterAction, goToOnboardingStepAction *)
GoToStep(w, target) ==
  /\ Begin(w, "step", [NoJob EXCEPT !.target = target])
  /\ UNCHANGED <<rows, environment, faults, furthest, found, lookups, saved>>

(* Wrong: one step may be left out (ProgressIsEarned). *)
IsAtMostTwoAhead(target) == target <= step + 2

IsValidTransition(target) == target <= step + 1

ReadStep(w) ==
  /\ pc[w] = "step"
  /\ IF IsValidTransition(job[w].target)
     THEN Goto(w, "advance") /\ UNCHANGED job
     ELSE Return(w)
  /\ UNCHANGED <<rows, environment, requests, faults, history>>

Reach(s) ==
  /\ step' = s
  /\ furthest' = IF s > furthest THEN s ELSE furthest

Advance(w) ==
  /\ pc[w] = "advance"
  /\ \/ Reach(job[w].target) /\ UNCHANGED faults
     \/ UNCHANGED <<step, furthest>> /\ Fault("store")
  /\ Return(w)
  /\ UNCHANGED <<domain, branded, prompts, configs, completed, attempts, environment,
                 requests, found, lookups, saved, overlapped>>

(* What a request does when its own work is done. *)
Proceed(w) ==
  IF job[w].target > 0 THEN Goto(w, "step") /\ UNCHANGED job ELSE Return(w)

-----------------------------------------------------------------------------
(* upsertDomainAndBrand *)

IsRoom == Cardinality({g \in Hosts : Enabled(g)}) < MaxDomains

(* saveDomainStepAction *)
SaveDomain(w, h) ==
  /\ Begin(w, "domain", [NoJob EXCEPT !.host = h, !.target = 3])
  /\ UNCHANGED <<rows, environment, faults, furthest, found, lookups, saved>>

(* addWorkspaceDomainAction, from the settings, asks for room first. *)
AddDomain(w, h) ==
  /\ completed /\ IsRoom
  /\ Begin(w, "domain", [NoJob EXCEPT !.host = h])
  /\ UNCHANGED <<rows, environment, faults, furthest, found, lookups, saved>>

(* The row as it is; that no other workspace has the host is read before.   *)
FindDomain(w) ==
  /\ pc[w] = "domain"
  /\ job' = [job EXCEPT ![w].token = domain[job[w].host].token]
  /\ Goto(w, "room")
  /\ UNCHANGED <<rows, environment, requests, faults, history>>

(* The domains are counted, whether or not there is a row. *)
CountDomains(w) ==
  /\ pc[w] = "room"
  /\ IF job[w].token > 0 \/ IsRoom THEN Goto(w, "insert") /\ UNCHANGED job ELSE Return(w)
  /\ UNCHANGED <<rows, environment, requests, faults, history>>

(* A row that was there gets the token that was read, whatever it has by    *)
(* now; a failure of that update goes unnoticed.  A refused or failed       *)
(* insert ends the request.                                                 *)
WriteDomain(w) ==
  LET h == job[w].host
      n == Cardinality({g \in Hosts : Exists(g)})
  IN
  /\ pc[w] = "insert"
  /\ \/ /\ job[w].token > 0
        /\ domain' = [domain EXCEPT ![h].token = job[w].token]
        /\ Goto(w, "brand")
        /\ UNCHANGED <<tokens, job, faults>>
     \/ /\ job[w].token > 0 /\ Fault("store")
        /\ Goto(w, "brand")
        /\ UNCHANGED <<domain, tokens, job>>
     \/ /\ job[w].token = 0 /\ ~Exists(h)
        /\ tokens' = tokens + 1
        /\ domain' = [domain EXCEPT ![h] =
                        [status |-> "pending", token |-> tokens', since |-> n + 1]]
        /\ Goto(w, "brand")
        /\ UNCHANGED <<job, faults>>
     \/ /\ job[w].token = 0 /\ Exists(h)
        /\ Return(w)
        /\ UNCHANGED <<domain, tokens, faults>>
     \/ /\ job[w].token = 0 /\ ~Exists(h) /\ Fault("store")
        /\ Return(w)
        /\ UNCHANGED <<domain, tokens>>
  /\ UNCHANGED <<branded, prompts, configs, step, completed, attempts, published,
                 requests, history>>

(* The brand there is gets the new name, noticed or not. *)
FindBrand(w) ==
  /\ pc[w] = "brand"
  /\ IF branded THEN Proceed(w) ELSE Goto(w, "name") /\ UNCHANGED job
  /\ UNCHANGED <<rows, environment, requests, faults, history>>

(* Refused if there is one of the same name by now. *)
InsertBrand(w) ==
  /\ pc[w] = "name"
  /\ \/ branded' = TRUE /\ Proceed(w) /\ UNCHANGED faults
     \/ branded /\ Return(w) /\ UNCHANGED <<branded, faults>>
     \/ Return(w) /\ UNCHANGED branded /\ Fault("store")
  /\ UNCHANGED <<domain, prompts, configs, step, completed, attempts, environment,
                 requests, history>>

-----------------------------------------------------------------------------
(* verifyDomainDnsTxt, rotateDomainVerificationToken, disableDomainAction *)

(* verifyDomainAction; retryDomainVerificationAction, from the settings. *)
Verify(w, h) ==
  /\ \/ IsSetup(h) /\ Begin(w, "token", [NoJob EXCEPT !.host = h, !.target = 4])
     \/ Exists(h) /\ Begin(w, "token", [NoJob EXCEPT !.host = h])
  /\ UNCHANGED <<rows, environment, faults, furthest, found, lookups, saved>>

ReadToken(w) ==
  /\ pc[w] = "token"
  /\ job' = [job EXCEPT ![w].token = domain[job[w].host].token]
  /\ Goto(w, "limit")
  /\ UNCHANGED <<rows, environment, requests, faults, history>>

Counted(h) == attempts' = [attempts EXCEPT ![h] = IF @ < MaxAttempts THEN @ + 1 ELSE @]

(* Wrong: reaching the limit does not yet exceed it (LookupsWithinLimit). *)
MayLookUpAtLimit(h) == attempts[h] <= MaxAttempts

MayLookUp(h) == attempts[h] < MaxAttempts

(* An attempt that is turned away is recorded, and so counts, too. *)
CheckLimit(w) ==
  LET h == job[w].host IN
  /\ pc[w] = "limit"
  /\ \/ MayLookUp(h) /\ Goto(w, "lookup") /\ UNCHANGED <<attempts, job, faults>>
     \/ ~MayLookUp(h) /\ Return(w) /\ Counted(h) /\ UNCHANGED faults
     \/ ~MayLookUp(h) /\ Return(w) /\ UNCHANGED attempts /\ Fault("store")
  /\ UNCHANGED <<domain, branded, prompts, configs, step, completed, environment,
                 requests, history>>

(* A lookup may fail, or find the record of another token. *)
LookUp(w) ==
  LET h == job[w].host IN
  /\ pc[w] = "lookup"
  /\ \E match \in BOOLEAN :
       /\ match => published[h] = job[w].token
       /\ job' = [job EXCEPT ![w].match = match]
       /\ found' = IF match THEN [found EXCEPT ![h] = job[w].token] ELSE found
  /\ lookups' = [lookups EXCEPT ![h] = @ + 1]
  /\ Goto(w, "record")
  /\ UNCHANGED <<rows, environment, requests, faults, furthest, saved, overlapped>>

(* recordAttempt.  Its error is not looked at. *)
RecordAttempt(w) ==
  /\ pc[w] = "record"
  /\ \/ Counted(job[w].host) /\ UNCHANGED faults
     \/ UNCHANGED attempts /\ Fault("store")
  /\ Goto(w, "verdict")
  /\ UNCHANGED <<domain, branded, prompts, configs, step, completed, environment,
                 job, requests, history>>

(* The verdict on the token that was read is written to the row by its id.  *)
WriteVerdict(w) ==
  LET verdict == IF job[w].match THEN "verified" ELSE "failed" IN
  /\ pc[w] = "verdict"
  /\ \/ domain' = [domain EXCEPT ![job[w].host].status = verdict] /\ UNCHANGED faults
     \/ UNCHANGED domain /\ Fault("store")
  /\ IF job[w].match THEN Proceed(w) ELSE Return(w)
  /\ UNCHANGED <<branded, prompts, configs, step, completed, attempts, environment,
                 requests, history>>

(* Wrong: a new token leaves the verdict as it is (VerifiedWasFound). *)
KeptVerdict(h) == domain[h].status

VerdictOnNewToken(h) == "pending"

(* One statement, from the guide or the settings, for any domain there is.  *)
Rotate(h) ==
  /\ Exists(h)
  /\ Request
  /\ tokens' = tokens + 1
  /\ domain' = [domain EXCEPT ![h].token = tokens', ![h].status = VerdictOnNewToken(h)]
  /\ UNCHANGED <<branded, prompts, configs, step, completed, attempts, published,
                 pc, job, faults, furthest, found, lookups, saved>>

(* Refused while monitors are active, which is not modelled: it may happen  *)
(* at any time.                                                             *)
Disable(h) ==
  /\ Exists(h)
  /\ Request
  /\ domain' = [domain EXCEPT ![h].status = "disabled"]
  /\ UNCHANGED <<branded, prompts, configs, step, completed, attempts, environment,
                 pc, job, faults, furthest, found, lookups, saved>>

-----------------------------------------------------------------------------
(* saveOnboardingPrompts *)

SavePrompts(w, h, texts) ==
  /\ IsSetup(h)
  /\ Begin(w, "old", [NoJob EXCEPT !.host = h, !.target = 5, !.todo = texts])
  /\ saved' = [saved EXCEPT ![h] = texts]
  /\ UNCHANGED <<rows, environment, faults, furthest, found, lookups>>

ReadOld(w) ==
  LET old == {p \in prompts : p.host = job[w].host} IN
  /\ pc[w] = "old"
  /\ job' = [job EXCEPT ![w].old = old]
  /\ Goto(w, IF old = {} THEN "prompt" ELSE "unconfigure")
  /\ UNCHANGED <<rows, environment, requests, faults, history>>

(* Failures of the deletions are not noticed. *)
DeleteConfigs(w) ==
  /\ pc[w] = "unconfigure"
  /\ \/ configs' = configs \ job[w].old /\ UNCHANGED faults
     \/ UNCHANGED configs /\ Fault("store")
  /\ Goto(w, "unprompt")
  /\ UNCHANGED <<domain, branded, prompts, step, completed, attempts, environment,
                 job, requests, history>>

(* Wrong: rows to be inserted again are kept (PromptsAreConfigured). *)
OldNotKept(w) == {p \in job[w].old : p.text \notin job[w].todo}

OldPrompts(w) == job[w].old

(* Monitors go with their prompt. *)
DeletePrompts(w) ==
  /\ pc[w] = "unprompt"
  /\ \/ /\ prompts' = prompts \ OldPrompts(w)
        /\ configs' = configs \ OldPrompts(w)
        /\ UNCHANGED faults
     \/ UNCHANGED <<prompts, configs>> /\ Fault("store")
  /\ Goto(w, "prompt")
  /\ UNCHANGED <<domain, branded, step, completed, attempts, environment, job,
                 requests, history>>

Row(w, text) == [host |-> job[w].host, text |-> text, save |-> job[w].id]

(* Wrong: no unique index (TypeOK). *)
NeverTaken(h, text) == FALSE

IsTaken(h, text) == \E p \in prompts : p.host = h /\ p.text = text

(* Refused if there is a row for the same text (and place, which is left    *)
(* out), which ends the request.                                            *)
InsertPrompt(w, text) ==
  /\ pc[w] = "prompt"
  /\ text \in job[w].todo
  /\ \/ /\ ~IsTaken(job[w].host, text)
        /\ prompts' = prompts \cup {Row(w, text)}
        /\ job' = [job EXCEPT ![w].todo = @ \ {text}, ![w].text = text]
        /\ Goto(w, "config")
        /\ UNCHANGED faults
     \/ /\ IsTaken(job[w].host, text)
        /\ Return(w)
        /\ UNCHANGED <<prompts, faults>>
     \/ /\ Fault("store")
        /\ Return(w)
        /\ UNCHANGED prompts
  /\ UNCHANGED <<domain, branded, configs, step, completed, attempts, environment,
                 requests, history>>

(* Refused if the prompt is gone by now. *)
InsertConfigs(w) ==
  LET row == Row(w, job[w].text) IN
  /\ pc[w] = "config"
  /\ \/ /\ row \in prompts
        /\ configs' = configs \cup {row}
        /\ Goto(w, "prompt")
        /\ UNCHANGED <<job, faults>>
     \/ /\ row \notin prompts
        /\ Return(w)
        /\ UNCHANGED <<configs, faults>>
     \/ /\ Fault("store")
        /\ Return(w)
        /\ UNCHANGED configs
  /\ UNCHANGED <<domain, branded, prompts, step, completed, attempts, environment,
                 requests, history>>

PromptsSaved(w) ==
  /\ pc[w] = "prompt"
  /\ job[w].todo = {}
  /\ Goto(w, "step")
  /\ UNCHANGED <<rows, environment, job, requests, faults, history>>

-----------------------------------------------------------------------------
(* finishOnboardingAction, completeOnboarding *)

Finish(w, h) ==
  /\ IsSetup(h) /\ domain[h].status = "verified"
  /\ Begin(w, "verified", NoJob)
  /\ UNCHANGED <<rows, environment, faults, furthest, found, lookups, saved>>

(* evaluateOnboardingCompletion: what it asks of the rows... *)
Met ==
  [verified |-> \E h \in Hosts : domain[h].status = "verified",
   branded |-> branded,
   prompted |-> prompts # {},
   configured |-> configs # {}]

(* ... one after the other. *)
After ==
  [verified |-> "branded", branded |-> "prompted", prompted |-> "configured",
   configured |-> "complete"]

Evaluate(w) ==
  /\ pc[w] \in Checks
  /\ IF Met[pc[w]] THEN Goto(w, After[pc[w]]) /\ UNCHANGED job ELSE Return(w)
  /\ UNCHANGED <<rows, environment, requests, faults, history>>

(* Then monitors are activated (MonitorSchedule). *)
CompleteOnboarding(w) ==
  /\ pc[w] = "complete"
  /\ \/ completed' = TRUE /\ Reach(5) /\ UNCHANGED faults
     \/ UNCHANGED <<completed, step, furthest>> /\ Fault("store")
  /\ Return(w)
  /\ UNCHANGED <<domain, branded, prompts, configs, attempts, environment, requests,
                 found, lookups, saved, overlapped>>

-----------------------------------------------------------------------------

Crash(w) ==
  /\ pc[w] # "idle"
  /\ Fault("crash")
  /\ Return(w)
  /\ UNCHANGED <<rows, environment, requests, history>>

(* The user puts the record that is shown into the DNS.  (To remove it is   *)
(* no different from a lookup that fails.)                                  *)
Publish(h) ==
  /\ Exists(h)
  /\ published' = [published EXCEPT ![h] = domain[h].token]
  /\ UNCHANGED <<rows, tokens, pc, job, requests, faults, history>>

(* The attempts so far are more than an hour ago. *)
HourPasses ==
  /\ attempts' = [h \in Hosts |-> 0]
  /\ lookups' = [h \in Hosts |-> 0]
  /\ UNCHANGED <<domain, branded, prompts, configs, step, completed, environment,
                 pc, job, requests, faults, furthest, found, saved, overlapped>>

Next ==
  \/ \E w \in Workers :
       \/ \E target \in 1 .. 5 : GoToStep(w, target)
       \/ \E h \in Hosts : SaveDomain(w, h) \/ AddDomain(w, h) \/ Verify(w, h) \/ Finish(w, h)
       \/ \E h \in Hosts, texts \in (SUBSET Texts) \ {{}} : SavePrompts(w, h, texts)
       \/ ReadStep(w) \/ Advance(w)
       \/ FindDomain(w) \/ CountDomains(w) \/ WriteDomain(w) \/ FindBrand(w) \/ InsertBrand(w)
       \/ ReadToken(w) \/ CheckLimit(w) \/ LookUp(w) \/ RecordAttempt(w) \/ WriteVerdict(w)
       \/ ReadOld(w) \/ DeleteConfigs(w) \/ DeletePrompts(w)
       \/ \E text \in Texts : InsertPrompt(w, text)
       \/ InsertConfigs(w) \/ PromptsSaved(w)
       \/ Evaluate(w) \/ CompleteOnboarding(w)
       \/ Crash(w)
  \/ \E h \in Hosts : Rotate(h) \/ Disable(h) \/ Publish(h)
  \/ HourPasses

Spec == Init /\ [][Next]_vars

-----------------------------------------------------------------------------
(* Properties *)

(* The guide never runs ahead: however requests overlap, a step is reached  *)
(* from the one before it, except by the completion of the whole; and       *)
(* requests that do not overlap complete it only when everything it asks    *)
(* for is there at that moment, although it is asked for one by one.        *)
ProgressIsEarned ==
  [][/\ furthest' <= furthest + 1 \/ (completed' /\ step' = 5)
     /\ completed' # completed /\ ~overlapped =>
          /\ \E h \in Hosts : domain[h].status = "verified"
          /\ branded /\ prompts # {} /\ configs # {}]_vars

(* A domain is verified only after a token of it was found in the DNS, and, *)
(* as long as requests do not overlap, the token it has now.                *)
VerifiedWasFound ==
  \A h \in Hosts : domain[h].status = "verified" =>
    /\ found[h] > 0
    /\ ~overlapped => found[h] = domain[h].token

(* Without faults no prompt is left without its monitors, however saves     *)
(* delete and insert around each other; if requests never overlapped the    *)
(* prompts of a domain are those of the last save, no more and no less.     *)
PromptsAreConfigured ==
  Quiet /\ faults = 0 =>
    /\ configs = prompts
    /\ ~overlapped =>
         \A h \in Hosts : {p.text : p \in {q \in prompts : q.host = h}} = saved[h]

(* The DNS of a domain is asked no more often in an hour than the limit     *)
(* says, but for requests that were counting at the same time and for       *)
(* attempts that failed to be recorded.                                     *)
LookupsWithinLimit ==
  \A h \in Hosts : lookups[h] <= MaxAttempts + Cardinality(Workers) - 1 + faults
=============================================================================
