--------------------------- MODULE OnboardingProofs ---------------------------
(***************************************************************************)
(* Proofs about Onboarding, for any number of requests, hostnames and      *)
(* prompts, any limits and any bounds.                                     *)
(*                                                                         *)
(* Rows of domains are never deleted: what a request found there it will   *)
(* still find, with a token, whatever others do.  That, and where a        *)
(* request may be with which local data, makes the types an invariant.     *)
(***************************************************************************)
EXTENDS Onboarding, FiniteSetTheorems, TLAPS

-----------------------------------------------------------------------------
(* What a request has in hand                                               *)

Saving == {"old", "unconfigure", "unprompt", "prompt", "config"}
Verifying == {"limit", "lookup", "record", "verdict"}
WithHost == {"domain", "room", "insert", "token"} \cup Verifying \cup Saving
Labels == Checks \cup WithHost \cup {"idle", "brand", "name", "step", "advance", "complete"}

Has(dom, h) == dom[h].status # "none"

JobOk(dom, label, j) ==
  /\ label \in WithHost => j.host \in Hosts
  /\ label \in Saving => j.target = 5
  /\ label \in {"step", "advance"} => j.target \in 1 .. 5
  /\ label = "config" => j.text \in Texts
  /\ label \in {"room", "insert"} /\ j.token > 0 => Has(dom, j.host)
  /\ label \in Verifying \cup {"token"} => Has(dom, j.host)
  /\ label \in Verifying => j.token > 0

Jobs == \A w \in Workers : JobOk(domain, pc[w], job[w])

(* A domain has a token and its place in the order, or no row at all.       *)
Existing(dom) == {h \in Hosts : Has(dom, h)}

RowsOk(dom) ==
  /\ \A h \in Hosts : ~Has(dom, h) => dom[h] = NoDomain
  /\ \A h \in Hosts : Has(dom, h) =>
       dom[h].token > 0 /\ dom[h].since \in 1 .. Cardinality(Existing(dom))
  /\ \A g, h \in Hosts : dom[g].since = dom[h].since /\ g # h => dom[g] = NoDomain

TypeInv == TypeOK /\ RowsOk(domain) /\ Jobs

DomainOk(dom) == dom \in [Hosts -> Domain] /\ RowsOk(dom)

PromptsOk ==
  /\ prompts \subseteq Prompt /\ configs \subseteq prompts
  /\ \A p, q \in prompts : p.host = q.host /\ p.text = q.text => p = q

OthersOk ==
  /\ branded \in BOOLEAN
  /\ step \in 1 .. 5 /\ furthest \in step .. 5
  /\ completed \in BOOLEAN
  /\ attempts \in [Hosts -> 0 .. MaxAttempts]
  /\ published \in [Hosts -> Nat] /\ found \in [Hosts -> Nat] /\ lookups \in [Hosts -> Nat]
  /\ tokens \in Nat
  /\ requests \in 0 .. MaxRequests
  /\ faults \in 0 .. MaxFaults
  /\ saved \in [Hosts -> SUBSET Texts]
  /\ overlapped \in BOOLEAN

DataOk == DomainOk(domain) /\ PromptsOk /\ OthersOk

LEMMA TypeInvParts ==
  TypeInv <=> DataOk /\ Jobs /\ pc \in [Workers -> Labels] /\ job \in [Workers -> Job]
BY DEF TypeInv, TypeOK, DataOk, DomainOk, PromptsOk, OthersOk, RowsOk, Labels, WithHost,
       Verifying, Saving, Checks

Grows == \A h \in Hosts : Has(domain, h) => Has(domain', h)

Moves(w, label, j) ==
  /\ label \in Labels /\ j \in Job /\ JobOk(domain', label, j)
  /\ pc' = [pc EXCEPT ![w] = label]
  /\ job' = [job EXCEPT ![w] = j]

LEMMA Growing ==
  ASSUME NEW dom, NEW dom2, NEW label, NEW j, \A h \in Hosts : Has(dom, h) => Has(dom2, h),
         JobOk(dom, label, j)
  PROVE  JobOk(dom2, label, j)
BY DEF JobOk, WithHost, Verifying

LEMMA Moving ==
  ASSUME TypeInv, NEW w \in Workers, NEW label, NEW j, Moves(w, label, j), DataOk', Grows
  PROVE  TypeInv'
<1>1. pc' \in [Workers -> Labels] /\ job' \in [Workers -> Job]
  BY TypeInvParts DEF Moves
<1>2. ASSUME NEW v \in Workers PROVE JobOk(domain', pc'[v], job'[v])
  <2>1. CASE v = w
    BY <2>1, TypeInvParts DEF Moves
  <2>2. CASE v # w
    <3>1. JobOk(domain, pc[v], job[v])
      BY DEF TypeInv, Jobs
    <3>2. JobOk(domain', pc[v], job[v])
      BY <3>1, Growing DEF Grows
    <3>. QED
      BY <2>2, <3>2, TypeInvParts DEF Moves
  <2>. QED
    BY <2>1, <2>2
<1>3. Jobs'
  BY <1>2 DEF Jobs
<1>. QED
  BY <1>1, <1>3, TypeInvParts DEF TypeInv, DataOk, DomainOk, PromptsOk, OthersOk, TypeOK, RowsOk,
     Labels, WithHost, Verifying, Saving, Checks

LEMMA Resting ==
  ASSUME TypeInv, UNCHANGED <<pc, job>>, DataOk', Grows
  PROVE  TypeInv'
<1>1. ASSUME NEW v \in Workers PROVE JobOk(domain', pc'[v], job'[v])
  BY Growing DEF TypeInv, Jobs, Grows
<1>2. Jobs'
  BY <1>1 DEF Jobs
<1>. QED
  BY <1>2, TypeInvParts DEF TypeInv, DataOk, DomainOk, PromptsOk, OthersOk, TypeOK, RowsOk,
     Labels, WithHost, Verifying, Saving, Checks

LEMMA JobOf ==
  ASSUME TypeInv, NEW w \in Workers
  PROVE  /\ pc[w] \in Labels /\ job[w] \in Job /\ JobOk(domain, pc[w], job[w])
         /\ job \in [Workers -> Job] /\ pc \in [Workers -> Labels]
BY TypeInvParts DEF TypeInv, Jobs

LEMMA NoJobOk == NoJob \in Job /\ \A dom : JobOk(dom, "idle", NoJob)
BY DEF NoJob, Job, JobOk, WithHost, Saving, Verifying

Given(h, n) == [NoJob EXCEPT !.host = h, !.target = n]

LEMMA GivenIsJob ==
  ASSUME NEW h \in Hosts, NEW n \in 0 .. 5
  PROVE  Given(h, n) \in Job /\ Given(h, n).host = h
<1>1. Given(h, n) \in Job
  BY NoJobOk DEF Job, Given
<1>2. Given(h, n).host = h
  BY NoJobOk DEF Job, Given
<1>. QED
  BY <1>1, <1>2

LEMMA Returning ==
  ASSUME NEW w \in Workers, Return(w)
  PROVE  Moves(w, "idle", NoJob)
BY NoJobOk DEF Return, Goto, Moves, Labels

LEMMA Going ==
  ASSUME TypeInv, NEW w \in Workers, NEW label \in Labels, Goto(w, label), UNCHANGED job,
         JobOk(domain', label, job[w])
  PROVE  Moves(w, label, job[w])
BY JobOf DEF Goto, Moves

LEMMA FaultTypes ==
  ASSUME NEW kind, TypeInv, UNCHANGED faults \/ Fault(kind)
  PROVE  faults' \in 0 .. MaxFaults
BY BoundsAssumption DEF Fault, TypeInv, TypeOK

LEMMA Unchanging ==
  ASSUME TypeInv, UNCHANGED domain
  PROVE  DomainOk(domain)' /\ Grows
BY TypeInvParts DEF DataOk, DomainOk, RowsOk, Existing, Has, Grows

LEMMA KeepingPrompts ==
  ASSUME TypeInv, UNCHANGED <<prompts, configs>>
  PROVE  PromptsOk'
BY TypeInvParts DEF DataOk, PromptsOk

(* A request begins.                                                        *)
LEMMA Beginning ==
  ASSUME TypeInv, NEW w \in Workers, NEW label \in Labels, NEW data \in Job,
         Begin(w, label, data), JobOk(domain, label, data),
         UNCHANGED <<rows, environment, faults, furthest, found, lookups>>,
         saved' \in [Hosts -> SUBSET Texts]
  PROVE  TypeInv'
<1>1. requests' \in 0 .. MaxRequests /\ requests' \in Nat /\ overlapped' \in BOOLEAN
  BY BoundsAssumption DEF Begin, Request, TypeInv, TypeOK
<1>. DEFINE j == [data EXCEPT !.id = requests']
<1>2. j \in Job /\ j.host = data.host /\ j.target = data.target /\ j.text = data.text
      /\ j.token = data.token
  BY <1>1 DEF Job
<1>3. JobOk(domain', label, j)
  BY <1>2 DEF JobOk, rows
<1>4. Moves(w, label, j)
  BY <1>2, <1>3 DEF Begin, Goto, Moves
<1>5. DataOk'
  BY <1>1, TypeInvParts, Unchanging, KeepingPrompts DEF DataOk, OthersOk, rows, environment
<1>. QED
  BY <1>4, <1>5, Unchanging, Moving DEF rows

(* The row of a domain changes its verdict or its token.                    *)
LEMMA Updating ==
  ASSUME TypeInv, NEW h \in Hosts, Exists(h), NEW r \in Domain,
         r.status # "none", r.token > 0, r.since = domain[h].since,
         domain' = [domain EXCEPT ![h] = r]
  PROVE  DomainOk(domain)' /\ Grows
<1>1. domain \in [Hosts -> Domain] /\ RowsOk(domain)
  BY TypeInvParts DEF DataOk, DomainOk
<1>2. domain' \in [Hosts -> Domain]
  BY <1>1
<1>3. \A g \in Hosts : Has(domain', g) <=> Has(domain, g)
  BY <1>1 DEF Has, Exists
<1>4. Existing(domain') = Existing(domain)
  BY <1>3 DEF Existing
<1>5. \A g \in Hosts : domain'[g].since = domain[g].since /\ (g # h => domain'[g] = domain[g])
  BY <1>1
<1>6. RowsOk(domain')
  BY <1>1, <1>3, <1>4, <1>5 DEF RowsOk, Has, NoDomain, Exists
<1>. QED
  BY <1>2, <1>3, <1>6 DEF DomainOk, Grows

(* A domain is added after those there are.                                 *)
LEMMA Adding ==
  ASSUME TypeInv, NEW h \in Hosts, ~Exists(h), NEW t \in Nat, t > 0,
         domain' = [domain EXCEPT ![h] =
           [status |-> "pending", token |-> t,
            since |-> Cardinality({g \in Hosts : Exists(g)}) + 1]]
  PROVE  DomainOk(domain)' /\ Grows
<1>. DEFINE E == Existing(domain)
<1>1. domain \in [Hosts -> Domain] /\ RowsOk(domain)
  BY TypeInvParts DEF DataOk, DomainOk
<1>2. IsFiniteSet(E) /\ h \notin E
  BY HostsAssumption, FS_Subset DEF Existing, Has, Exists
<1>3. Cardinality(E) \in Nat /\ Cardinality(E \cup {h}) = Cardinality(E) + 1
  BY <1>2, FS_CardinalityType, FS_AddElement
<1>4. {g \in Hosts : Exists(g)} = E
  BY DEF Existing, Has, Exists
<1>. DEFINE r == [status |-> "pending", token |-> t, since |-> Cardinality(E) + 1]
<1>5. r \in Domain /\ r.since = Cardinality(E) + 1 /\ r.status = "pending" /\ r.token = t
  BY <1>3 DEF Domain
<1>6. domain' = [domain EXCEPT ![h] = r]
  BY <1>4
<1>. HIDE DEF r
<1>7. /\ domain' \in [Hosts -> Domain] /\ domain'[h] = r
      /\ \A g \in Hosts \ {h} : domain'[g] = domain[g]
  BY <1>1, <1>5, <1>6
<1>8. \A g \in Hosts : Has(domain', g) <=> g \in E \cup {h}
  BY <1>5, <1>7 DEF Has, Existing
<1>9. Existing(domain') = E \cup {h}
  BY <1>8 DEF Existing
<1>. HIDE DEF E
<1>10. \A g \in Hosts : Has(domain, g) <=> g \in E
  BY DEF E, Existing
<1>11. \A g \in E : domain[g].since \in 1 .. Cardinality(E) /\ domain[g].token > 0
  BY <1>1, <1>10 DEF RowsOk, E, Existing
<1>12. \A g \in Hosts \ E : domain[g] = NoDomain /\ domain[g].since = 0
  BY <1>1, <1>10 DEF RowsOk, NoDomain
<1>13. \A g \in Hosts : ~Has(domain', g) => domain'[g] = NoDomain
  BY <1>7, <1>8, <1>12
<1>14. \A g \in Hosts : Has(domain', g) =>
        domain'[g].token > 0 /\ domain'[g].since \in 1 .. Cardinality(Existing(domain'))
  <2>. SUFFICES ASSUME NEW g \in Hosts, Has(domain', g)
                PROVE  domain'[g].token > 0 /\ domain'[g].since \in 1 .. Cardinality(E) + 1
    BY <1>3, <1>9
  <2>1. CASE g = h
    BY <1>3, <1>5, <1>7, <2>1
  <2>2. CASE g # h
    <3>1. g \in E /\ domain'[g] = domain[g]
      BY <1>7, <1>8, <2>2
    <3>2. domain[g].since \in 1 .. Cardinality(E) /\ domain[g].token > 0
      BY <1>11, <3>1
    <3>. QED
      BY <1>3, <3>1, <3>2
  <2>. QED
    BY <2>1, <2>2
<1>15. \A g, k \in Hosts : domain'[g].since = domain'[k].since /\ g # k => domain'[g] = NoDomain
  <2>. SUFFICES ASSUME NEW g \in Hosts, NEW k \in Hosts,
                       domain'[g].since = domain'[k].since, g # k
                PROVE  domain'[g] = NoDomain
    OBVIOUS
  <2>1. \A x \in Hosts \ {h} : domain'[x].since \in 0 .. Cardinality(E)
    BY <1>3, <1>7, <1>11, <1>12
  <2>2. g # h /\ k # h
    BY <1>3, <1>5, <1>7, <2>1
  <2>. QED
    BY <1>1, <1>7, <2>2 DEF RowsOk
<1>. QED
  BY <1>7, <1>8, <1>10, <1>13, <1>14, <1>15 DEF DomainOk, RowsOk, Grows

-----------------------------------------------------------------------------
(* Types                                                                    *)

LEMMA KeepingOthers ==
  ASSUME TypeInv, UNCHANGED <<branded, step, completed, attempts, environment, requests,
                              furthest, found, lookups, saved, overlapped>>,
         faults' \in 0 .. MaxFaults
  PROVE  OthersOk'
BY TypeInvParts DEF DataOk, OthersOk, environment

LEMMA ReachTypes ==
  ASSUME TypeInv, NEW s \in 1 .. 5, Reach(s)
  PROVE  step' \in 1 .. 5 /\ furthest' \in step' .. 5
BY DEF Reach, TypeInv, TypeOK

LEMMA GuideTypes ==
  ASSUME TypeInv, NEW w \in Workers,
         (\E target \in 1 .. 5 : GoToStep(w, target)) \/ ReadStep(w) \/ Advance(w)
  PROVE  TypeInv'
<1>1. ASSUME NEW target \in 1 .. 5, GoToStep(w, target) PROVE TypeInv'
  <2>. DEFINE data == [NoJob EXCEPT !.target = target]
  <2>1. data \in Job /\ data.target = target /\ "step" \in Labels
    BY NoJobOk DEF Job, Labels
  <2>2. JobOk(domain, "step", data)
    BY <2>1 DEF JobOk, WithHost, Saving, Verifying
  <2>. QED
    BY <1>1, <2>1, <2>2, Beginning, TypeInvParts DEF GoToStep, DataOk, OthersOk
<1>2. CASE ReadStep(w)
  <2>1. DataOk' /\ Grows
    BY <1>2, Unchanging, KeepingPrompts, KeepingOthers, FaultTypes
       DEF ReadStep, DataOk, rows, history
  <2>2. CASE Goto(w, "advance") /\ UNCHANGED job
    <3>1. JobOk(domain', "advance", job[w])
      BY <1>2, JobOf DEF ReadStep, JobOk, WithHost, Saving, Verifying
    <3>. QED
      BY <2>1, <2>2, <3>1, Going, Moving DEF Labels
  <2>3. CASE Return(w)
    BY <2>1, <2>3, Returning, Moving
  <2>. QED
    BY <1>2, <2>2, <2>3 DEF ReadStep
<1>3. CASE Advance(w)
  <2>1. job[w].target \in 1 .. 5
    BY <1>3, JobOf DEF Advance, JobOk
  <2>2. step' \in 1 .. 5 /\ furthest' \in step' .. 5
    BY <1>3, <2>1, ReachTypes DEF Advance, TypeInv, TypeOK
  <2>3. faults' \in 0 .. MaxFaults
    BY <1>3, FaultTypes DEF Advance
  <2>4. DataOk' /\ Grows
    BY <1>3, <2>2, <2>3, Unchanging, KeepingPrompts, TypeInvParts
       DEF Advance, DataOk, OthersOk, environment
  <2>. QED
    BY <1>3, <2>4, Returning, Moving DEF Advance
<1>. QED
  BY <1>1, <1>2, <1>3

LEMMA Proceeding ==
  ASSUME TypeInv, NEW w \in Workers, Proceed(w), DataOk', Grows
  PROVE  TypeInv'
<1>1. CASE job[w].target > 0 /\ Goto(w, "step") /\ UNCHANGED job
  <2>1. JobOk(domain', "step", job[w])
    BY <1>1, JobOf DEF JobOk, WithHost, Saving, Verifying, Job
  <2>. QED
    BY <1>1, <2>1, Going, Moving DEF Labels
<1>2. CASE Return(w)
  BY <1>2, Returning, Moving
<1>. QED
  BY <1>1, <1>2 DEF Proceed

LEMMA DomainTypes ==
  ASSUME TypeInv, NEW w \in Workers,
         \/ \E h \in Hosts : SaveDomain(w, h) \/ AddDomain(w, h)
         \/ FindDomain(w) \/ CountDomains(w) \/ WriteDomain(w) \/ FindBrand(w) \/ InsertBrand(w)
  PROVE  TypeInv'
<1>1. ASSUME NEW data \in Job, data.host \in Hosts, Begin(w, "domain", data),
             UNCHANGED <<rows, environment, faults, furthest, found, lookups, saved>>
      PROVE  TypeInv'
  <2>1. JobOk(domain, "domain", data) /\ "domain" \in Labels
    BY <1>1 DEF JobOk, WithHost, Saving, Verifying, Labels
  <2>. QED
    BY <1>1, <2>1, Beginning, TypeInvParts DEF DataOk, OthersOk
<1>2. ASSUME NEW h \in Hosts, SaveDomain(w, h) PROVE TypeInv'
  <2>1. Given(h, 3) \in Job /\ Given(h, 3).host = h
    BY GivenIsJob
  <2>2. Begin(w, "domain", Given(h, 3))
    BY <1>2 DEF SaveDomain, Given
  <2>. QED
    BY <1>1, <1>2, <2>1, <2>2 DEF SaveDomain
<1>3. ASSUME NEW h \in Hosts, AddDomain(w, h) PROVE TypeInv'
  <2>. DEFINE data == [NoJob EXCEPT !.host = h]
  <2>1. data \in Job /\ data.host = h
    BY NoJobOk DEF Job
  <2>. QED
    BY <1>1, <1>3, <2>1 DEF AddDomain
<1>4. CASE FindDomain(w)
  <2>. DEFINE j == [job[w] EXCEPT !.token = domain[job[w].host].token]
  <2>1. DataOk' /\ Grows
    BY <1>4, Unchanging, KeepingPrompts, KeepingOthers, FaultTypes
       DEF FindDomain, DataOk, rows, history
  <2>2. job[w] \in Job /\ job[w].host \in Hosts /\ domain' = domain
    BY <1>4, JobOf DEF FindDomain, JobOk, WithHost, rows
  <2>3. domain[job[w].host] \in Domain /\ RowsOk(domain)
    BY <2>2, TypeInvParts DEF DataOk, DomainOk
  <2>4. j \in Job /\ j.host = job[w].host /\ j.token = domain[job[w].host].token
    BY <2>2, <2>3 DEF Job, Domain
  <2>5. j.token > 0 => Has(domain, j.host)
    BY <2>2, <2>3, <2>4 DEF RowsOk, NoDomain
  <2>6. JobOk(domain', "room", j)
    BY <2>2, <2>4, <2>5 DEF JobOk, WithHost, Saving, Verifying
  <2>7. Moves(w, "room", j)
    BY <1>4, <2>4, <2>6, JobOf DEF FindDomain, Moves, Goto, Labels, WithHost
  <2>. QED
    BY <2>1, <2>7, Moving
<1>10. CASE CountDomains(w)
  <2>1. DataOk' /\ Grows /\ domain' = domain
    BY <1>10, Unchanging, KeepingPrompts, KeepingOthers, FaultTypes
       DEF CountDomains, DataOk, rows, history
  <2>2. CASE Goto(w, "insert") /\ UNCHANGED job
    <3>1. JobOk(domain', "insert", job[w]) /\ job[w] \in Job
      BY <1>10, <2>1, JobOf DEF CountDomains, JobOk, WithHost, Saving, Verifying
    <3>2. Moves(w, "insert", job[w])
      BY <2>2, <3>1, JobOf DEF Moves, Goto, Labels, WithHost
    <3>. QED
      BY <2>1, <3>2, Moving
  <2>3. CASE Return(w)
    BY <2>1, <2>3, Returning, Moving
  <2>. QED
    BY <1>10, <2>2, <2>3 DEF CountDomains
<1>5. CASE WriteDomain(w)
  <2>. DEFINE h == job[w].host
  <2>1. h \in Hosts /\ job[w] \in Job /\ (job[w].token > 0 => Exists(h))
    BY <1>5, JobOf DEF WriteDomain, JobOk, WithHost, Has, Exists
  <2>2. tokens \in Nat /\ domain \in [Hosts -> Domain]
    BY DEF TypeInv, TypeOK
  <2>3. DomainOk(domain)' /\ Grows /\ tokens' \in Nat
    <3>1. CASE job[w].token > 0 /\ domain' = [domain EXCEPT ![h].token = job[w].token] /\ UNCHANGED tokens
      <4>. DEFINE r == [domain[h] EXCEPT !.token = job[w].token]
      <4>1. r \in Domain /\ r.status = domain[h].status /\ r.since = domain[h].since
            /\ r.token = job[w].token
        BY <2>1, <2>2 DEF Domain, Job
      <4>2. domain' = [domain EXCEPT ![h] = r]
        BY <2>2, <3>1
      <4>. HIDE DEF r
      <4>. QED
        BY <2>1, <2>2, <3>1, <4>1, <4>2, Updating DEF Exists
    <3>2. CASE UNCHANGED <<domain, tokens>>
      BY <2>2, <3>2, Unchanging
    <3>3. CASE /\ ~Exists(h) /\ tokens' = tokens + 1
               /\ domain' = [domain EXCEPT ![h] =
                    [status |-> "pending", token |-> tokens',
                     since |-> Cardinality({g \in Hosts : Exists(g)}) + 1]]
      <4>1. tokens' \in Nat /\ tokens' > 0
        BY <2>2, <3>3
      <4>. QED
        BY <2>1, <3>3, <4>1, Adding
    <3>. QED
      BY <1>5, <3>1, <3>2, <3>3 DEF WriteDomain
  <2>4. faults' \in 0 .. MaxFaults
    BY <1>5, FaultTypes DEF WriteDomain
  <2>5. DataOk'
    BY <1>5, <2>3, <2>4, KeepingPrompts, TypeInvParts DEF WriteDomain, DataOk, OthersOk, history
  <2>6. CASE Goto(w, "brand") /\ UNCHANGED job
    <3>1. JobOk(domain', "brand", job[w]) /\ "brand" \in Labels
      BY DEF JobOk, WithHost, Saving, Verifying, Labels
    <3>. QED
      BY <2>3, <2>5, <2>6, <3>1, Going, Moving
  <2>7. CASE Return(w)
    BY <2>3, <2>5, <2>7, Returning, Moving
  <2>. QED
    BY <1>5, <2>6, <2>7 DEF WriteDomain
<1>6. CASE FindBrand(w)
  <2>1. DataOk' /\ Grows
    BY <1>6, Unchanging, KeepingPrompts, KeepingOthers, FaultTypes
       DEF FindBrand, DataOk, rows, history
  <2>2. CASE Goto(w, "name") /\ UNCHANGED job
    <3>1. JobOk(domain', "name", job[w]) /\ "name" \in Labels
      BY DEF JobOk, WithHost, Saving, Verifying, Labels
    <3>. QED
      BY <2>1, <2>2, <3>1, Going, Moving
  <2>. QED
    BY <1>6, <2>1, <2>2, Proceeding DEF FindBrand
<1>7. CASE InsertBrand(w)
  <2>1. faults' \in 0 .. MaxFaults /\ branded' \in BOOLEAN
    BY <1>7, FaultTypes, TypeInvParts DEF InsertBrand, DataOk, OthersOk
  <2>2. DataOk' /\ Grows
    BY <1>7, <2>1, Unchanging, KeepingPrompts, TypeInvParts
       DEF InsertBrand, DataOk, OthersOk, history, environment
  <2>. QED
    BY <1>7, <2>2, Proceeding, Returning, Moving DEF InsertBrand
<1>. QED
  BY <1>2, <1>3, <1>4, <1>10, <1>5, <1>6, <1>7

LEMMA VerifyTypes ==
  ASSUME TypeInv, NEW w \in Workers,
         \/ \E h \in Hosts : Verify(w, h)
         \/ ReadToken(w) \/ CheckLimit(w) \/ LookUp(w) \/ RecordAttempt(w) \/ WriteVerdict(w)
  PROVE  TypeInv'
<1>1. ASSUME NEW h \in Hosts, NEW data \in Job, data.host = h, Exists(h), Begin(w, "token", data),
             UNCHANGED <<rows, environment, faults, furthest, found, lookups, saved>>
      PROVE  TypeInv'
  <2>1. JobOk(domain, "token", data) /\ "token" \in Labels
    BY <1>1 DEF JobOk, WithHost, Saving, Verifying, Labels, Exists, Has
  <2>. QED
    BY <1>1, <2>1, Beginning, TypeInvParts DEF DataOk, OthersOk
<1>2. ASSUME NEW h \in Hosts, Verify(w, h) PROVE TypeInv'
  <2>1. [NoJob EXCEPT !.host = h] \in Job /\ [NoJob EXCEPT !.host = h].host = h
    BY NoJobOk DEF Job
  <2>2. Given(h, 4) \in Job /\ Given(h, 4).host = h
    BY GivenIsJob
  <2>3. IsSetup(h) => Exists(h)
    BY DEF IsSetup, Enabled, Exists
  <2>. QED
    BY <1>1, <1>2, <2>1, <2>2, <2>3 DEF Verify, Given
<1>3. CASE ReadToken(w)
  <2>. DEFINE j == [job[w] EXCEPT !.token = domain[job[w].host].token]
  <2>1. job[w] \in Job /\ job[w].host \in Hosts /\ Has(domain, job[w].host) /\ domain' = domain
    BY <1>3, JobOf DEF ReadToken, JobOk, WithHost, rows
  <2>2. domain[job[w].host] \in Domain /\ domain[job[w].host].token > 0
    BY <2>1, TypeInvParts DEF DataOk, DomainOk, RowsOk
  <2>3. j \in Job /\ j.host = job[w].host /\ j.token > 0
    BY <2>1, <2>2 DEF Job, Domain
  <2>4. JobOk(domain', "limit", j)
    BY <2>1, <2>3 DEF JobOk, WithHost, Saving, Verifying
  <2>5. Moves(w, "limit", j)
    BY <1>3, <2>3, <2>4, JobOf DEF ReadToken, Moves, Goto, Labels, WithHost, Verifying
  <2>6. DataOk' /\ Grows
    BY <1>3, Unchanging, KeepingPrompts, KeepingOthers, FaultTypes
       DEF ReadToken, DataOk, rows, history
  <2>. QED
    BY <2>5, <2>6, Moving
<1>4. ASSUME NEW h \in Hosts, Counted(h) PROVE attempts' \in [Hosts -> 0 .. MaxAttempts]
  <2>1. attempts \in [Hosts -> 0 .. MaxAttempts] /\ MaxAttempts \in Nat
    BY BoundsAssumption, TypeInvParts DEF DataOk, OthersOk
  <2>. QED
    BY <1>4, <2>1 DEF Counted
<1>5. ASSUME NEW before \in Verifying, NEW label \in Verifying, NEW j \in Job, pc[w] = before,
             j.host = job[w].host, j.token = job[w].token, Grows
      PROVE  JobOk(domain', label, j) /\ job[w].host \in Hosts /\ label \in Labels
             /\ Exists(job[w].host)
  BY <1>5, JobOf DEF JobOk, Verifying, Saving, WithHost, Grows, Has, Labels, Exists
<1>6. CASE CheckLimit(w)
  <2>1. Grows /\ DomainOk(domain)' /\ PromptsOk'
    BY <1>6, Unchanging, KeepingPrompts DEF CheckLimit
  <2>2. JobOk(domain', "lookup", job[w]) /\ job[w].host \in Hosts /\ "lookup" \in Labels
    BY <1>5, <1>6, <2>1, JobOf DEF CheckLimit, Verifying
  <2>3. attempts' \in [Hosts -> 0 .. MaxAttempts]
    BY <1>4, <1>6, <2>2, TypeInvParts DEF CheckLimit, DataOk, OthersOk
  <2>4. faults' \in 0 .. MaxFaults
    BY <1>6, FaultTypes DEF CheckLimit
  <2>5. DataOk'
    BY <1>6, <2>1, <2>3, <2>4, TypeInvParts DEF CheckLimit, DataOk, OthersOk, environment, history
  <2>6. CASE Goto(w, "lookup") /\ UNCHANGED job
    BY <2>1, <2>2, <2>5, <2>6, Going, Moving
  <2>7. CASE Return(w)
    BY <2>1, <2>5, <2>7, Returning, Moving
  <2>. QED
    BY <1>6, <2>6, <2>7 DEF CheckLimit
<1>7. CASE LookUp(w)
  <2>1. Grows /\ DomainOk(domain)' /\ PromptsOk'
    BY <1>7, Unchanging, KeepingPrompts DEF LookUp, rows
  <2>2. PICK match \in BOOLEAN :
          /\ job' = [job EXCEPT ![w].match = match]
          /\ found' = IF match THEN [found EXCEPT ![job[w].host] = job[w].token] ELSE found
    BY <1>7 DEF LookUp
  <2>. DEFINE j == [job[w] EXCEPT !.match = match]
  <2>3. job[w] \in Job /\ job \in [Workers -> Job]
    BY JobOf
  <2>4. j \in Job /\ j.host = job[w].host /\ j.token = job[w].token /\ job[w].token \in Nat
    BY <2>3 DEF Job
  <2>5. job' = [job EXCEPT ![w] = j]
    BY <2>2, <2>3
  <2>. HIDE DEF j
  <2>6. JobOk(domain', "record", j) /\ job[w].host \in Hosts /\ "record" \in Labels
    BY <1>5, <1>7, <2>1, <2>4 DEF LookUp, Verifying
  <2>7. Moves(w, "record", j)
    BY <1>7, <2>4, <2>5, <2>6 DEF LookUp, Moves, Goto
  <2>8. found' \in [Hosts -> Nat] /\ lookups' \in [Hosts -> Nat]
    <3>1. found \in [Hosts -> Nat] /\ lookups \in [Hosts -> Nat]
      BY TypeInvParts DEF DataOk, OthersOk
    <3>2. found' = found \/ found' = [found EXCEPT ![job[w].host] = job[w].token]
      BY <2>2
    <3>3. lookups' = [lookups EXCEPT ![job[w].host] = @ + 1]
      BY <1>7 DEF LookUp
    <3>. QED
      BY <2>4, <2>6, <3>1, <3>2, <3>3
  <2>9. DataOk'
    BY <1>7, <2>1, <2>8, TypeInvParts DEF LookUp, DataOk, OthersOk, rows, environment
  <2>. QED
    BY <2>1, <2>7, <2>9, Moving
<1>8. CASE RecordAttempt(w)
  <2>1. Grows /\ DomainOk(domain)' /\ PromptsOk'
    BY <1>8, Unchanging, KeepingPrompts DEF RecordAttempt
  <2>2. JobOk(domain', "verdict", job[w]) /\ job[w].host \in Hosts /\ "verdict" \in Labels
    BY <1>5, <1>8, <2>1, JobOf DEF RecordAttempt, Verifying
  <2>3. attempts' \in [Hosts -> 0 .. MaxAttempts]
    BY <1>4, <1>8, <2>2, TypeInvParts DEF RecordAttempt, DataOk, OthersOk
  <2>4. faults' \in 0 .. MaxFaults
    BY <1>8, FaultTypes DEF RecordAttempt
  <2>5. DataOk'
    BY <1>8, <2>1, <2>3, <2>4, TypeInvParts
       DEF RecordAttempt, DataOk, OthersOk, environment, history
  <2>6. Moves(w, "verdict", job[w])
    BY <1>8, <2>1, <2>2, Going DEF RecordAttempt
  <2>. QED
    BY <2>1, <2>5, <2>6, Moving
<1>9. CASE WriteVerdict(w)
  <2>. DEFINE h == job[w].host
              verdict == IF job[w].match THEN "verified" ELSE "failed"
              r == [domain[h] EXCEPT !.status = verdict]
  <2>1. h \in Hosts /\ Has(domain, h)
    BY <1>9, JobOf DEF WriteVerdict, JobOk, WithHost, Verifying
  <2>2. domain \in [Hosts -> Domain] /\ domain[h].token > 0
    BY <2>1, TypeInvParts DEF DataOk, DomainOk, RowsOk
  <2>3. r \in Domain /\ r.status # "none" /\ r.token > 0 /\ r.since = domain[h].since
    BY <2>1, <2>2 DEF Domain
  <2>4. domain' = domain \/ domain' = [domain EXCEPT ![h] = r]
    BY <1>9, <2>2 DEF WriteVerdict
  <2>. HIDE DEF r
  <2>5. Grows /\ DomainOk(domain)'
    BY <2>1, <2>3, <2>4, Updating, Unchanging DEF Has, Exists
  <2>6. DataOk'
    BY <1>9, <2>5, FaultTypes, KeepingPrompts, TypeInvParts
       DEF WriteVerdict, DataOk, OthersOk, environment, history
  <2>. QED
    BY <1>9, <2>5, <2>6, Proceeding, Returning, Moving DEF WriteVerdict
<1>. QED
  BY <1>2, <1>3, <1>6, <1>7, <1>8, <1>9

LEMMA PromptTypes ==
  ASSUME TypeInv, NEW w \in Workers,
         \/ \E h \in Hosts, texts \in (SUBSET Texts) \ {{}} : SavePrompts(w, h, texts)
         \/ ReadOld(w) \/ DeleteConfigs(w) \/ DeletePrompts(w)
         \/ \E text \in Texts : InsertPrompt(w, text)
         \/ InsertConfigs(w) \/ PromptsSaved(w)
  PROVE  TypeInv'
<1>1. ASSUME NEW h \in Hosts, NEW texts \in SUBSET Texts, SavePrompts(w, h, texts) PROVE TypeInv'
  <2>. DEFINE data == [NoJob EXCEPT !.host = h, !.target = 5, !.todo = texts]
  <2>1. data \in Job
    <3>1. data = [Given(h, 5) EXCEPT !.todo = texts]
      BY DEF Given
    <3>2. Given(h, 5) \in Job
      BY GivenIsJob
    <3>. QED
      BY <3>1, <3>2 DEF Job
  <2>2. data.host = h
    BY NoJobOk DEF Job
  <2>3. data.target = 5
    BY NoJobOk DEF Job
  <2>4. Begin(w, "old", data)
    BY <1>1 DEF SavePrompts
  <2>. HIDE DEF data
  <2>5. JobOk(domain, "old", data) /\ "old" \in Labels
    BY <2>2, <2>3 DEF JobOk, WithHost, Saving, Verifying, Labels
  <2>6. saved' \in [Hosts -> SUBSET Texts]
    BY <1>1, TypeInvParts DEF SavePrompts, DataOk, OthersOk
  <2>. QED
    BY <1>1, <2>1, <2>4, <2>5, <2>6, Beginning DEF SavePrompts
<1>2. ASSUME NEW label \in Saving, NEW j \in Job, pc[w] \in Saving, UNCHANGED domain,
             j.host = job[w].host, j.target = job[w].target, label = "config" => j.text \in Texts
      PROVE  JobOk(domain', label, j) /\ label \in Labels /\ job[w].host \in Hosts
  BY <1>2, JobOf DEF JobOk, Saving, WithHost, Verifying, Labels
<1>3. CASE ReadOld(w)
  <2>. DEFINE old == {p \in prompts : p.host = job[w].host}
              j == [job[w] EXCEPT !.old = old]
              label == IF old = {} THEN "prompt" ELSE "unconfigure"
  <2>1. job[w] \in Job /\ job \in [Workers -> Job] /\ old \subseteq Prompt
    BY JobOf, TypeInvParts DEF DataOk, PromptsOk
  <2>2. j \in Job /\ j.host = job[w].host /\ j.target = job[w].target
    BY <2>1 DEF Job
  <2>3. label \in Saving /\ label # "config"
    BY DEF Saving
  <2>4. pc' = [pc EXCEPT ![w] = label] /\ job' = [job EXCEPT ![w] = j] /\ domain' = domain
        /\ pc[w] \in Saving
    BY <1>3, <2>1 DEF ReadOld, Goto, rows, Saving
  <2>. HIDE DEF j, label
  <2>5. Moves(w, label, j)
    BY <1>2, <2>2, <2>3, <2>4 DEF Moves
  <2>6. DataOk' /\ Grows
    BY <1>3, Unchanging, KeepingPrompts, KeepingOthers, FaultTypes
       DEF ReadOld, DataOk, rows, history
  <2>. QED
    BY <2>5, <2>6, Moving
<1>4. CASE DeleteConfigs(w)
  <2>1. PromptsOk'
    BY <1>4, TypeInvParts DEF DeleteConfigs, DataOk, PromptsOk
  <2>2. DataOk' /\ Grows
    BY <1>4, <2>1, Unchanging, KeepingOthers, FaultTypes DEF DeleteConfigs, DataOk, history
  <2>3. JobOk(domain', "unprompt", job[w]) /\ "unprompt" \in Labels
    BY <1>2, <1>4, JobOf DEF DeleteConfigs, Saving
  <2>. QED
    BY <1>4, <2>2, <2>3, Going, Moving DEF DeleteConfigs
<1>5. CASE DeletePrompts(w)
  <2>1. PromptsOk'
    BY <1>5, TypeInvParts DEF DeletePrompts, DataOk, PromptsOk
  <2>2. DataOk' /\ Grows
    BY <1>5, <2>1, Unchanging, KeepingOthers, FaultTypes DEF DeletePrompts, DataOk, history
  <2>3. JobOk(domain', "prompt", job[w]) /\ "prompt" \in Labels
    BY <1>2, <1>5, JobOf DEF DeletePrompts, Saving
  <2>. QED
    BY <1>5, <2>2, <2>3, Going, Moving DEF DeletePrompts
<1>6. ASSUME NEW text \in Texts, InsertPrompt(w, text) PROVE TypeInv'
  <2>. DEFINE j == [job[w] EXCEPT !.todo = @ \ {text}, !.text = text]
  <2>1. job[w] \in Job /\ job \in [Workers -> Job] /\ job[w].host \in Hosts
    BY <1>2, <1>6, JobOf DEF InsertPrompt, Saving
  <2>2. Row(w, text) \in Prompt /\ Row(w, text).host = job[w].host /\ Row(w, text).text = text
    BY <2>1 DEF Row, Prompt, Job
  <2>3. PromptsOk'
    BY <1>6, <2>2, TypeInvParts DEF InsertPrompt, IsTaken, DataOk, PromptsOk
  <2>4. DataOk' /\ Grows
    BY <1>6, <2>3, Unchanging, KeepingOthers, FaultTypes DEF InsertPrompt, DataOk, history
  <2>5. j \in Job /\ j.host = job[w].host /\ j.target = job[w].target /\ j.text = text
    BY <2>1 DEF Job
  <2>6. CASE Goto(w, "config") /\ job' = [job EXCEPT ![w].todo = @ \ {text}, ![w].text = text]
    <3>1. job' = [job EXCEPT ![w] = j]
      BY <2>1, <2>6
    <3>. HIDE DEF j
    <3>2. Moves(w, "config", j)
      BY <1>2, <1>6, <2>5, <2>6, <3>1 DEF InsertPrompt, Moves, Goto, Saving
    <3>. QED
      BY <2>4, <3>2, Moving
  <2>7. CASE Return(w)
    BY <2>4, <2>7, Returning, Moving
  <2>. QED
    BY <1>6, <2>6, <2>7 DEF InsertPrompt
<1>7. CASE InsertConfigs(w)
  <2>1. PromptsOk'
    BY <1>7, TypeInvParts DEF InsertConfigs, DataOk, PromptsOk
  <2>2. DataOk' /\ Grows
    BY <1>7, <2>1, Unchanging, KeepingOthers, FaultTypes DEF InsertConfigs, DataOk, history
  <2>3. JobOk(domain', "prompt", job[w]) /\ "prompt" \in Labels
    BY <1>2, <1>7, JobOf DEF InsertConfigs, Saving
  <2>. QED
    BY <1>7, <2>2, <2>3, Going, Returning, Moving DEF InsertConfigs
<1>8. CASE PromptsSaved(w)
  <2>1. DataOk' /\ Grows
    BY <1>8, Unchanging, KeepingPrompts, KeepingOthers, FaultTypes
       DEF PromptsSaved, DataOk, rows, history
  <2>2. JobOk(domain', "step", job[w]) /\ "step" \in Labels
    BY <1>8, JobOf DEF PromptsSaved, JobOk, Saving, WithHost, Verifying, Labels
  <2>. QED
    BY <1>8, <2>1, <2>2, Going, Moving DEF PromptsSaved
<1>. QED
  BY <1>1, <1>3, <1>4, <1>5, <1>6, <1>7, <1>8

LEMMA FinishTypes ==
  ASSUME TypeInv, NEW w \in Workers,
         \/ \E h \in Hosts : Finish(w, h)
         \/ Evaluate(w) \/ CompleteOnboarding(w) \/ Crash(w)
  PROVE  TypeInv'
<1>1. ASSUME NEW h \in Hosts, Finish(w, h) PROVE TypeInv'
  <2>1. JobOk(domain, "verified", NoJob) /\ "verified" \in Labels
    BY DEF JobOk, WithHost, Saving, Verifying, Labels, Checks
  <2>. QED
    BY <1>1, <2>1, NoJobOk, Beginning, TypeInvParts DEF Finish, DataOk, OthersOk
<1>2. CASE Evaluate(w)
  <2>1. DataOk' /\ Grows
    BY <1>2, Unchanging, KeepingPrompts, KeepingOthers, FaultTypes
       DEF Evaluate, DataOk, rows, history
  <2>2. ASSUME NEW label \in {"branded", "prompted", "configured", "complete"}
        PROVE  JobOk(domain', label, job[w]) /\ label \in Labels
    BY DEF JobOk, WithHost, Saving, Verifying, Labels, Checks
  <2>3. After[pc[w]] \in {"branded", "prompted", "configured", "complete"}
    BY <1>2 DEF Evaluate, After, Checks
  <2>4. CASE Goto(w, After[pc[w]]) /\ UNCHANGED job
    BY <2>1, <2>2, <2>3, <2>4, Going, Moving
  <2>. QED
    BY <1>2, <2>1, <2>4, Returning, Moving DEF Evaluate
<1>3. CASE CompleteOnboarding(w)
  <2>1. step' \in 1 .. 5 /\ furthest' \in step' .. 5
    BY <1>3, ReachTypes DEF CompleteOnboarding, TypeInv, TypeOK
  <2>2. completed' \in BOOLEAN /\ faults' \in 0 .. MaxFaults
    BY <1>3, FaultTypes, TypeInvParts DEF CompleteOnboarding, DataOk, OthersOk
  <2>3. DataOk' /\ Grows
    BY <1>3, <2>1, <2>2, Unchanging, KeepingPrompts, TypeInvParts
       DEF CompleteOnboarding, DataOk, OthersOk, environment
  <2>. QED
    BY <1>3, <2>3, Returning, Moving DEF CompleteOnboarding
<1>4. CASE Crash(w)
  <2>1. DataOk' /\ Grows
    BY <1>4, Unchanging, KeepingPrompts, KeepingOthers, FaultTypes
       DEF Crash, DataOk, rows, history
  <2>. QED
    BY <1>4, <2>1, Returning, Moving DEF Crash
<1>. QED
  BY <1>1, <1>2, <1>3, <1>4

LEMMA OutsideTypes ==
  ASSUME TypeInv, HourPasses \/ \E h \in Hosts : Rotate(h) \/ Disable(h) \/ Publish(h)
  PROVE  TypeInv'
<1>1. ASSUME NEW h \in Hosts, NEW t \in Nat \ {0}, NEW s \in {"pending", "disabled"}, Exists(h),
             domain' = [domain EXCEPT ![h].token = t, ![h].status = s]
      PROVE  DomainOk(domain)' /\ Grows
  <2>. DEFINE r == [domain[h] EXCEPT !.token = t, !.status = s]
  <2>1. domain \in [Hosts -> Domain]
    BY DEF TypeInv, TypeOK
  <2>2. domain[h] \in Domain
    BY <2>1
  <2>3. r \in Domain
    BY <2>2 DEF Domain
  <2>4. r.status = s /\ r.token = t /\ r.since = domain[h].since
    BY <2>2 DEF Domain
  <2>5. domain' = [domain EXCEPT ![h] = r]
    BY <1>1, <2>1
  <2>6. r.status # "none" /\ r.token > 0
    BY <2>4
  <2>. HIDE DEF r
  <2>. QED
    BY <1>1, <2>3, <2>4, <2>5, <2>6, Updating
<1>2. ASSUME Request PROVE requests' \in 0 .. MaxRequests /\ overlapped' \in BOOLEAN
  BY <1>2, BoundsAssumption DEF Request, TypeInv, TypeOK
<1>3. ASSUME NEW h \in Hosts, Rotate(h) PROVE TypeInv'
  <2>1. tokens' \in Nat \ {0} /\ Exists(h)
    BY <1>3 DEF Rotate, TypeInv, TypeOK
  <2>2. DomainOk(domain)' /\ Grows
    BY <1>1, <1>3, <2>1 DEF Rotate, VerdictOnNewToken
  <2>3. DataOk'
    BY <1>2, <1>3, <2>1, <2>2, KeepingPrompts, TypeInvParts DEF Rotate, DataOk, OthersOk
  <2>. QED
    BY <1>3, <2>2, <2>3, Resting DEF Rotate
<1>4. ASSUME NEW h \in Hosts, Disable(h) PROVE TypeInv'
  <2>. DEFINE r == [domain[h] EXCEPT !.status = "disabled"]
  <2>1. domain \in [Hosts -> Domain] /\ domain[h].token > 0 /\ Exists(h)
    BY <1>4, TypeInvParts DEF Disable, DataOk, DomainOk, RowsOk, Exists, Has
  <2>2. r \in Domain /\ r.status # "none" /\ r.token > 0 /\ r.since = domain[h].since
    BY <2>1 DEF Domain
  <2>3. domain' = [domain EXCEPT ![h] = r]
    BY <1>4, <2>1 DEF Disable
  <2>. HIDE DEF r
  <2>4. DomainOk(domain)' /\ Grows
    BY <2>1, <2>2, <2>3, Updating
  <2>5. DataOk'
    BY <1>2, <1>4, <2>4, KeepingPrompts, TypeInvParts DEF Disable, DataOk, OthersOk, environment
  <2>. QED
    BY <1>4, <2>4, <2>5, Resting DEF Disable
<1>5. ASSUME NEW h \in Hosts, Publish(h) PROVE TypeInv'
  <2>1. published' \in [Hosts -> Nat]
    BY <1>5 DEF Publish, TypeInv, TypeOK, Domain
  <2>2. DataOk' /\ Grows
    BY <1>5, <2>1, Unchanging, KeepingPrompts, TypeInvParts
       DEF Publish, DataOk, OthersOk, rows, history
  <2>. QED
    BY <1>5, <2>2, Resting DEF Publish
<1>6. CASE HourPasses
  <2>1. attempts' \in [Hosts -> 0 .. MaxAttempts] /\ lookups' \in [Hosts -> Nat]
    BY <1>6, BoundsAssumption DEF HourPasses
  <2>2. DataOk' /\ Grows
    BY <1>6, <2>1, Unchanging, KeepingPrompts, TypeInvParts
       DEF HourPasses, DataOk, OthersOk, environment
  <2>. QED
    BY <1>6, <2>2, Resting DEF HourPasses
<1>. QED
  BY <1>3, <1>4, <1>5, <1>6

Steps(w) ==
  \/ \E target \in 1 .. 5 : GoToStep(w, target)
  \/ ReadStep(w) \/ Advance(w)
  \/ \E h \in Hosts : SaveDomain(w, h) \/ AddDomain(w, h)
  \/ FindDomain(w) \/ CountDomains(w) \/ WriteDomain(w) \/ FindBrand(w) \/ InsertBrand(w)
  \/ \E h \in Hosts : Verify(w, h)
  \/ ReadToken(w) \/ CheckLimit(w) \/ LookUp(w) \/ RecordAttempt(w) \/ WriteVerdict(w)
  \/ \E h \in Hosts, texts \in (SUBSET Texts) \ {{}} : SavePrompts(w, h, texts)
  \/ ReadOld(w) \/ DeleteConfigs(w) \/ DeletePrompts(w)
  \/ \E text \in Texts : InsertPrompt(w, text)
  \/ InsertConfigs(w) \/ PromptsSaved(w)
  \/ \E h \in Hosts : Finish(w, h)
  \/ Evaluate(w) \/ CompleteOnboarding(w) \/ Crash(w)

Outside == HourPasses \/ \E h \in Hosts : Rotate(h) \/ Disable(h) \/ Publish(h)

LEMMA NextIs == Next <=> (\E w \in Workers : Steps(w)) \/ Outside
BY DEF Next, Steps, Outside

LEMMA TypeStep ==
  ASSUME TypeInv, [Next]_vars
  PROVE  TypeInv'
<1>1. ASSUME NEW w \in Workers, Steps(w) PROVE TypeInv'
  BY <1>1, GuideTypes, DomainTypes, VerifyTypes, PromptTypes, FinishTypes DEF Steps
<1>2. CASE Outside
  BY <1>2, OutsideTypes DEF Outside
<1>3. CASE UNCHANGED vars
  <2>1. DataOk' /\ Grows
    BY <1>3, Unchanging, KeepingPrompts, KeepingOthers, FaultTypes
       DEF vars, DataOk, rows, history
  <2>. QED
    BY <1>3, <2>1, Resting DEF vars
<1>. QED
  BY <1>1, <1>2, <1>3, NextIs

LEMMA TypeInit == Init => TypeInv
<1>. SUFFICES ASSUME Init PROVE TypeInv
  OBVIOUS
<1>1. DomainOk(domain)
  <2>1. ASSUME Fresh PROVE DomainOk(domain)
    BY <2>1 DEF Fresh, DomainOk, RowsOk, Has, NoDomains, NoDomain, Domain
  <2>2. ASSUME NEW h \in Hosts,
               domain = [NoDomains EXCEPT ![h] = [status |-> "verified", token |-> 1, since |-> 1]]
        PROVE  DomainOk(domain)
    <3>1. /\ domain \in [Hosts -> Domain]
          /\ domain[h] = [status |-> "verified", token |-> 1, since |-> 1]
          /\ \A g \in Hosts \ {h} : domain[g] = NoDomain
      BY <2>2 DEF NoDomains, NoDomain, Domain
    <3>2. Existing(domain) = {h}
      BY <3>1 DEF Existing, Has, NoDomain
    <3>3. Cardinality(Existing(domain)) = 1
      BY <3>2, FS_Singleton
    <3>. QED
      BY <3>1, <3>2, <3>3 DEF DomainOk, RowsOk, Has, NoDomain
  <2>. QED
    BY <2>1, <2>2 DEF Init, SetUp
<1>2. PromptsOk /\ saved \in [Hosts -> SUBSET Texts]
  <2>1. CASE Fresh
    BY <2>1 DEF Init, Fresh, PromptsOk
  <2>2. CASE SetUp
    BY <2>2 DEF Init, SetUp, PromptsOk, Prompt
  <2>. QED
    BY <2>1, <2>2 DEF Init
<1>3. OthersOk
  <2>1. step \in 1 .. 5 /\ tokens \in Nat
    BY DEF Init, Fresh, SetUp
  <2>2. branded \in BOOLEAN /\ completed \in BOOLEAN /\ overlapped \in BOOLEAN
    <3>1. CASE Fresh
      BY <3>1, Zenon DEF Init, Fresh
    <3>2. CASE SetUp
      BY <3>2, Zenon DEF Init, SetUp
    <3>. QED
      BY <3>1, <3>2 DEF Init
  <2>3. published \in [Hosts -> Nat] /\ found \in [Hosts -> Nat]
    BY DEF Init, Fresh, SetUp
  <2>4. furthest \in step .. 5
    BY <2>1 DEF Init
  <2>5. /\ attempts \in [Hosts -> 0 .. MaxAttempts] /\ lookups \in [Hosts -> Nat]
        /\ requests \in 0 .. MaxRequests /\ faults \in 0 .. MaxFaults
    BY BoundsAssumption DEF Init
  <2>. QED
    BY <1>2, <2>1, <2>2, <2>3, <2>4, <2>5 DEF OthersOk
<1>4. /\ \A w \in Workers : pc[w] = "idle" /\ job[w] = NoJob
      /\ pc \in [Workers -> Labels] /\ job \in [Workers -> Job]
  BY NoJobOk DEF Init, Labels
<1>5. Jobs
  BY <1>4, NoJobOk DEF Jobs
<1>. QED
  BY <1>1, <1>2, <1>3, <1>4, <1>5, TypeInvParts DEF DataOk

LEMMA TypeInvariance == Spec => []TypeInv
BY TypeInit, TypeStep, PTL DEF Spec

(* Every variable keeps its type: in particular a prompt has one row, its   *)
(* monitors belong to a row there is, domains keep the order in which they  *)
(* were added, and the guide is never past the furthest step.               *)
THEOREM TypesAreKept == Spec => []TypeOK
<1>1. TypeInv => TypeOK
  BY DEF TypeInv
<1>. QED
  BY <1>1, TypeInvariance, PTL

-----------------------------------------------------------------------------
(* Requests that do not overlap                                             *)

(* A request begins while another is at work, or alone.                     *)
Enters(w) ==
  /\ pc[w] = "idle"
  /\ overlapped' = (overlapped \/ ~Quiet)
  /\ pc'[w] \notin {"room", "insert", "advance", "limit", "lookup", "record", "verdict",
                    "branded", "prompted", "configured", "complete"}
  /\ UNCHANGED <<rows, environment, faults, furthest, found, lookups>>

Goes(w) == pc[w] # "idle" /\ UNCHANGED overlapped

Rest(w) == \A v \in Workers \ {w} : pc'[v] = pc[v] /\ job'[v] = job[v]

LEMMA BeginEnters ==
  ASSUME TypeInv, NEW w \in Workers, NEW label, NEW data, Begin(w, label, data),
         label \in {"step", "domain", "token", "old", "verified"},
         UNCHANGED <<rows, environment, faults, furthest, found, lookups>>
  PROVE  Enters(w) /\ Rest(w)
BY JobOf DEF Begin, Request, Goto, Enters, Rest

LEMMA StepEnters ==
  ASSUME TypeInv, NEW w \in Workers,
         \/ \E target \in 1 .. 5 : GoToStep(w, target)
         \/ \E h \in Hosts : SaveDomain(w, h) \/ AddDomain(w, h) \/ Verify(w, h) \/ Finish(w, h)
         \/ \E h \in Hosts, texts \in (SUBSET Texts) \ {{}} : SavePrompts(w, h, texts)
  PROVE  Enters(w) /\ Rest(w)
<1>1. ASSUME NEW target \in 1 .. 5, GoToStep(w, target) PROVE Enters(w) /\ Rest(w)
  BY <1>1, BeginEnters DEF GoToStep
<1>2. ASSUME NEW h \in Hosts, SaveDomain(w, h) \/ AddDomain(w, h) PROVE Enters(w) /\ Rest(w)
  BY <1>2, BeginEnters DEF SaveDomain, AddDomain
<1>3. ASSUME NEW h \in Hosts, Verify(w, h) PROVE Enters(w) /\ Rest(w)
  BY <1>3, BeginEnters DEF Verify
<1>4. ASSUME NEW h \in Hosts, Finish(w, h) PROVE Enters(w) /\ Rest(w)
  BY <1>4, BeginEnters DEF Finish
<1>5. ASSUME NEW h \in Hosts, NEW texts \in SUBSET Texts, SavePrompts(w, h, texts)
      PROVE  Enters(w) /\ Rest(w)
  BY <1>5, BeginEnters DEF SavePrompts
<1>. QED
  BY <1>1, <1>2, <1>3, <1>4, <1>5

LEMMA ReturnRests ==
  ASSUME TypeInv, NEW w \in Workers,
         Return(w) \/ (UNCHANGED job /\ \E label \in Labels : Goto(w, label))
  PROVE  Rest(w)
BY JobOf DEF Return, Goto, Rest

LEMMA ProceedRests ==
  ASSUME TypeInv, NEW w \in Workers, Proceed(w)
  PROVE  Rest(w) /\ pc'[w] \in {"idle", "step"}
BY JobOf, ReturnRests DEF Proceed, Return, Goto, Rest

(* All the other steps of a request.                                        *)
Works(w) ==
  \/ ReadStep(w) \/ Advance(w)
  \/ FindDomain(w) \/ CountDomains(w) \/ WriteDomain(w) \/ FindBrand(w) \/ InsertBrand(w)
  \/ ReadToken(w) \/ CheckLimit(w) \/ LookUp(w) \/ RecordAttempt(w) \/ WriteVerdict(w)
  \/ ReadOld(w) \/ DeleteConfigs(w) \/ DeletePrompts(w)
  \/ \E text \in Texts : InsertPrompt(w, text)
  \/ InsertConfigs(w) \/ PromptsSaved(w)
  \/ Evaluate(w) \/ CompleteOnboarding(w) \/ Crash(w)

LEMMA WorkGoes ==
  ASSUME TypeInv, NEW w \in Workers, Works(w)
  PROVE  Goes(w) /\ Rest(w)
<1>1. CASE ReadStep(w) \/ Advance(w)
  BY <1>1, JobOf DEF ReadStep, Advance, Goes, Rest, Return, Goto, history
<1>2. CASE FindDomain(w) \/ CountDomains(w) \/ WriteDomain(w)
  BY <1>2, JobOf DEF FindDomain, CountDomains, WriteDomain, Goes, Rest, Return, Goto, history
<1>3. CASE FindBrand(w) \/ InsertBrand(w)
  BY <1>3, JobOf, ProceedRests DEF FindBrand, InsertBrand, Goes, Rest, Return, Goto, history
<1>4. CASE ReadToken(w) \/ CheckLimit(w)
  BY <1>4, JobOf DEF ReadToken, CheckLimit, Goes, Rest, Return, Goto, history
<1>5. CASE LookUp(w) \/ RecordAttempt(w)
  BY <1>5, JobOf DEF LookUp, RecordAttempt, Goes, Rest, Goto, history
<1>6. CASE WriteVerdict(w)
  BY <1>6, JobOf, ProceedRests DEF WriteVerdict, Goes, Rest, Return, Goto, history
<1>7. CASE ReadOld(w) \/ DeleteConfigs(w) \/ DeletePrompts(w)
  BY <1>7, JobOf DEF ReadOld, DeleteConfigs, DeletePrompts, Goes, Rest, Goto, history
<1>8. ASSUME NEW text \in Texts, InsertPrompt(w, text) PROVE Goes(w) /\ Rest(w)
  BY <1>8, JobOf DEF InsertPrompt, Goes, Rest, Return, Goto, history
<1>9. CASE InsertConfigs(w) \/ PromptsSaved(w)
  BY <1>9, JobOf DEF InsertConfigs, PromptsSaved, Goes, Rest, Return, Goto, history
<1>10. CASE Evaluate(w)
  BY <1>10, JobOf DEF Evaluate, Goes, Rest, Return, Goto, history, Checks
<1>11. CASE CompleteOnboarding(w) \/ Crash(w)
  BY <1>11, JobOf DEF CompleteOnboarding, Crash, Goes, Rest, Return, Goto, history
<1>. QED
  BY <1>1, <1>2, <1>3, <1>4, <1>5, <1>6, <1>7, <1>8, <1>9, <1>10, <1>11 DEF Works

LEMMA StepOf ==
  ASSUME TypeInv, NEW w \in Workers, Steps(w)
  PROVE  Rest(w) /\ (Enters(w) \/ (Works(w) /\ Goes(w)))
BY StepEnters, WorkGoes DEF Steps, Works

(* What happens outside requests, or as a request of one statement.         *)
LEMMA OutsideIs ==
  ASSUME Outside
  PROVE  /\ UNCHANGED <<branded, prompts, configs, step, completed, pc, job, faults,
                        furthest, found, saved>>
         /\ \/ UNCHANGED <<domain, overlapped>>
            \/ overlapped' = (overlapped \/ ~Quiet)
         /\ overlapped => overlapped'
<1>1. CASE HourPasses \/ \E h \in Hosts : Publish(h)
  BY <1>1 DEF HourPasses, Publish, rows, history
<1>2. CASE \E h \in Hosts : Rotate(h) \/ Disable(h)
  BY <1>2 DEF Rotate, Disable, Request
<1>. QED
  BY <1>1, <1>2 DEF Outside

(* As long as requests do not overlap there is one at work at most.         *)
Alone ==
  ~overlapped => \A v, w \in Workers : pc[v] # "idle" /\ pc[w] # "idle" => v = w

LEMMA AloneStep ==
  ASSUME TypeInv, Alone, [Next]_vars
  PROVE  Alone' /\ (overlapped => overlapped')
<1>1. ASSUME NEW w \in Workers, Steps(w) PROVE Alone' /\ (overlapped => overlapped')
  <2>1. CASE Enters(w)
    BY <1>1, <2>1, StepOf DEF Enters, Rest, Alone, Quiet
  <2>2. CASE Goes(w)
    BY <1>1, <2>2, StepOf DEF Goes, Rest, Alone
  <2>. QED
    BY <1>1, <2>1, <2>2, StepOf
<1>2. CASE Outside
  <2>1. UNCHANGED pc /\ (overlapped => overlapped')
    BY <1>2, OutsideIs
  <2>. QED
    BY <2>1, Zenon DEF Alone
<1>3. CASE UNCHANGED vars
  BY <1>3 DEF vars, Alone, history
<1>. QED
  BY <1>1, <1>2, <1>3, NextIs

(* ... and the others are idle while it takes a step.                       *)
LEMMA AloneAtWork ==
  ASSUME TypeInv, Alone, NEW w \in Workers, Steps(w), ~overlapped', NEW v \in Workers, v # w
  PROVE  pc[v] = "idle" /\ pc'[v] = "idle"
<1>1. CASE Enters(w)
  BY <1>1, StepOf DEF Enters, Rest, Quiet
<1>2. CASE Goes(w)
  BY <1>2, StepOf DEF Goes, Rest, Alone
<1>. QED
  BY <1>1, <1>2, StepOf

-----------------------------------------------------------------------------
(* The verdict on a domain                                                  *)

(* What a request knows of the token of its domain: that the DNS had it;    *)
(* and, if it is alone, that it still is the one in the row.                *)
Knows(dom, fnd, alone, label, j) ==
  /\ label \in {"record", "verdict"} /\ j.match =>
       /\ fnd[j.host] > 0
       /\ alone => fnd[j.host] = dom[j.host].token
  /\ label \in {"room", "insert", "limit", "lookup"} /\ alone /\ Has(dom, j.host) =>
       j.token = dom[j.host].token

FoundInv ==
  /\ TypeInv /\ Alone /\ VerifiedWasFound
  /\ \A w \in Workers : Knows(domain, found, ~overlapped, pc[w], job[w])

FoundBefore == \A h \in Hosts : found[h] > 0 => found'[h] > 0

LEMMA OthersKnow ==
  ASSUME FoundInv, NEW w \in Workers, Steps(w), FoundBefore, NEW v \in Workers, v # w
  PROVE  Knows(domain', found', ~overlapped', pc'[v], job'[v])
<1>1. pc'[v] = pc[v] /\ job'[v] = job[v] /\ (~overlapped' => pc[v] = "idle")
  BY StepOf, AloneAtWork DEF FoundInv, Rest
<1>2. Knows(domain, found, ~overlapped, pc[v], job[v]) /\ JobOk(domain, pc[v], job[v])
  BY JobOf DEF FoundInv
<1>. QED
  BY <1>1, <1>2 DEF Knows, FoundBefore, JobOk, WithHost, Verifying

LEMMA FoundKept ==
  ASSUME FoundInv, NEW w \in Workers, Steps(w), UNCHANGED <<domain, found>>,
         Knows(domain, found, ~overlapped', pc'[w], job'[w])
  PROVE  FoundInv'
<1>1. TypeInv' /\ Alone' /\ (overlapped => overlapped')
  BY TypeStep, AloneStep, NextIs DEF FoundInv
<1>2. \A v \in Workers : Knows(domain', found', ~overlapped', pc'[v], job'[v])
  BY OthersKnow DEF FoundBefore
<1>3. VerifiedWasFound'
  BY <1>1, Zenon DEF FoundInv, VerifiedWasFound
<1>. QED
  BY <1>1, <1>2, <1>3 DEF FoundInv

LEMMA FoundStep ==
  ASSUME FoundInv, [Next]_vars
  PROVE  FoundInv'
<1>. USE DEF FoundInv
<1>1. TypeInv' /\ Alone' /\ (overlapped => overlapped')
  BY TypeStep, AloneStep
<1>. SUFFICES VerifiedWasFound' /\ (\A v \in Workers : Knows(domain, found, ~overlapped, pc[v], job[v]))'
  BY <1>1
<1>2. ASSUME NEW w \in Workers, Steps(w)
      PROVE  VerifiedWasFound' /\ (\A v \in Workers : Knows(domain, found, ~overlapped, pc[v], job[v]))'
  <2>1. Steps(w) /\ JobOk(domain, pc[w], job[w]) /\ Knows(domain, found, ~overlapped, pc[w], job[w])
        /\ job \in [Workers -> Job] /\ pc \in [Workers -> Labels]
    BY <1>2, JobOf
  <2>2. CASE Enters(w)
    <3>1. Knows(domain, found, ~overlapped', pc'[w], job'[w])
      BY <2>2 DEF Enters, Knows
    <3>. QED
      BY <1>2, <2>2, <3>1, FoundKept DEF Enters, rows
  <2>. DEFINE Plain == pc'[w] \notin {"room", "insert", "limit", "lookup", "record", "verdict"}
  <2>3. ASSUME UNCHANGED <<domain, found>>, Plain PROVE FoundInv'
    BY <1>2, <2>3, FoundKept DEF Knows
  <2>4. CASE ReadStep(w) \/ Advance(w) \/ ReadOld(w) \/ DeleteConfigs(w) \/ DeletePrompts(w)
             \/ InsertConfigs(w) \/ PromptsSaved(w)
    BY <2>1, <2>3, <2>4 DEF ReadStep, Advance, ReadOld, DeleteConfigs, DeletePrompts, InsertConfigs,
       PromptsSaved, Goto, Return, rows, history
  <2>5. CASE Evaluate(w) \/ CompleteOnboarding(w) \/ Crash(w)
    BY <2>1, <2>3, <2>5 DEF Evaluate, CompleteOnboarding, Crash, Goto, Return, rows, history, After,
       Checks
  <2>6. CASE \E text \in Texts : InsertPrompt(w, text)
    BY <2>1, <2>3, <2>6 DEF InsertPrompt, Goto, Return, rows, history
  <2>7. CASE FindBrand(w) \/ InsertBrand(w)
    BY <2>1, <2>3, <2>7, ProceedRests DEF FindBrand, InsertBrand, Goto, Return, rows, history
  <2>8. CASE FindDomain(w)
    <3>1. pc'[w] = "room" /\ UNCHANGED <<domain, found>>
          /\ job'[w].token = domain[job'[w].host].token
      BY <2>1, <2>8 DEF FindDomain, Goto, rows, history, Job
    <3>. QED
      BY <1>2, <3>1, FoundKept DEF Knows
  <2>20. CASE CountDomains(w)
    <3>1. /\ UNCHANGED <<domain, found>> /\ pc[w] = "room"
          /\ pc'[w] = "idle" \/ (pc'[w] = "insert" /\ job'[w] = job[w])
      BY <2>1, <2>20 DEF CountDomains, Goto, Return, rows, history
    <3>. QED
      BY <1>1, <1>2, <2>1, <3>1, FoundKept DEF Knows
  <2>9. CASE ReadToken(w)
    <3>1. pc'[w] = "limit" /\ UNCHANGED <<domain, found>>
          /\ job'[w].token = domain[job'[w].host].token
      BY <2>1, <2>9 DEF ReadToken, Goto, rows, history, Job
    <3>. QED
      BY <1>2, <3>1, FoundKept DEF Knows
  <2>10. CASE CheckLimit(w) \/ RecordAttempt(w)
    <3>1. CASE pc[w] = "limit" /\ pc'[w] \in {"idle", "lookup"} /\ UNCHANGED <<domain, found>>
               /\ (pc'[w] = "lookup" => job'[w] = job[w])
      BY <1>1, <1>2, <2>1, <3>1, FoundKept DEF Knows
    <3>2. CASE pc[w] = "record" /\ pc'[w] = "verdict" /\ UNCHANGED <<domain, found>>
               /\ job'[w] = job[w]
      BY <1>1, <1>2, <2>1, <3>2, FoundKept DEF Knows
    <3>. QED
      BY <2>1, <2>10, <3>1, <3>2 DEF CheckLimit, RecordAttempt, Goto, Return, history
  <2>11. CASE LookUp(w)
    <3>. DEFINE h == job[w].host
    <3>1. h \in Hosts /\ Has(domain, h) /\ job[w].token > 0 /\ pc[w] = "lookup"
      BY <2>1, <2>11 DEF LookUp, JobOk, WithHost, Verifying
    <3>2. PICK match \in BOOLEAN :
            /\ job' = [job EXCEPT ![w].match = match]
            /\ found' = IF match THEN [found EXCEPT ![h] = job[w].token] ELSE found
      BY <2>11 DEF LookUp
    <3>3. UNCHANGED <<domain, overlapped>> /\ pc'[w] = "record"
      BY <2>1, <2>11 DEF LookUp, Goto, rows
    <3>4. job'[w].match = match /\ job'[w].host = h
      BY <2>1, <3>2 DEF Job
    <3>5. found \in [Hosts -> Nat]
      BY DEF TypeInv, TypeOK
    <3>6. FoundBefore
      BY <3>1, <3>2, <3>5 DEF FoundBefore
    <3>7. match => found'[h] = job[w].token
      BY <3>1, <3>2, <3>5
    <3>8. ~overlapped => job[w].token = domain[h].token
      BY <2>1, <3>1 DEF Knows
    <3>9. Knows(domain', found', ~overlapped', pc'[w], job'[w])
      BY <3>1, <3>3, <3>4, <3>7, <3>8 DEF Knows
    <3>10. VerifiedWasFound'
      BY <3>1, <3>2, <3>3, <3>5, <3>8 DEF VerifiedWasFound
    <3>. QED
      BY <1>2, <3>6, <3>9, <3>10, OthersKnow
  <2>12. CASE WriteVerdict(w)
    <3>. DEFINE h == job[w].host
    <3>1. h \in Hosts /\ Has(domain, h) /\ pc[w] = "verdict" /\ domain \in [Hosts -> Domain]
      BY <2>1, <2>12 DEF WriteVerdict, JobOk, WithHost, Verifying, TypeInv, TypeOK
    <3>2. UNCHANGED <<found, overlapped>> /\ pc'[w] \in {"idle", "step"}
      BY <2>1, <2>12, ProceedRests DEF WriteVerdict, Return, Goto, history
    <3>3. Knows(domain', found', ~overlapped', pc'[w], job'[w]) /\ FoundBefore
      BY <3>2 DEF Knows, FoundBefore
    <3>4. \A g \in Hosts :
            /\ domain'[g].token = domain[g].token
            /\ domain'[g].status = "verified" =>
                 domain[g].status = "verified" \/ (g = h /\ job[w].match)
      BY <2>12, <3>1 DEF WriteVerdict, Domain
    <3>5. job[w].match => found[h] > 0 /\ (~overlapped => found[h] = domain[h].token)
      BY <2>1, <3>1 DEF Knows
    <3>6. VerifiedWasFound'
      <4>. SUFFICES ASSUME NEW g \in Hosts, domain'[g].status = "verified"
                    PROVE  found[g] > 0 /\ (~overlapped => found[g] = domain[g].token)
        BY <3>2, <3>4, Zenon DEF VerifiedWasFound
      <4>1. CASE domain[g].status = "verified"
        BY <4>1 DEF VerifiedWasFound
      <4>2. CASE g = h /\ job[w].match
        BY <3>5, <4>2
      <4>. QED
        BY <3>4, <4>1, <4>2, Zenon
    <3>. QED
      BY <1>2, <3>3, <3>6, OthersKnow
  <2>13. CASE WriteDomain(w)
    <3>. DEFINE h == job[w].host
    <3>1. h \in Hosts /\ domain \in [Hosts -> Domain] /\ pc[w] = "insert"
      BY <2>1, <2>13 DEF WriteDomain, JobOk, WithHost, TypeInv, TypeOK
    <3>2. UNCHANGED <<found, overlapped>> /\ pc'[w] \in {"idle", "brand"}
      BY <2>1, <2>13 DEF WriteDomain, Return, Goto, history
    <3>3. Knows(domain', found', ~overlapped', pc'[w], job'[w]) /\ FoundBefore
      BY <3>2 DEF Knows, FoundBefore
    <3>4. ASSUME NEW g \in Hosts, domain'[g].status = "verified"
          PROVE  /\ domain[g].status = "verified"
                 /\ ~overlapped => domain'[g].token = domain[g].token
      <4>1. CASE UNCHANGED domain
        BY <3>4, <4>1
      <4>2. CASE /\ job[w].token > 0
                 /\ domain' = [domain EXCEPT ![h].token = job[w].token]
        <5>1. Has(domain, h)
          BY <2>1, <3>1, <4>2 DEF JobOk
        <5>2. ~overlapped => job[w].token = domain[h].token
          BY <2>1, <3>1, <5>1 DEF Knows
        <5>. QED
          BY <3>1, <3>4, <4>2, <5>2 DEF Domain
      <4>3. ASSUME NEW r, r.status = "pending", domain' = [domain EXCEPT ![h] = r]
            PROVE  domain'[g] = domain[g]
        BY <3>1, <3>4, <4>3
      <4>. DEFINE r == [status |-> "pending", token |-> tokens',
                        since |-> Cardinality({x \in Hosts : Exists(x)}) + 1]
      <4>4. r.status = "pending"
        OBVIOUS
      <4>5. \/ UNCHANGED domain
            \/ job[w].token > 0 /\ domain' = [domain EXCEPT ![h].token = job[w].token]
            \/ domain' = [domain EXCEPT ![h] = r]
        BY <2>13 DEF WriteDomain
      <4>. HIDE DEF r
      <4>6. CASE domain' = [domain EXCEPT ![h] = r]
        BY <3>4, <4>3, <4>4, <4>6
      <4>. QED
        BY <4>1, <4>2, <4>5, <4>6
    <3>5. VerifiedWasFound'
      BY <3>2, <3>4 DEF VerifiedWasFound
    <3>. QED
      BY <1>2, <3>3, <3>5, OthersKnow
  <2>. QED
    BY <1>2, <2>2, <2>4, <2>5, <2>6, <2>7, <2>8, <2>9, <2>10, <2>11, <2>12, <2>13, <2>20,
       StepOf DEF Works
<1>3. CASE Outside
  <2>. DEFINE Same == UNCHANGED <<pc, job, found>> /\ (overlapped => overlapped')
  <2>1. Same
    BY <1>1, <1>3, OutsideIs
  <2>2. CASE UNCHANGED domain
    <3>1. VerifiedWasFound'
      BY <2>1, <2>2, Zenon DEF VerifiedWasFound
    <3>. QED
      BY <2>1, <2>2, <3>1, Zenon DEF Knows
  <2>3. CASE overlapped' = (overlapped \/ ~Quiet)
    <3>1. \A g \in Hosts : domain'[g].status = "verified" =>
             domain[g].status = "verified" /\ domain'[g].token = domain[g].token
      <4>1. domain \in [Hosts -> Domain]
        BY DEF TypeInv, TypeOK
      <4>2. ASSUME NEW h \in Hosts, Rotate(h) \/ Disable(h)
            PROVE  \A g \in Hosts : domain'[g].status = "verified" => domain'[g] = domain[g]
        BY <4>1, <4>2 DEF Rotate, VerdictOnNewToken, Disable, Domain
      <4>. QED
        BY <1>3, <4>2 DEF Outside, HourPasses, Publish, rows
    <3>2. VerifiedWasFound'
      BY <2>1, <3>1 DEF VerifiedWasFound
    <3>3. ASSUME NEW v \in Workers PROVE Knows(domain', found', ~overlapped', pc'[v], job'[v])
      <4>1. CASE pc[v] = "idle"
        BY <2>1, <4>1 DEF Knows
      <4>2. CASE pc[v] # "idle"
        <5>1. overlapped'
          BY <2>3, <4>2 DEF Quiet
        <5>. QED
          BY <2>1, <5>1 DEF Knows
      <4>. QED
        BY <4>1, <4>2
    <3>. QED
      BY <3>2, <3>3
  <2>. QED
    BY <1>3, <2>2, <2>3, OutsideIs
<1>4. CASE UNCHANGED vars
  BY <1>4 DEF vars, rows, history, VerifiedWasFound, Knows
<1>. QED
  BY <1>2, <1>3, <1>4, NextIs

LEMMA FoundInit == Init => FoundInv
<1>. SUFFICES ASSUME Init PROVE FoundInv
  OBVIOUS
<1>1. TypeInv /\ Alone /\ \A w \in Workers : Knows(domain, found, ~overlapped, pc[w], job[w])
  BY TypeInit DEF Init, Alone, Knows
<1>2. ASSUME Fresh PROVE VerifiedWasFound
  BY <1>2 DEF Fresh, NoDomains, NoDomain, VerifiedWasFound
<1>3. ASSUME SetUp PROVE VerifiedWasFound
  BY <1>3 DEF SetUp, NoDomains, NoDomain, VerifiedWasFound
<1>. QED
  BY <1>1, <1>2, <1>3 DEF Init, FoundInv

(* A domain is verified only after a token of it was found in the DNS; and  *)
(* as long as requests do not overlap that is the token it has now.         *)
THEOREM VerifiedDomainWasFound == Spec => []VerifiedWasFound
<1>1. FoundInv => VerifiedWasFound
  BY DEF FoundInv
<1>. QED
  BY <1>1, FoundInit, FoundStep, PTL DEF Spec

-----------------------------------------------------------------------------
(* The steps of the guide                                                   *)

(* What the completion has asked for so far still holds if it is alone.     *)
Asked(label, alone) ==
  alone =>
    /\ label \in {"branded", "prompted", "configured", "complete"} =>
         \E h \in Hosts : domain[h].status = "verified"
    /\ label \in {"prompted", "configured", "complete"} => branded
    /\ label \in {"configured", "complete"} => prompts # {}
    /\ label = "complete" => configs # {}

(* A request that found the step in reach has it in reach still, since the  *)
(* furthest step never falls.                                               *)
InReach(label, j) == label = "advance" => j.target <= furthest + 1

EarnedInv ==
  /\ TypeInv /\ Alone
  /\ \A w \in Workers : Asked(pc[w], ~overlapped) /\ InReach(pc[w], job[w])

LEMMA FurthestGrows ==
  ASSUME TypeInv, [Next]_vars
  PROVE  furthest' >= furthest
<1>. furthest \in Nat
  BY DEF TypeInv, TypeOK
<1>1. ASSUME NEW w \in Workers, Steps(w) PROVE furthest' >= furthest
  <2>1. CASE Enters(w)
    BY <2>1 DEF Enters
  <2>2. CASE Advance(w) \/ CompleteOnboarding(w)
    <3>1. job[w].target \in Nat
      BY JobOf DEF Job
    <3>2. ASSUME NEW s \in Nat, Reach(s) PROVE furthest' >= furthest
      BY <3>2 DEF Reach
    <3>. QED
      BY <2>2, <3>1, <3>2 DEF Advance, CompleteOnboarding
  <2>3. CASE ReadStep(w) \/ FindDomain(w) \/ CountDomains(w) \/ WriteDomain(w) \/ FindBrand(w) \/ InsertBrand(w)
    BY <2>3 DEF ReadStep, FindDomain, CountDomains, WriteDomain, FindBrand, InsertBrand, history
  <2>4. CASE ReadToken(w) \/ CheckLimit(w) \/ LookUp(w) \/ RecordAttempt(w) \/ WriteVerdict(w)
    BY <2>4 DEF ReadToken, CheckLimit, LookUp, RecordAttempt, WriteVerdict, history
  <2>5. CASE ReadOld(w) \/ DeleteConfigs(w) \/ DeletePrompts(w) \/ InsertConfigs(w)
             \/ PromptsSaved(w) \/ \E text \in Texts : InsertPrompt(w, text)
    <3>1. UNCHANGED history
      BY <2>5 DEF ReadOld, DeleteConfigs, DeletePrompts, InsertConfigs, PromptsSaved, InsertPrompt
    <3>. QED
      BY <3>1 DEF history
  <2>6. CASE Evaluate(w) \/ Crash(w)
    BY <2>6 DEF Evaluate, Crash, history
  <2>. QED
    BY <1>1, <2>1, <2>2, <2>3, <2>4, <2>5, <2>6, StepOf DEF Works
<1>2. CASE Outside
  BY <1>2, OutsideIs
<1>3. CASE UNCHANGED vars
  BY <1>3 DEF vars, history
<1>. QED
  BY <1>1, <1>2, <1>3, NextIs

(* Where a step of a request leads.                                         *)
LEMMA Landing ==
  ASSUME TypeInv, NEW w \in Workers, Steps(w)
  PROVE  \/ /\ pc'[w] \notin {"branded", "prompted", "configured", "complete"}
            /\ pc'[w] = "advance" => ReadStep(w)
         \/ /\ Evaluate(w) /\ pc[w] \in Checks /\ Met[pc[w]] /\ pc'[w] = After[pc[w]]
<1>1. CASE Enters(w)
  BY <1>1 DEF Enters
<1>2. CASE ReadStep(w) \/ Advance(w) \/ CompleteOnboarding(w) \/ Crash(w)
  BY <1>2, JobOf DEF ReadStep, Advance, CompleteOnboarding, Crash, Return, Goto
<1>3. CASE FindDomain(w) \/ CountDomains(w) \/ WriteDomain(w) \/ FindBrand(w) \/ InsertBrand(w)
  BY <1>3, JobOf, ProceedRests
     DEF FindDomain, CountDomains, WriteDomain, FindBrand, InsertBrand, Return, Goto
<1>4. CASE ReadToken(w) \/ CheckLimit(w) \/ LookUp(w) \/ RecordAttempt(w) \/ WriteVerdict(w)
  BY <1>4, JobOf, ProceedRests DEF ReadToken, CheckLimit, LookUp, RecordAttempt, WriteVerdict,
     Return, Goto
<1>5. CASE ReadOld(w) \/ DeleteConfigs(w) \/ DeletePrompts(w) \/ InsertConfigs(w)
           \/ PromptsSaved(w) \/ \E text \in Texts : InsertPrompt(w, text)
  BY <1>5, JobOf DEF ReadOld, DeleteConfigs, DeletePrompts, InsertConfigs, PromptsSaved,
     InsertPrompt, Return, Goto
<1>6. CASE Evaluate(w)
  BY <1>6, JobOf DEF Evaluate, Return, Goto
<1>. QED
  BY <1>1, <1>2, <1>3, <1>4, <1>5, <1>6, StepOf DEF Works

LEMMA MetIs ==
  /\ Met["prompted"] = (prompts # {})
  /\ Met["configured"] = (configs # {})
BY Zenon DEF Met

LEMMA EarnedStep ==
  ASSUME EarnedInv, [Next]_vars
  PROVE  EarnedInv'
<1>. USE DEF EarnedInv
<1>1. TypeInv' /\ Alone' /\ (overlapped => overlapped') /\ furthest' >= furthest
      /\ furthest \in Nat /\ furthest' \in Nat
  <2>1. TypeInv' /\ Alone' /\ (overlapped => overlapped') /\ furthest' >= furthest
    BY TypeStep, AloneStep, FurthestGrows
  <2>. QED
    BY <2>1 DEF TypeInv, TypeOK
<1>2. SUFFICES ASSUME NEW v \in Workers
               PROVE  Asked(pc[v], ~overlapped)' /\ InReach(pc[v], job[v])'
  BY <1>1
<1>3. job[v] \in Job
  BY JobOf
<1>4. ASSUME NEW w \in Workers, Steps(w)
      PROVE  Asked(pc[v], ~overlapped)' /\ InReach(pc[v], job[v])'
  <2>1. CASE v # w
    <3>1. pc'[v] = pc[v] /\ job'[v] = job[v] /\ (~overlapped' => pc'[v] = "idle")
      BY <1>4, <2>1, StepOf, AloneAtWork DEF Rest
    <3>2. Asked(pc[v], ~overlapped)'
      BY <3>1 DEF Asked
    <3>3. InReach(pc[v], job[v])'
      <4>1. pc'[v] = pc[v] /\ job'[v].target = job[v].target /\ job[v].target \in Nat
        BY <1>3, <3>1 DEF Job
      <4>. QED
        <5>1. pc[v] = "advance" => job[v].target <= furthest + 1
          BY Zenon DEF InReach
        <5>. QED
          BY <1>1, <4>1, <5>1 DEF InReach
    <3>. QED
      BY <3>2, <3>3
  <2>2. CASE v = w
    <3>1. ASSUME pc'[w] \notin {"branded", "prompted", "configured", "complete"},
                 pc'[w] = "advance" => ReadStep(w)
          PROVE  Asked(pc[w], ~overlapped)' /\ InReach(pc[w], job[w])'
      <4>1. Asked(pc[w], ~overlapped)'
        BY <3>1 DEF Asked
      <4>2. ASSUME pc'[w] = "advance" PROVE job'[w].target <= furthest' + 1
        <5>1. ReadStep(w) /\ pc \in [Workers -> Labels]
          BY <3>1, <4>2, JobOf
        <5>2. IsValidTransition(job[w].target) /\ UNCHANGED job
          BY <4>2, <5>1 DEF ReadStep, Return, Goto
        <5>3. step <= furthest /\ step \in Nat /\ job[w].target \in Nat
          BY JobOf DEF TypeInv, TypeOK, Job
        <5>. QED
          BY <1>1, <5>2, <5>3 DEF IsValidTransition
      <4>. QED
        BY <4>1, <4>2 DEF InReach
    <3>2. ASSUME Evaluate(w), pc[w] \in Checks, Met[pc[w]], pc'[w] = After[pc[w]]
          PROVE  Asked(pc[w], ~overlapped)' /\ InReach(pc[w], job[w])'
      <4>1. Asked(pc[w], ~overlapped) /\ UNCHANGED <<domain, branded, prompts, configs, overlapped>>
        BY <3>2 DEF Evaluate, rows, history
      <4>2. pc'[w] # "advance"
        BY <3>2 DEF After, Checks
      <4>3. CASE pc[w] = "verified"
        <5>1. pc'[w] = "branded" /\ \E h \in Hosts : domain[h].status = "verified"
          BY <3>2, <4>3 DEF Met, After
        <5>. QED
          BY <4>1, <5>1 DEF Asked, InReach
      <4>4. CASE pc[w] = "branded"
        <5>1. pc'[w] = "prompted" /\ branded
          BY <3>2, <4>4 DEF Met, After
        <5>. QED
          BY <4>1, <4>4, <5>1 DEF Asked, InReach
      <4>5. CASE pc[w] = "prompted"
        <5>1. pc'[w] = "configured"
          BY <3>2, <4>5 DEF After
        <5>2. prompts # {}
          BY <3>2, <4>5, MetIs, Zenon
        <5>. QED
          BY <4>1, <4>5, <5>1, <5>2 DEF Asked, InReach
      <4>6. CASE pc[w] = "configured"
        <5>1. pc'[w] = "complete"
          BY <3>2, <4>6 DEF After
        <5>2. configs # {}
          BY <3>2, <4>6, MetIs, Zenon
        <5>. QED
          BY <4>1, <4>6, <5>1, <5>2 DEF Asked, InReach
      <4>. QED
        BY <3>2, <4>3, <4>4, <4>5, <4>6 DEF Checks
    <3>. QED
      BY <1>4, <2>2, <3>1, <3>2, Landing
  <2>. QED
    BY <2>1, <2>2
<1>5. ASSUME UNCHANGED <<pc, job, branded, prompts, configs, furthest>>,
             UNCHANGED domain \/ overlapped' = (overlapped \/ ~Quiet)
      PROVE  Asked(pc[v], ~overlapped)' /\ InReach(pc[v], job[v])'
  <2>1. InReach(pc[v], job[v])'
    BY <1>5 DEF InReach
  <2>2. CASE UNCHANGED domain
    BY <1>1, <1>5, <2>1, <2>2, Zenon DEF Asked
  <2>3. CASE overlapped' = (overlapped \/ ~Quiet)
    <3>1. pc[v] = "idle" \/ overlapped'
      BY <2>3 DEF Quiet
    <3>. QED
      BY <1>5, <2>1, <3>1 DEF Asked
  <2>. QED
    BY <1>5, <2>2, <2>3
<1>6. CASE Outside
  BY <1>5, <1>6, OutsideIs
<1>7. CASE UNCHANGED vars
  BY <1>5, <1>7 DEF vars, rows, history
<1>. QED
  BY <1>4, <1>6, <1>7, NextIs

LEMMA EarnedInit == Init => EarnedInv
BY TypeInit DEF Init, EarnedInv, Alone, Asked, InReach

(* However requests overlap, a step of the guide is reached from the one    *)
(* before it, except by the completion; and requests that do not overlap    *)
(* complete it only when everything it asks for is there.                   *)
THEOREM StepsAreEarned == Spec => ProgressIsEarned
<1>. DEFINE Earned ==
       /\ furthest' <= furthest + 1 \/ (completed' /\ step' = 5)
       /\ completed' # completed /\ ~overlapped =>
            /\ \E h \in Hosts : domain[h].status = "verified"
            /\ branded /\ prompts # {} /\ configs # {}
<1>1. ASSUME EarnedInv, [Next]_vars PROVE [Earned]_vars
  <2>0. furthest \in Nat
    BY <1>1 DEF EarnedInv, TypeInv, TypeOK
  <2>1. ASSUME NEW w \in Workers, CompleteOnboarding(w) PROVE Earned
    <3>1. Asked("complete", ~overlapped)
      BY <1>1, <2>1 DEF EarnedInv, CompleteOnboarding
    <3>2. furthest' <= furthest + 1 \/ (completed' /\ step' = 5)
      BY <2>0, <2>1 DEF CompleteOnboarding, Reach
    <3>. QED
      BY <3>1, <3>2 DEF Asked
  <2>2. ASSUME NEW w \in Workers, Advance(w) PROVE Earned
    <3>1. job[w].target <= furthest + 1 /\ job[w].target \in Nat
      BY <1>1, <2>2, JobOf DEF EarnedInv, InReach, Advance, Job
    <3>2. furthest' <= furthest + 1
      BY <2>0, <2>2, <3>1 DEF Advance, Reach
    <3>. QED
      BY <2>2, <3>2 DEF Advance
  <2>3. ASSUME UNCHANGED <<furthest, completed>> PROVE Earned
    BY <2>0, <2>3
  <2>. HIDE DEF Earned
  <2>4. ASSUME NEW w \in Workers, Steps(w) PROVE Earned
    <3>1. CASE Enters(w)
      BY <2>3, <3>1 DEF Enters, rows
    <3>2. CASE ReadStep(w) \/ FindDomain(w) \/ CountDomains(w) \/ WriteDomain(w) \/ FindBrand(w) \/ InsertBrand(w)
      BY <2>3, <3>2 DEF ReadStep, FindDomain, CountDomains, WriteDomain, FindBrand, InsertBrand, rows, history
    <3>3. CASE ReadToken(w) \/ CheckLimit(w) \/ LookUp(w) \/ RecordAttempt(w) \/ WriteVerdict(w)
      BY <2>3, <3>3 DEF ReadToken, CheckLimit, LookUp, RecordAttempt, WriteVerdict, rows, history
    <3>4. CASE ReadOld(w) \/ DeleteConfigs(w) \/ DeletePrompts(w) \/ InsertConfigs(w)
               \/ PromptsSaved(w) \/ \E text \in Texts : InsertPrompt(w, text)
      BY <2>3, <3>4 DEF ReadOld, DeleteConfigs, DeletePrompts, InsertConfigs, PromptsSaved,
         InsertPrompt, rows, history
    <3>5. CASE Evaluate(w) \/ Crash(w)
      BY <2>3, <3>5 DEF Evaluate, Crash, rows, history
    <3>. QED
      BY <1>1, <2>1, <2>2, <2>4, <3>1, <3>2, <3>3, <3>4, <3>5, StepOf DEF EarnedInv, Works
  <2>5. CASE Outside
    BY <2>3, <2>5, OutsideIs
  <2>. QED
    BY <1>1, <2>4, <2>5, NextIs
<1>2. Init => EarnedInv
  BY EarnedInit
<1>3. EarnedInv /\ [Next]_vars => EarnedInv'
  BY EarnedStep
<1>4. [][Earned]_vars <=> ProgressIsEarned
  BY PTL DEF ProgressIsEarned
<1>. QED
  BY <1>1, <1>2, <1>3, <1>4, PTL DEF Spec

-----------------------------------------------------------------------------
(* The limit of DNS lookups                                                 *)

(* The requests that were let through and have not asked the DNS yet, and   *)
(* those that have and are about to be counted.                             *)
LookingUp(h) == {w \in Workers : pc[w] = "lookup" /\ job[w].host = h}
Recording(h) == {w \in Workers : pc[w] = "record" /\ job[w].host = h}

(* Below the limit every lookup is counted, about to be, or lost to a       *)
(* fault; at the limit only requests let through before may still ask.      *)
Within(looked, counted, lost, l, r) ==
  /\ counted < MaxAttempts => looked <= counted + lost + r
  /\ counted = MaxAttempts => looked + l <= MaxAttempts - 1 + Cardinality(Workers) + lost

LimitInv ==
  /\ TypeInv
  /\ \A h \in Hosts :
       Within(lookups[h], attempts[h], faults, Cardinality(LookingUp(h)), Cardinality(Recording(h)))

LEMMA WithinMore ==
  ASSUME NEW looked \in Nat, NEW counted \in 0 .. MaxAttempts, NEW lost \in Nat, NEW more \in Nat,
         NEW l \in Nat, NEW r \in Nat, Within(looked, counted, lost, l, r), more >= lost
  PROVE  Within(looked, counted, more, l, r)
<1>. Cardinality(Workers) \in Nat /\ MaxAttempts \in Nat
  BY WorkersAssumption, FS_CardinalityType, BoundsAssumption
<1>. QED
  BY DEF Within

LEMMA TwoParts ==
  ASSUME NEW L \in SUBSET Workers, NEW R \in SUBSET Workers, L \cap R = {}
  PROVE  /\ IsFiniteSet(L) /\ IsFiniteSet(R)
         /\ Cardinality(L) \in Nat /\ Cardinality(R) \in Nat /\ Cardinality(Workers) \in Nat
         /\ Cardinality(L) + Cardinality(R) <= Cardinality(Workers)
<1>1. /\ IsFiniteSet(L) /\ IsFiniteSet(R) /\ IsFiniteSet(L \cup R)
      /\ Cardinality(L \cup R) <= Cardinality(Workers)
  BY WorkersAssumption, FS_Subset
<1>2. /\ Cardinality(L) \in Nat /\ Cardinality(R) \in Nat /\ Cardinality(Workers) \in Nat
      /\ Cardinality(L \cup R) \in Nat
  BY <1>1, WorkersAssumption, FS_CardinalityType
<1>3. Cardinality(L \cup R) = Cardinality(L) + Cardinality(R) - Cardinality(L \cap R)
  BY <1>1, FS_Union
<1>4. Cardinality(L \cap R) = 0
  BY FS_EmptySet
<1>. QED
  BY <1>1, <1>2, <1>3, <1>4

LEMMA OneLess ==
  ASSUME NEW S \in SUBSET Workers, NEW w \in S
  PROVE  /\ Cardinality(S) \in Nat \ {0} /\ Cardinality(S \ {w}) \in Nat
         /\ Cardinality(S \ {w}) = Cardinality(S) - 1
<1>1. IsFiniteSet(S) /\ IsFiniteSet(S \ {w})
  BY WorkersAssumption, FS_Subset
<1>2. Cardinality(S \ {w}) = Cardinality(S) - 1
  BY <1>1, FS_RemoveElement
<1>3. Cardinality(S) \in Nat /\ Cardinality(S \ {w}) \in Nat
  BY <1>1, FS_CardinalityType
<1>. QED
  BY <1>2, <1>3

LEMMA OneMore ==
  ASSUME NEW S \in SUBSET Workers, NEW w \in Workers, w \notin S
  PROVE  Cardinality(S \cup {w}) = Cardinality(S) + 1
BY WorkersAssumption, FS_Subset, FS_AddElement

LEMMA LimitTypes ==
  ASSUME TypeInv, NEW h \in Hosts
  PROVE  /\ lookups[h] \in Nat /\ attempts[h] \in 0 .. MaxAttempts /\ faults \in Nat
         /\ LookingUp(h) \in SUBSET Workers /\ Recording(h) \in SUBSET Workers
         /\ Cardinality(LookingUp(h)) \in Nat /\ Cardinality(Recording(h)) \in Nat
         /\ Cardinality(Workers) \in Nat /\ MaxAttempts \in Nat \ {0}
         /\ Cardinality(LookingUp(h)) + Cardinality(Recording(h)) <= Cardinality(Workers)
<1>1. LookingUp(h) \cap Recording(h) = {}
      /\ LookingUp(h) \in SUBSET Workers /\ Recording(h) \in SUBSET Workers
  BY DEF LookingUp, Recording
<1>2. lookups[h] \in Nat /\ attempts[h] \in 0 .. MaxAttempts /\ faults \in Nat
  BY BoundsAssumption DEF TypeInv, TypeOK
<1>. QED
  BY <1>1, <1>2, TwoParts, BoundsAssumption

(* A step of a request that neither asks the DNS nor counts.                *)
LEMMA NotLookingUp ==
  ASSUME TypeInv, NEW w \in Workers, Steps(w), NEW h \in Hosts
  PROVE  \/ /\ CheckLimit(w) \/ LookUp(w) \/ RecordAttempt(w)
         \/ Crash(w)
         \/ /\ UNCHANGED <<attempts, lookups>> /\ faults' \in {faults, faults + 1}
            /\ pc[w] \notin {"lookup", "record"} /\ pc'[w] \notin {"lookup", "record"}
<1>1. CASE Enters(w)
  BY <1>1 DEF Enters, rows
<1>2. CASE ReadStep(w) \/ Advance(w) \/ CompleteOnboarding(w)
  BY <1>2, JobOf DEF ReadStep, Advance, CompleteOnboarding, Return, Goto, Fault, rows, history
<1>3. CASE FindDomain(w) \/ CountDomains(w) \/ WriteDomain(w) \/ FindBrand(w) \/ InsertBrand(w)
  BY <1>3, JobOf, ProceedRests
     DEF FindDomain, CountDomains, WriteDomain, FindBrand, InsertBrand, Return, Goto,
     Fault, rows, history
<1>4. CASE ReadToken(w) \/ WriteVerdict(w)
  BY <1>4, JobOf, ProceedRests DEF ReadToken, WriteVerdict, Return, Goto, Fault, rows, history
<1>5. CASE ReadOld(w) \/ DeleteConfigs(w) \/ DeletePrompts(w) \/ InsertConfigs(w)
           \/ PromptsSaved(w)
  BY <1>5, JobOf DEF ReadOld, DeleteConfigs, DeletePrompts, InsertConfigs, PromptsSaved,
     Return, Goto, Fault, rows, history
<1>6. CASE \E text \in Texts : InsertPrompt(w, text)
  BY <1>6, JobOf DEF InsertPrompt, Return, Goto, Fault, history
<1>7. CASE Evaluate(w)
  BY <1>7, JobOf DEF Evaluate, Return, Goto, rows, history, After, Checks
<1>. QED
  BY <1>1, <1>2, <1>3, <1>4, <1>5, <1>6, <1>7, StepOf DEF Works

LEMMA LimitKept ==
  ASSUME LimitInv, NEW h \in Hosts, faults' \in {faults, faults + 1},
         lookups'[h] = lookups[h], attempts'[h] = attempts[h],
         LookingUp(h)' = LookingUp(h), Recording(h)' = Recording(h)
  PROVE  Within(lookups[h], attempts[h], faults, Cardinality(LookingUp(h)), Cardinality(Recording(h)))'
<1>1. faults' \in Nat /\ faults' >= faults /\ TypeInv
  BY LimitTypes DEF LimitInv
<1>2. Within(lookups[h], attempts[h], faults', Cardinality(LookingUp(h)), Cardinality(Recording(h)))
  BY <1>1, LimitTypes, WithinMore DEF LimitInv
<1>. QED
  BY <1>2

LEMMA LimitStep ==
  ASSUME LimitInv, [Next]_vars
  PROVE  LimitInv'
<1>. USE DEF LimitInv
<1>. DEFINE Ok(h) ==
       Within(lookups[h], attempts[h], faults, Cardinality(LookingUp(h)), Cardinality(Recording(h)))
<1>1. TypeInv'
  BY TypeStep
<1>. SUFFICES ASSUME NEW h \in Hosts PROVE Ok(h)'
  BY <1>1
<1>. DEFINE L == LookingUp(h)
            R == Recording(h)
<1>2. /\ lookups[h] \in Nat /\ attempts[h] \in 0 .. MaxAttempts /\ faults \in Nat
      /\ L \in SUBSET Workers /\ R \in SUBSET Workers
      /\ Cardinality(L) \in Nat /\ Cardinality(R) \in Nat
      /\ Cardinality(Workers) \in Nat /\ MaxAttempts \in Nat \ {0}
      /\ Cardinality(L) + Cardinality(R) <= Cardinality(Workers)
  BY LimitTypes
<1>3. Ok(h)
  OBVIOUS
<1>4. ASSUME NEW w \in Workers, Steps(w) PROVE Ok(h)'
  <2>1. /\ \A v \in Workers \ {w} : pc'[v] = pc[v] /\ job'[v] = job[v]
        /\ job \in [Workers -> Job] /\ pc \in [Workers -> Labels]
        /\ JobOk(domain, pc[w], job[w])
    BY <1>4, StepOf, JobOf DEF Rest
  <2>2. \A v \in Workers \ {w} : (v \in L' <=> v \in L) /\ (v \in R' <=> v \in R)
    BY <2>1 DEF LookingUp, Recording
  <2>3. L' \in SUBSET Workers /\ R' \in SUBSET Workers
    BY DEF LookingUp, Recording
  <2>4. /\ w \in L <=> pc[w] = "lookup" /\ job[w].host = h
        /\ w \in R <=> pc[w] = "record" /\ job[w].host = h
        /\ w \in L' <=> pc'[w] = "lookup" /\ job'[w].host = h
        /\ w \in R' <=> pc'[w] = "record" /\ job'[w].host = h
    BY DEF LookingUp, Recording
  <2>. HIDE DEF L, R, Ok
  <2>5. ASSUME faults' \in {faults, faults + 1}, lookups'[h] = lookups[h],
               attempts'[h] = attempts[h], w \in L' <=> w \in L, w \in R' <=> w \in R
        PROVE  Ok(h)'
    <3>1. L' = L /\ R' = R
      BY <1>2, <2>2, <2>3, <2>5
    <3>. QED
      BY <2>5, <3>1, LimitKept DEF L, R, Ok
  <2>6. CASE CheckLimit(w)
    <3>. DEFINE g == job[w].host
    <3>1. pc[w] = "limit" /\ UNCHANGED lookups /\ g \in Hosts
          /\ attempts \in [Hosts -> 0 .. MaxAttempts]
      BY <2>1, <2>6 DEF CheckLimit, JobOk, WithHost, Verifying, history, TypeInv, TypeOK
    <3>2. CASE MayLookUp(g) /\ Goto(w, "lookup") /\ UNCHANGED <<attempts, job, faults>>
      <4>1. CASE g # h
        BY <2>1, <2>4, <2>5, <3>1, <3>2, <4>1 DEF Goto
      <4>2. CASE g = h
        <5>1. attempts[h] < MaxAttempts /\ R' = R
          BY <1>2, <2>1, <2>2, <2>3, <2>4, <3>1, <3>2, <4>2 DEF MayLookUp, Goto
        <5>. QED
          BY <1>2, <1>3, <3>1, <3>2, <5>1 DEF Ok, Within, L, R
      <4>. QED
        BY <4>1, <4>2
    <3>3. CASE ~MayLookUp(g) /\ Return(w) /\ (Counted(g) \/ UNCHANGED attempts)
               /\ faults' \in {faults, faults + 1}
      <4>1. attempts' = attempts
        BY <1>2, <3>1, <3>3 DEF MayLookUp, Counted
      <4>2. pc'[w] = "idle"
        BY <2>1, <3>3 DEF Return, Goto
      <4>. QED
        BY <2>4, <2>5, <3>1, <3>3, <4>1, <4>2
    <3>. QED
      BY <2>6, <3>2, <3>3 DEF CheckLimit, Fault
  <2>7. CASE LookUp(w)
    <3>. DEFINE g == job[w].host
    <3>1. /\ pc[w] = "lookup" /\ pc'[w] = "record" /\ UNCHANGED <<attempts, faults>>
          /\ g \in Hosts /\ job'[w].host = g
          /\ lookups' = [lookups EXCEPT ![g] = @ + 1] /\ lookups \in [Hosts -> Nat]
      BY <2>1, <2>7 DEF LookUp, Goto, JobOk, WithHost, Verifying, rows, Job, TypeInv, TypeOK
    <3>2. CASE g # h
      BY <2>4, <2>5, <3>1, <3>2
    <3>3. CASE g = h
      <4>1. w \in L /\ w \notin R /\ L' = L \ {w} /\ R' = R \cup {w}
        BY <1>2, <2>2, <2>3, <2>4, <3>1, <3>3
      <4>2. Cardinality(L') = Cardinality(L) - 1 /\ Cardinality(R') = Cardinality(R) + 1
        BY <1>2, <4>1, OneLess, OneMore
      <4>3. lookups'[h] = lookups[h] + 1 /\ attempts'[h] = attempts[h] /\ faults' = faults
        BY <3>1, <3>3
      <4>. QED
        BY <1>2, <1>3, <4>2, <4>3 DEF Ok, Within, L, R
    <3>. QED
      BY <3>2, <3>3
  <2>8. CASE RecordAttempt(w)
    <3>. DEFINE g == job[w].host
    <3>1. /\ pc[w] = "record" /\ pc'[w] = "verdict" /\ UNCHANGED <<lookups, job>>
          /\ g \in Hosts /\ attempts \in [Hosts -> 0 .. MaxAttempts]
          /\ \/ Counted(g) /\ UNCHANGED faults
             \/ UNCHANGED attempts /\ faults' = faults + 1
      BY <2>1, <2>8 DEF RecordAttempt, Goto, JobOk, WithHost, Verifying, history, Fault,
         TypeInv, TypeOK
    <3>2. CASE g # h
      <4>1. attempts'[h] = attempts[h]
        BY <3>1, <3>2 DEF Counted
      <4>. QED
        BY <2>4, <2>5, <3>1, <3>2, <4>1
    <3>3. CASE g = h
      <4>1. w \in R /\ R' = R \ {w} /\ L' = L
        BY <1>2, <2>2, <2>3, <2>4, <3>1, <3>3
      <4>2. Cardinality(R') = Cardinality(R) - 1 /\ Cardinality(L') = Cardinality(L)
        BY <1>2, <4>1, OneLess
      <4>3. \/ faults' = faults + 1 /\ attempts'[h] = attempts[h]
            \/ faults' = faults /\ attempts[h] < MaxAttempts /\ attempts'[h] = attempts[h] + 1
            \/ faults' = faults /\ attempts[h] = MaxAttempts /\ attempts'[h] = MaxAttempts
        BY <1>2, <3>1, <3>3 DEF Counted
      <4>4. lookups'[h] = lookups[h]
        BY <3>1
      <4>. QED
        BY <1>2, <1>3, <4>2, <4>3, <4>4 DEF Ok, Within, L, R
    <3>. QED
      BY <3>2, <3>3
  <2>9. CASE Crash(w)
    <3>1. pc'[w] = "idle" /\ faults' = faults + 1 /\ UNCHANGED <<attempts, lookups>>
      BY <2>1, <2>9 DEF Crash, Return, Goto, Fault, rows, history
    <3>2. L' = L \ {w} /\ R' = R \ {w}
      BY <1>2, <2>2, <2>3, <2>4, <3>1
    <3>3. Cardinality(L') \in {Cardinality(L), Cardinality(L) - 1}
      <4>1. CASE w \in L
        BY <1>2, <3>2, <4>1, OneLess
      <4>2. CASE w \notin L
        <5>1. L' = L
          BY <3>2, <4>2
        <5>. QED
          BY <5>1
      <4>. QED
        BY <4>1, <4>2
    <3>4. Cardinality(R') \in {Cardinality(R), Cardinality(R) - 1}
      <4>1. CASE w \in R
        BY <1>2, <3>2, <4>1, OneLess
      <4>2. CASE w \notin R
        <5>1. R' = R
          BY <3>2, <4>2
        <5>. QED
          BY <5>1
      <4>. QED
        BY <4>1, <4>2
    <3>. QED
      BY <1>2, <1>3, <3>1, <3>3, <3>4 DEF Ok, Within, L, R
  <2>10. CASE /\ UNCHANGED <<attempts, lookups>> /\ faults' \in {faults, faults + 1}
              /\ pc[w] \notin {"lookup", "record"} /\ pc'[w] \notin {"lookup", "record"}
    BY <2>4, <2>5, <2>10
  <2>. QED
    BY <1>4, <2>6, <2>7, <2>8, <2>9, <2>10, NotLookingUp
<1>5. ASSUME UNCHANGED <<pc, job, faults>> PROVE LookingUp(h)' = LookingUp(h) /\ Recording(h)' = Recording(h)
  BY <1>5 DEF LookingUp, Recording
<1>6. CASE HourPasses
  <2>1. lookups'[h] = 0 /\ attempts'[h] = 0 /\ UNCHANGED <<pc, job, faults>>
    BY <1>6 DEF HourPasses
  <2>. QED
    BY <1>2, <1>5, <2>1 DEF Within
<1>7. CASE \E g \in Hosts : Rotate(g) \/ Disable(g) \/ Publish(g)
  <2>1. UNCHANGED <<attempts, lookups, pc, job, faults>>
    BY <1>7 DEF Rotate, Disable, Publish, rows, history
  <2>. QED
    BY <1>5, <2>1, LimitKept
<1>8. CASE UNCHANGED vars
  <2>1. UNCHANGED <<attempts, lookups, pc, job, faults>>
    BY <1>8 DEF vars, rows, history
  <2>. QED
    BY <1>5, <2>1, LimitKept
<1>. QED
  BY <1>4, <1>6, <1>7, <1>8, NextIs DEF Outside

LEMMA LimitInit == Init => LimitInv
<1>. SUFFICES ASSUME Init PROVE LimitInv
  OBVIOUS
<1>1. TypeInv
  BY TypeInit
<1>2. ASSUME NEW h \in Hosts
      PROVE  Within(lookups[h], attempts[h], faults, Cardinality(LookingUp(h)), Cardinality(Recording(h)))
  <2>1. lookups[h] = 0 /\ attempts[h] = 0 /\ faults = 0
    BY DEF Init
  <2>. QED
    BY <1>1, <2>1, LimitTypes DEF Within
<1>. QED
  BY <1>1, <1>2 DEF LimitInv

(* The DNS of a domain is asked no more often in an hour than the limit     *)
(* says, but for requests that were counting at the same time and for       *)
(* attempts that failed to be recorded.                                     *)
THEOREM LookupsAreLimited == Spec => []LookupsWithinLimit
<1>1. ASSUME LimitInv PROVE LookupsWithinLimit
  <2>. SUFFICES ASSUME NEW h \in Hosts
                PROVE  lookups[h] <= MaxAttempts + Cardinality(Workers) - 1 + faults
    BY DEF LookupsWithinLimit
  <2>1. Within(lookups[h], attempts[h], faults, Cardinality(LookingUp(h)), Cardinality(Recording(h)))
    BY <1>1 DEF LimitInv
  <2>. QED
    BY <1>1, <2>1, LimitTypes DEF Within, LimitInv
<1>. QED
  BY <1>1, LimitInit, LimitStep, PTL DEF Spec

-----------------------------------------------------------------------------
(* Prompts and their monitors                                               *)

(* A prompt without monitors is about to be deleted, or to get them.        *)
Covers(label, j, p) ==
  \/ label = "unprompt" /\ p \in j.old
  \/ label = "config" /\ p = [host |-> j.host, text |-> j.text, save |-> j.id]

AllCovered ==
  \A p \in prompts \ configs : \E w \in Workers : Covers(pc[w], job[w], p)

ConfiguredInv == TypeInv /\ (faults = 0 => AllCovered)

LEMMA FaultsCount ==
  ASSUME TypeInv
  PROVE  /\ \A kind : ~(Fault(kind) /\ faults' = 0)
         /\ faults \in Nat
<1>1. faults \in Nat
  BY BoundsAssumption DEF TypeInv, TypeOK
<1>. QED
  BY <1>1 DEF Fault

(* All the steps but those of saving the prompts.                           *)
LEMMA NotSaving ==
  ASSUME TypeInv, NEW w \in Workers, Steps(w), faults' = 0
  PROVE  \/ \E h \in Hosts, texts \in (SUBSET Texts) \ {{}} : SavePrompts(w, h, texts)
         \/ ReadOld(w) \/ DeleteConfigs(w) \/ DeletePrompts(w)
         \/ \E text \in Texts : InsertPrompt(w, text)
         \/ InsertConfigs(w) \/ PromptsSaved(w)
         \/ /\ UNCHANGED <<prompts, configs, saved, faults>>
            /\ pc[w] \notin Saving /\ pc'[w] \notin Saving
<1>0. UNCHANGED faults => faults = 0
  OBVIOUS
<1>1. CASE (\E target \in 1 .. 5 : GoToStep(w, target)) \/ ReadStep(w) \/ Advance(w)
  BY <1>1, JobOf, FaultsCount DEF GoToStep, Begin, ReadStep, Advance, Return, Goto, rows, history,
     Saving
<1>2. CASE \E h \in Hosts : SaveDomain(w, h) \/ AddDomain(w, h)
  BY <1>2, JobOf DEF SaveDomain, AddDomain, Begin, Goto, rows, Saving
<1>3. CASE FindDomain(w) \/ CountDomains(w) \/ WriteDomain(w) \/ FindBrand(w) \/ InsertBrand(w)
  BY <1>3, JobOf, FaultsCount, ProceedRests DEF FindDomain, CountDomains, WriteDomain, FindBrand, InsertBrand,
     Return, Goto, rows, history, Saving
<1>4. CASE (\E h \in Hosts : Verify(w, h)) \/ ReadToken(w) \/ CheckLimit(w)
  BY <1>4, JobOf, FaultsCount DEF Verify, Begin, ReadToken, CheckLimit, Return, Goto, rows, history,
     Saving
<1>5. CASE LookUp(w) \/ RecordAttempt(w) \/ WriteVerdict(w)
  BY <1>5, JobOf, FaultsCount, ProceedRests DEF LookUp, RecordAttempt, WriteVerdict, Return, Goto,
     rows, history, Saving
<1>6. CASE (\E h \in Hosts : Finish(w, h)) \/ Evaluate(w)
  BY <1>6, JobOf DEF Finish, Begin, Evaluate, Return, Goto, rows, history, Saving, After, Checks
<1>7. CASE CompleteOnboarding(w) \/ Crash(w)
  BY <1>7, JobOf, FaultsCount DEF CompleteOnboarding, Crash, Return, Goto, rows, history, Saving
<1>. QED
  BY <1>1, <1>2, <1>3, <1>4, <1>5, <1>6, <1>7 DEF Steps

LEMMA ConfiguredStep ==
  ASSUME ConfiguredInv, [Next]_vars
  PROVE  ConfiguredInv'
<1>. USE DEF ConfiguredInv
<1>1. TypeInv'
  BY TypeStep
<1>. SUFFICES ASSUME faults' = 0 PROVE AllCovered'
  BY <1>1
<1>2. ASSUME NEW w \in Workers, Steps(w) PROVE AllCovered'
  <2>1. /\ \A v \in Workers \ {w} : pc'[v] = pc[v] /\ job'[v] = job[v]
        /\ job[w] \in Job /\ job \in [Workers -> Job] /\ pc \in [Workers -> Labels]
    BY <1>2, StepOf, JobOf DEF Rest
  <2>2. ~\E kind : Fault(kind)
    BY FaultsCount
  (* Those covered by another request stay so.                              *)
  <2>3. ASSUME UNCHANGED faults,
               \A p \in prompts' \ configs' :
                 \/ Covers(pc'[w], job'[w], p)
                 \/ p \in prompts \ configs /\ ~Covers(pc[w], job[w], p)
        PROVE  AllCovered'
    <3>. SUFFICES ASSUME NEW p \in prompts' \ configs'
                  PROVE  \E v \in Workers : Covers(pc'[v], job'[v], p)
      BY DEF AllCovered
    <3>1. CASE Covers(pc'[w], job'[w], p)
      BY <3>1
    <3>2. CASE p \in prompts \ configs /\ ~Covers(pc[w], job[w], p)
      <4>1. PICK v \in Workers : Covers(pc[v], job[v], p)
        BY <2>3, <3>2 DEF AllCovered
      <4>. QED
        BY <2>1, <3>2, <4>1
    <3>. QED
      BY <2>3, <3>1, <3>2
  <2>4. CASE UNCHANGED <<prompts, configs, faults>> /\ pc[w] \notin {"unprompt", "config"}
    BY <2>3, <2>4 DEF Covers
  <2>5. CASE (\E h \in Hosts, texts \in (SUBSET Texts) \ {{}} : SavePrompts(w, h, texts))
             \/ ReadOld(w) \/ PromptsSaved(w)
    BY <2>4, <2>5 DEF SavePrompts, Begin, ReadOld, PromptsSaved, rows
  <2>6. CASE DeleteConfigs(w)
    <3>1. /\ configs' = configs \ job[w].old /\ prompts' = prompts /\ UNCHANGED <<job, faults>>
          /\ pc'[w] = "unprompt" /\ pc[w] = "unconfigure"
      BY <2>1, <2>2, <2>6 DEF DeleteConfigs, Goto
    <3>. QED
      BY <2>3, <3>1 DEF Covers
  <2>7. CASE DeletePrompts(w)
    <3>1. /\ prompts' = prompts \ job[w].old /\ configs' = configs \ job[w].old
          /\ pc[w] = "unprompt" /\ UNCHANGED faults
      BY <2>1, <2>2, <2>7 DEF DeletePrompts, OldPrompts
    <3>. QED
      BY <2>3, <3>1 DEF Covers
  <2>8. ASSUME NEW text \in Texts, InsertPrompt(w, text) PROVE AllCovered'
    <3>1. pc[w] = "prompt" /\ UNCHANGED <<configs, faults>>
      BY <2>2, <2>8 DEF InsertPrompt
    <3>2. CASE UNCHANGED prompts
      BY <2>4, <3>1, <3>2
    <3>3. CASE /\ prompts' = prompts \cup {Row(w, text)} /\ Goto(w, "config")
               /\ job' = [job EXCEPT ![w].todo = @ \ {text}, ![w].text = text]
      <4>1. pc'[w] = "config"
        BY <2>1, <3>3 DEF Goto
      <4>2. job'[w].host = job[w].host /\ job'[w].text = text /\ job'[w].id = job[w].id
        BY <2>1, <3>3 DEF Job
      <4>3. Covers(pc'[w], job'[w], Row(w, text))
        BY <4>1, <4>2 DEF Covers, Row
      <4>. QED
        BY <2>3, <3>1, <3>3, <4>3 DEF Covers
    <3>. QED
      BY <2>2, <2>8, <3>2, <3>3 DEF InsertPrompt
  <2>9. CASE InsertConfigs(w)
    <3>1. /\ pc[w] = "config" /\ UNCHANGED <<prompts, faults>>
          /\ \/ configs' = configs \cup {Row(w, job[w].text)}
             \/ Row(w, job[w].text) \notin prompts /\ UNCHANGED configs
      BY <2>2, <2>9 DEF InsertConfigs
    <3>. QED
      BY <2>3, <3>1 DEF Covers, Row
  <2>10. CASE UNCHANGED <<prompts, configs, saved, faults>> /\ pc[w] \notin Saving
    BY <2>4, <2>10 DEF Saving
  <2>. QED
    BY <1>2, <2>5, <2>6, <2>7, <2>8, <2>9, <2>10, NotSaving
<1>3. ASSUME UNCHANGED <<prompts, configs, pc, job, faults>> PROVE AllCovered'
  BY <1>3 DEF AllCovered
<1>4. CASE Outside
  BY <1>3, <1>4, OutsideIs
<1>5. CASE UNCHANGED vars
  BY <1>3, <1>5 DEF vars, rows
<1>. QED
  BY <1>2, <1>4, <1>5, NextIs

(* The prompts of a domain, and what a request that is alone has left of    *)
(* those it saves: it deletes all there are, then inserts one by one.       *)
TextsOf(ps, h) == {p.text : p \in {q \in ps : q.host = h}}

Partly(ps, label, j) ==
  /\ label \in {"old", "unconfigure", "unprompt"} => j.todo = saved[j.host]
  /\ label \in {"unconfigure", "unprompt"} => j.old = {p \in ps : p.host = j.host}
  /\ label \in {"prompt", "config"} =>
       TextsOf(ps, j.host) \cup j.todo = saved[j.host] /\ TextsOf(ps, j.host) \cap j.todo = {}
  /\ label = "config" => [host |-> j.host, text |-> j.text, save |-> j.id] \in ps

AsSaved ==
  /\ \A w \in Workers : Partly(prompts, pc[w], job[w])
  /\ \A h \in Hosts :
       \/ TextsOf(prompts, h) = saved[h]
       \/ \E w \in Workers : pc[w] \in Saving /\ job[w].host = h

SavedInv == ConfiguredInv /\ Alone /\ (~overlapped /\ faults = 0 => AsSaved)

LEMMA SavedStep ==
  ASSUME SavedInv, [Next]_vars
  PROVE  SavedInv'
<1>. USE DEF SavedInv
<1>1. ConfiguredInv' /\ Alone' /\ (overlapped => overlapped') /\ TypeInv
  BY ConfiguredStep, AloneStep DEF ConfiguredInv
<1>. SUFFICES ASSUME ~overlapped', faults' = 0 PROVE AsSaved'
  BY <1>1
<1>2. ASSUME faults = 0 PROVE AsSaved
  BY <1>1, <1>2
<1>3. ASSUME NEW w \in Workers, Steps(w) PROVE AsSaved'
  <2>1. /\ \A v \in Workers \ {w} : pc'[v] = "idle" /\ pc[v] = "idle" /\ job'[v] = job[v]
        /\ job[w] \in Job /\ job \in [Workers -> Job] /\ pc \in [Workers -> Labels]
        /\ JobOk(domain, pc[w], job[w])
    BY <1>1, <1>3, StepOf, JobOf, AloneAtWork DEF Rest
  <2>2. ~\E kind : Fault(kind)
    BY <1>1, FaultsCount
  <2>. DEFINE h == job[w].host
  <2>3. ASSUME UNCHANGED faults
        PROVE  /\ Partly(prompts, pc[w], job[w])
               /\ \A g \in Hosts : TextsOf(prompts, g) = saved[g] \/ (pc[w] \in Saving /\ g = h)
    <3>1. AsSaved
      BY <1>2, <2>3
    <3>2. \A v \in Workers \ {w} : pc[v] \notin Saving
      BY <2>1 DEF Saving
    <3>. QED
      BY <3>1, <3>2 DEF AsSaved
  <2>4. ASSUME Partly(prompts, pc[w], job[w])',
               \A g \in Hosts : TextsOf(prompts', g) = saved'[g]
                                 \/ (pc'[w] \in Saving /\ job'[w].host = g)
        PROVE  AsSaved'
    <3>1. ASSUME NEW v \in Workers PROVE Partly(prompts, pc[v], job[v])'
      BY <2>1, <2>4 DEF Partly
    <3>. QED
      BY <2>4, <3>1 DEF AsSaved
  <2>5. CASE /\ UNCHANGED <<prompts, configs, saved, faults>>
             /\ pc[w] \notin Saving /\ pc'[w] \notin Saving
    BY <2>3, <2>4, <2>5 DEF Partly, Saving
  <2>6. ASSUME NEW k \in Hosts, NEW texts \in SUBSET Texts, SavePrompts(w, k, texts) PROVE AsSaved'
    <3>. DEFINE data == [NoJob EXCEPT !.host = k, !.target = 5, !.todo = texts]
    <3>1. pc[w] = "idle" /\ pc'[w] = "old" /\ UNCHANGED <<prompts, faults>>
          /\ job' = [job EXCEPT ![w] = [data EXCEPT !.id = requests']]
          /\ saved' = [saved EXCEPT ![k] = texts]
      BY <2>1, <2>6 DEF SavePrompts, Begin, Goto, rows
    <3>2. data.host = k /\ data.todo = texts
      BY DEF NoJob
    <3>3. [data EXCEPT !.id = requests'].host = data.host
          /\ [data EXCEPT !.id = requests'].todo = data.todo
      BY DEF NoJob
    <3>4. job'[w].host = k /\ job'[w].todo = texts
      BY <2>1, <3>1, <3>2, <3>3
    <3>5. saved'[k] = texts /\ \A g \in Hosts \ {k} : saved'[g] = saved[g]
      BY <1>1, <3>1 DEF TypeInv, TypeOK
    <3>6. Partly(prompts, pc[w], job[w])'
      BY <3>1, <3>4, <3>5 DEF Partly
    <3>. QED
      BY <2>3, <2>4, <3>1, <3>4, <3>5, <3>6 DEF Saving
  <2>7. CASE ReadOld(w)
    <3>. DEFINE old == {p \in prompts : p.host = h}
    <3>1. /\ pc[w] = "old" /\ UNCHANGED <<prompts, saved, faults>>
          /\ pc'[w] = IF old = {} THEN "prompt" ELSE "unconfigure"
          /\ job' = [job EXCEPT ![w].old = old]
      BY <2>1, <2>7 DEF ReadOld, Goto, rows, history
    <3>2. job'[w].host = h /\ job'[w].todo = job[w].todo /\ job'[w].old = old
      BY <2>1, <3>1 DEF Job
    <3>3. old = {} => TextsOf(prompts, h) = {}
      BY DEF TextsOf
    <3>4. job[w].todo = saved[h]
      BY <2>3, <3>1 DEF Partly
    <3>5. Partly(prompts, pc[w], job[w])'
      BY <3>1, <3>2, <3>3, <3>4 DEF Partly
    <3>. QED
      BY <2>3, <2>4, <3>1, <3>2, <3>5 DEF Saving
  <2>8. CASE DeleteConfigs(w)
    <3>1. /\ pc[w] = "unconfigure" /\ pc'[w] = "unprompt" /\ UNCHANGED <<prompts, saved, faults, job>>
      BY <2>1, <2>2, <2>8 DEF DeleteConfigs, Goto, history
    <3>2. Partly(prompts, pc[w], job[w])'
      BY <2>3, <3>1 DEF Partly
    <3>. QED
      BY <2>3, <2>4, <3>1, <3>2 DEF Saving
  <2>9. CASE DeletePrompts(w)
    <3>1. /\ pc[w] = "unprompt" /\ pc'[w] = "prompt" /\ UNCHANGED <<saved, faults, job>>
          /\ prompts' = prompts \ job[w].old
      BY <2>1, <2>2, <2>9 DEF DeletePrompts, OldPrompts, Goto, history
    <3>2. job[w].old = {p \in prompts : p.host = h} /\ job[w].todo = saved[h]
      BY <2>3, <3>1 DEF Partly
    <3>3. TextsOf(prompts', h) = {}
      BY <3>1, <3>2 DEF TextsOf
    <3>4. \A g \in Hosts \ {h} : TextsOf(prompts', g) = TextsOf(prompts, g)
      BY <3>1, <3>2 DEF TextsOf
    <3>5. Partly(prompts, pc[w], job[w])'
      BY <3>1, <3>2, <3>3 DEF Partly
    <3>. QED
      BY <2>3, <2>4, <3>1, <3>4, <3>5 DEF Saving
  <2>10. ASSUME NEW text \in Texts, InsertPrompt(w, text) PROVE AsSaved'
    <3>1. pc[w] = "prompt" /\ text \in job[w].todo /\ UNCHANGED <<saved, faults>>
      BY <2>2, <2>10 DEF InsertPrompt, history
    <3>2. TextsOf(prompts, h) \cup job[w].todo = saved[h] /\ TextsOf(prompts, h) \cap job[w].todo = {}
      BY <2>3, <3>1 DEF Partly
    <3>3. ~IsTaken(h, text)
      BY <3>1, <3>2 DEF IsTaken, TextsOf
    <3>. DEFINE r == Row(w, text)
    <3>4. /\ prompts' = prompts \cup {r} /\ pc'[w] = "config"
          /\ job' = [job EXCEPT ![w].todo = @ \ {text}, ![w].text = text]
      BY <2>1, <2>2, <2>10, <3>3 DEF InsertPrompt, Goto
    <3>5. /\ job'[w].host = h /\ job'[w].todo = job[w].todo \ {text} /\ job'[w].text = text
          /\ job'[w].id = job[w].id
      BY <2>1, <3>4 DEF Job
    <3>6. r.host = h /\ r.text = text /\ r = [host |-> h, text |-> text, save |-> job[w].id]
      BY DEF Row
    <3>. HIDE DEF r
    <3>7. TextsOf(prompts', h) = TextsOf(prompts, h) \cup {text}
      BY <3>4, <3>6 DEF TextsOf
    <3>8. \A g \in Hosts \ {h} : TextsOf(prompts', g) = TextsOf(prompts, g)
      BY <3>4, <3>6 DEF TextsOf
    <3>9. Partly(prompts, pc[w], job[w])'
      <4>1. TextsOf(prompts', h) \cup job'[w].todo = saved'[h]
            /\ TextsOf(prompts', h) \cap job'[w].todo = {}
        BY <3>1, <3>2, <3>5, <3>7
      <4>2. [host |-> job'[w].host, text |-> job'[w].text, save |-> job'[w].id] \in prompts'
        <5>1. [host |-> job'[w].host, text |-> job'[w].text, save |-> job'[w].id] = r
          BY <3>5, <3>6
        <5>. QED
          BY <3>4, <5>1
      <4>. QED
        BY <3>4, <3>5, <4>1, <4>2 DEF Partly
    <3>. QED
      BY <2>3, <2>4, <3>1, <3>4, <3>5, <3>8, <3>9 DEF Saving
  <2>11. CASE InsertConfigs(w)
    <3>1. pc[w] = "config" /\ UNCHANGED <<prompts, saved, faults>>
      BY <2>2, <2>11 DEF InsertConfigs, history
    <3>2. Row(w, job[w].text) \in prompts
      BY <2>3, <3>1 DEF Partly, Row
    <3>3. pc'[w] = "prompt" /\ UNCHANGED job
      BY <2>1, <2>2, <2>11, <3>2 DEF InsertConfigs, Goto
    <3>4. Partly(prompts, pc[w], job[w])'
      BY <2>3, <3>1, <3>3 DEF Partly
    <3>. QED
      BY <2>3, <2>4, <3>1, <3>3, <3>4 DEF Saving
  <2>12. CASE PromptsSaved(w)
    <3>1. pc[w] = "prompt" /\ pc'[w] = "step" /\ job[w].todo = {} /\ UNCHANGED <<prompts, saved, faults>>
      BY <2>1, <2>12 DEF PromptsSaved, Goto, rows, history
    <3>2. TextsOf(prompts, h) = saved[h]
      BY <2>3, <3>1 DEF Partly
    <3>3. Partly(prompts, pc[w], job[w])'
      BY <3>1 DEF Partly
    <3>. QED
      BY <2>3, <2>4, <3>1, <3>2, <3>3
  <2>. QED
    BY <1>1, <1>3, <2>5, <2>6, <2>7, <2>8, <2>9, <2>10, <2>11, <2>12, NotSaving
<1>4. ASSUME UNCHANGED <<prompts, pc, job, faults, saved>> PROVE AsSaved'
  BY <1>2, <1>4 DEF AsSaved, Partly
<1>5. CASE Outside
  BY <1>4, <1>5, OutsideIs
<1>6. CASE UNCHANGED vars
  BY <1>4, <1>6 DEF vars, rows, history
<1>. QED
  BY <1>3, <1>5, <1>6, NextIs

LEMMA SavedInit == Init => SavedInv
<1>. SUFFICES ASSUME Init PROVE SavedInv
  OBVIOUS
<1>1. TypeInv /\ Alone /\ \A w \in Workers : pc[w] = "idle"
  BY TypeInit DEF Init, Alone
<1>2. ConfiguredInv
  BY <1>1 DEF Init, ConfiguredInv, AllCovered
<1>3. ASSUME NEW h \in Hosts PROVE TextsOf(prompts, h) = saved[h]
  <2>1. ASSUME Fresh PROVE TextsOf(prompts, h) = saved[h]
    BY <2>1 DEF Fresh, TextsOf
  <2>2. ASSUME SetUp PROVE TextsOf(prompts, h) = saved[h]
    <3>1. PICK g \in Hosts, text \in Texts :
            /\ prompts = {[host |-> g, text |-> text, save |-> 0]}
            /\ saved = [k \in Hosts |-> IF k = g THEN {text} ELSE {}]
      BY <2>2 DEF SetUp
    <3>2. saved[h] = IF h = g THEN {text} ELSE {}
      BY <3>1
    <3>3. CASE h = g
      <4>. DEFINE r == [host |-> g, text |-> text, save |-> 0]
      <4>1. r.host = h /\ r.text = text
        BY <3>3
      <4>. HIDE DEF r
      <4>2. {q \in {r} : q.host = h} = {r}
        BY <4>1
      <4>3. TextsOf({r}, h) = {text}
        BY <4>1, <4>2 DEF TextsOf
      <4>. QED
        BY <3>1, <3>2, <3>3, <4>3 DEF r
    <3>4. CASE h # g
      <4>1. {q \in prompts : q.host = h} = {}
        BY <3>1, <3>4
      <4>. QED
        BY <3>2, <3>4, <4>1 DEF TextsOf
    <3>. QED
      BY <3>3, <3>4
  <2>. QED
    BY <2>1, <2>2 DEF Init
<1>4. AsSaved
  BY <1>1, <1>3 DEF AsSaved, Partly
<1>. QED
  BY <1>1, <1>2, <1>4 DEF SavedInv

(* Without faults no prompt is left without its monitors, however saves     *)
(* delete and insert around each other; if requests never overlapped the    *)
(* prompts of a domain are those of the last save, no more and no less.     *)
THEOREM PromptsGetTheirMonitors == Spec => []PromptsAreConfigured
<1>1. ASSUME SavedInv, Quiet, faults = 0 PROVE configs = prompts
  BY <1>1 DEF SavedInv, ConfiguredInv, AllCovered, Covers, Quiet, TypeInv, TypeOK
<1>2. ASSUME SavedInv, Quiet, faults = 0, ~overlapped, NEW h \in Hosts
      PROVE  TextsOf(prompts, h) = saved[h]
  BY <1>2 DEF SavedInv, AsSaved, Quiet, Saving
<1>3. SavedInv => PromptsAreConfigured
  BY <1>1, <1>2 DEF PromptsAreConfigured, TextsOf
<1>. QED
  BY <1>3, SavedInit, SavedStep, PTL DEF Spec
=============================================================================
