-------------------------- MODULE JobTemplateStore --------------------------
(***************************************************************************)
(* What the job template controller promises of its collections, with each *)
(* operation one atomic step: a template is created under an id never used *)
(* before, a stored template may be replaced by another document or        *)
(* removed, and a removed one is gone for good; a job is created once, for *)
(* a template that was created, and never changes; a message goes on the   *)
(* job queue only for a stored job and stays there.                        *)
(*                                                                         *)
(* JobTemplates, where each operation is a series of MongoDB calls of      *)
(* concurrent requests, is checked to implement this specification with    *)
(* the identity mapping on the four collections (MC_JobTemplates).         *)
(***************************************************************************)
CONSTANTS
    Ids,      \* template ids
    Doc,      \* template documents
    Reqs,     \* job ids
    Creds     \* machine credential ids

VARIABLES
    templates,  \* terraform_job_templates: id -> document
    allocated,  \* every id a template was ever created under
    jobs,       \* terraform_jobs
    queued      \* messages on the job queue

storeVars == <<templates, allocated, jobs, queued>>

StoreInit ==
    /\ DOMAIN templates \subseteq Ids
    /\ \A t \in DOMAIN templates : templates[t] \in Doc
    /\ allocated = DOMAIN templates
    /\ jobs = {}
    /\ queued = {}

\* The template stored under the new id is any document (templates'[id]).
CreateTemplate(id) ==
    /\ id \notin allocated
    /\ DOMAIN templates' = DOMAIN templates \cup {id}
    /\ templates'[id] \in Doc
    /\ \A x \in DOMAIN templates : templates'[x] = templates[x]
    /\ allocated' = allocated \cup {id}
    /\ UNCHANGED <<jobs, queued>>

ReplaceTemplate(t) ==
    /\ t \in DOMAIN templates
    /\ DOMAIN templates' = DOMAIN templates
    /\ templates'[t] \in Doc
    /\ \A x \in DOMAIN templates \ {t} : templates'[x] = templates[x]
    /\ UNCHANGED <<allocated, jobs, queued>>

RemoveTemplate(t) ==
    /\ t \in DOMAIN templates
    /\ templates' = [x \in DOMAIN templates \ {t} |-> templates[x]]
    /\ UNCHANGED <<allocated, jobs, queued>>

CreateJob(j, t, c) ==
    /\ \A x \in jobs : x.id # j
    /\ t \in allocated
    /\ jobs' = jobs \cup {[id |-> j, template |-> t, cred |-> c]}
    /\ UNCHANGED <<templates, allocated, queued>>

Enqueue(j, c) ==
    /\ \E x \in jobs : x.id = j
    /\ queued' = queued \cup {[job |-> j, cred |-> c]}
    /\ UNCHANGED <<templates, allocated, jobs>>

StoreNext ==
    \/ \E id \in Ids : CreateTemplate(id)
    \/ \E t \in Ids : ReplaceTemplate(t)
    \/ \E t \in Ids : RemoveTemplate(t)
    \/ \E j \in Reqs, t \in Ids, c \in Creds : CreateJob(j, t, c)
    \/ \E j \in Reqs, c \in Creds : Enqueue(j, c)

SpecJobTemplateStore == StoreInit /\ [][StoreNext]_storeVars

====
