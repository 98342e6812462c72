---------------------------- MODULE JobTemplates ----------------------------
(***************************************************************************)
(* The Terraform job template controller of                                *)
(* src/api/terraform/jtemplates/controller.go: the Middleware and the      *)
(* handlers that change state (AddJTemplate, UpdateJTemplate,              *)
(* PatchJTemplate, RemoveJTemplate, Launch), run by concurrent requests    *)
(* against the terraform_job_templates, terraform_jobs and activity_stream *)
(* collections and the job queue.                                          *)
(*                                                                         *)
(* A request is a process whose steps are the handler's MongoDB operations *)
(* in code order; every operation may fail, and a failing one ends the     *)
(* request the way the code does (an error response, or a log line and on  *)
(* to the next statement). The Middleware loads the template into the gin  *)
(* context: Update, Patch, Remove and Launch work on that copy.            *)
(*                                                                         *)
(* Data is abstracted to the fields the properties tell apart: the name    *)
(* (with or without surrounding blanks, which strings.Trim removes), the   *)
(* project, the variables, the machine credential and the prompt-for-      *)
(* credential flag. Projects and credentials are never removed here, so    *)
(* the existence checks of the handlers (helpers.ProjectExist, ...) pass.  *)
(* Request bodies that fail to bind answer 400 before any store access and *)
(* are left out.                                                           *)
(***************************************************************************)
EXTENDS Naturals, FiniteSets, TLC

CONSTANTS
    Ids,                \* template ids (bson.NewObjectId)
    Names,              \* template names, without blanks
    Projects,           \* project ids
    Vals,               \* values of the vars field
    Creds,              \* machine credential ids (24 characters)
    Reqs,               \* concurrent requests; a Launch's job id is its request
    InitTemplates,      \* the templates stored when the run starts
    ScmUpdateOnLaunch   \* ScmUpdateOnLaunch[p]: the flag of project p

ASSUME ScmUpdateOnLaunch \in [Projects -> BOOLEAN]
ASSUME DOMAIN InitTemplates \subseteq Ids
\* Every Add can draw a fresh id.
ASSUME Cardinality(Ids) >= Cardinality(DOMAIN InitTemplates) + Cardinality(Reqs)

VARIABLES
    templates,   \* terraform_job_templates: id -> document
    allocated,   \* ids bson.NewObjectId has handed out
    activity,    \* activity_stream entries of type job_template
    jobs,        \* terraform_jobs
    queued,      \* messages on the job queue
    lastSet,     \* history: per template, the value of each field the last
                 \* successful write whose body named that field stored
    req          \* req[r]: state of request r

vars == <<templates, allocated, activity, jobs, queued, lastSet, req>>

(***************************************************************************)
(* Values                                                                  *)
(***************************************************************************)
\* A name as sent: a base name, possibly surrounded by blanks.
Name == [base : Names, padded : BOOLEAN]

\* strings.Trim(name, " ")
Trim(n) == [n EXCEPT !.padded = FALSE]

None == "none"
NoName == [base |-> None, padded |-> FALSE]

\* The machine credential id of a Launch body that names no credential:
\* the field left out binds to the empty bson.ObjectId.
EmptyCred == "empty"

\* The user running the requests (the ActorID of every activity).
UserId == "user"

Doc == [name : Name, project : Projects, vars : Vals, cred : Creds,
        promptCred : BOOLEAN]

\* A request body, one shape for every handler; None marks a field a
\* PatchJobTemplate body leaves out, id is the id field of an Update body.
Body == [name : Name \cup {NoName}, project : Projects \cup {None}, vars : Vals \cup {None},
         cred : Creds \cup {EmptyCred, None}, promptCred : BOOLEAN, id : Ids \cup {None}]

Kinds == {"add", "update", "patch", "remove", "launch"}

Pcs == {"idle", "mw", "add_check", "add_insert", "update_check", "update_write",
        "patch_check", "patch_write", "remove", "launch_prepare", "launch_insert",
        "launch_scm", "launch_publish", "activity", "done"}

Outcomes == {"none", "ok", "400", "404", "500"}

\* A request: its handler (kind), the template id (tid), the Middleware's
\* copy, the body, the job it builds (jobCred) and the copy of the job
\* runnerJob was built from (runnerCred), and its response.
NoDoc == [name |-> NoName, project |-> None, vars |-> None, cred |-> None,
          promptCred |-> FALSE]

IdleReq ==
    [pc |-> "idle", kind |-> None, tid |-> None, copy |-> NoDoc,
     body |-> [name |-> NoName, project |-> None, vars |-> None, cred |-> None,
               promptCred |-> FALSE, id |-> None],
     jobCred |-> None, runnerCred |-> None, outcome |-> "none"]

Activity == [object : Ids \cup {None, UserId}, what : {"created", "updated", "deleted"}]
\* A stored or queued job always has a machine credential of 24 characters.
Job == [id : Reqs, template : Ids, cred : Creds]
Message == [job : Reqs, cred : Creds]

TypeOK ==
    /\ DOMAIN templates \subseteq allocated
    /\ allocated \subseteq Ids
    /\ \A t \in DOMAIN templates : templates[t] \in Doc
    /\ activity \subseteq Activity
    /\ jobs \subseteq Job
    /\ queued \subseteq Message
    /\ \A r \in Reqs : req[r].pc \in Pcs /\ req[r].outcome \in Outcomes

\* The bodies each handler is sent (terraform.JobTemplate for Add and
\* Update, terraform.PatchJobTemplate for Patch, terraform.Launch).
AddBodies ==
    {b \in Body : b.name # NoName /\ b.project # None /\ b.vars # None
                  /\ b.cred \in Creds /\ b.id = None}
UpdateBodies(t) ==
    {b \in Body : b.name # NoName /\ b.project # None /\ b.vars # None
                  /\ b.cred \in Creds /\ b.id \in {None, t}}
PatchBodies ==
    {b \in Body : b.project = None /\ b.cred = None /\ ~b.promptCred /\ b.id = None}
LaunchBodies ==
    {b \in Body : b.name = NoName /\ b.project = None /\ b.vars = None
                  /\ b.cred # None /\ ~b.promptCred /\ b.id = None}

\* The fields of a document the history tracks.
Fields(d) == [name |-> d.name, vars |-> d.vars]

Init ==
    /\ templates = InitTemplates
    /\ allocated = DOMAIN InitTemplates
    /\ activity = {[object |-> t, what |-> "created"] : t \in DOMAIN InitTemplates}
    /\ jobs = {}
    /\ queued = {}
    /\ lastSet = [t \in DOMAIN InitTemplates |-> Fields(InitTemplates[t])]
    /\ req = [r \in Reqs |-> IdleReq]

(***************************************************************************)
(* Helpers                                                                 *)
(***************************************************************************)
\* thelpers.IsNotUniqueJTemplate(name, projectID): a template with exactly
\* this name exists in the project.
IsNotUniqueJTemplate(n, p) ==
    \E t \in DOMAIN templates : templates[t].name = n /\ templates[t].project = p

\* End request r with a response, leaving the store alone.
Respond(r, code) ==
    /\ req' = [req EXCEPT ![r].pc = "done", ![r].outcome = code]
    /\ UNCHANGED <<templates, allocated, activity, jobs, queued, lastSet>>

Goto(r, pc) ==
    /\ req' = [req EXCEPT ![r].pc = pc]
    /\ UNCHANGED <<templates, allocated, activity, jobs, queued, lastSet>>

\* Mutant: an upsert, which stores the copy even when the document is gone.
UpdateIdUpsert(r, doc, named) ==
    LET t == req[r].tid
    IN \/ Respond(r, "500")
       \/ /\ templates' = (t :> doc) @@ templates
          /\ lastSet' = [lastSet EXCEPT ![t] =
                            [f \in {"name", "vars"} |->
                                IF f \in named THEN Fields(doc)[f] ELSE @[f]]]
          /\ req' = [req EXCEPT ![r].pc = "activity", ![r].copy = doc]
          /\ UNCHANGED <<allocated, activity, jobs, queued>>

\* db.TerrafromJobTemplates().UpdateId(jobTemplate.ID, jobTemplate): fails
\* with "not found" when the document is gone, or on a store error; then
\* 500. On success the whole document is replaced by the handler's copy.
UpdateId(r, doc, named) ==
    LET t == req[r].tid
    IN \/ Respond(r, "500")
       \/ /\ t \in DOMAIN templates
          /\ templates' = [templates EXCEPT ![t] = doc]
          /\ lastSet' = [lastSet EXCEPT ![t] =
                            [f \in {"name", "vars"} |->
                                IF f \in named THEN Fields(doc)[f] ELSE @[f]]]
          /\ req' = [req EXCEPT ![r].pc = "activity", ![r].copy = doc]
          /\ UNCHANGED <<allocated, activity, jobs, queued>>

\* db.ActivityStream().Insert(...) with the handler's ObjectID; a failure
\* is only logged. The handler then answers with its success code.
RecordActivity(r, object, what) ==
    /\ \/ activity' = activity \cup {[object |-> object, what |-> what]}
       \/ UNCHANGED activity
    /\ req' = [req EXCEPT ![r].pc = "done", ![r].outcome = "ok"]
    /\ UNCHANGED <<templates, allocated, jobs, queued, lastSet>>

(***************************************************************************)
(* A request arrives: the handler and its body. The routes of Update,      *)
(* Patch, Remove and Launch carry a template id and run the Middleware.    *)
(***************************************************************************)
Begin(r) ==
    /\ req[r].pc = "idle"
    /\ \/ \E b \in AddBodies :
            req' = [req EXCEPT ![r].pc = "add_check", ![r].kind = "add", ![r].body = b]
       \/ \E t \in Ids :
            \/ \E b \in UpdateBodies(t) :
                 req' = [req EXCEPT ![r].pc = "mw", ![r].kind = "update",
                                    ![r].tid = t, ![r].body = b]
            \/ \E b \in PatchBodies :
                 req' = [req EXCEPT ![r].pc = "mw", ![r].kind = "patch",
                                    ![r].tid = t, ![r].body = b]
            \/ req' = [req EXCEPT ![r].pc = "mw", ![r].kind = "remove", ![r].tid = t]
            \/ \E b \in LaunchBodies :
                 req' = [req EXCEPT ![r].pc = "mw", ![r].kind = "launch",
                                    ![r].tid = t, ![r].body = b]
    /\ UNCHANGED <<templates, allocated, activity, jobs, queued, lastSet>>

\* Middleware: FindId(ID).One(&jobTemplate); not found or an error is 404.
Middleware(r) ==
    LET t == req[r].tid
        first == [update |-> "update_check", patch |-> "patch_check",
                  remove |-> "remove", launch |-> "launch_prepare"]
    IN /\ req[r].pc = "mw"
       /\ \/ Respond(r, "404")
          \/ /\ t \in DOMAIN templates
             /\ req' = [req EXCEPT ![r].pc = first[req[r].kind],
                                   ![r].copy = templates[t]]
             /\ UNCHANGED <<templates, allocated, activity, jobs, queued, lastSet>>

(***************************************************************************)
(* AddJTemplate                                                            *)
(***************************************************************************)
\* thelpers.IsNotUniqueJTemplate(req.Name, req.ProjectID): 400 when taken.
AddCheck(r) ==
    LET b == req[r].body
    IN /\ req[r].pc = "add_check"
       /\ IF IsNotUniqueJTemplate(b.name, b.project)
          THEN Respond(r, "400")
          ELSE Goto(r, "add_insert")

\* req.ID = bson.NewObjectId(); Insert(req), the name as sent; 500 on error.
AddInsert(r) ==
    LET b == req[r].body
        doc == [name |-> b.name, project |-> b.project, vars |-> b.vars,
                cred |-> b.cred, promptCred |-> b.promptCred]
    IN /\ req[r].pc = "add_insert"
       /\ \/ Respond(r, "500")
          \/ \E id \in Ids \ allocated :
               /\ templates' = templates @@ (id :> doc)
               /\ allocated' = allocated \cup {id}
               /\ lastSet' = lastSet @@ (id :> Fields(doc))
               /\ req' = [req EXCEPT ![r].pc = "activity", ![r].tid = id]
               /\ UNCHANGED <<activity, jobs, queued>>

\* Activity with ObjectID req.ID (the new id); then 201.
AddActivity(r) ==
    /\ req[r].pc = "activity" /\ req[r].kind = "add"
    /\ RecordActivity(r, req[r].tid, "created")

(***************************************************************************)
(* UpdateJTemplate                                                         *)
(***************************************************************************)
\* Uniqueness is checked only when req.Name differs from the loaded name,
\* and with req.Name as sent.
UpdateCheck(r) ==
    LET b == req[r].body
    IN /\ req[r].pc = "update_check"
       /\ IF b.name # req[r].copy.name /\ IsNotUniqueJTemplate(b.name, b.project)
          THEN Respond(r, "400")
          ELSE Goto(r, "update_write")

\* Every field from the body, name trimmed, written over the loaded copy.
UpdateWrite(r) ==
    LET b == req[r].body
        doc == [name |-> Trim(b.name), project |-> b.project, vars |-> b.vars,
                cred |-> b.cred, promptCred |-> b.promptCred]
    IN /\ req[r].pc = "update_write"
       /\ UpdateId(r, doc, {"name", "vars"})

\* Activity with ObjectID req.ID, the id field of the body; then 200.
UpdateActivity(r) ==
    /\ req[r].pc = "activity" /\ req[r].kind = "update"
    /\ RecordActivity(r, req[r].body.id, "updated")

(***************************************************************************)
(* PatchJTemplate                                                          *)
(***************************************************************************)
\* helpers.IsNotUniqueJTemplate(*req.Name, projectID) when a name is sent
\* and differs from the loaded one; projectID is the loaded project.
PatchCheck(r) ==
    LET n == req[r].body.name
    IN /\ req[r].pc = "patch_check"
       /\ IF n # NoName /\ n # req[r].copy.name
                /\ IsNotUniqueJTemplate(n, req[r].copy.project)
          THEN Respond(r, "400")
          ELSE Goto(r, "patch_write")

\* The fields present in the body are set on the loaded copy, which is
\* then written whole.
PatchWrite(r) ==
    LET b == req[r].body
        c == req[r].copy
        doc == [c EXCEPT !.name = IF b.name # NoName THEN Trim(b.name) ELSE @,
                         !.vars = IF b.vars # None THEN b.vars ELSE @]
        named == {f \in {"name", "vars"} :
                    IF f = "name" THEN b.name # NoName ELSE b.vars # None}
    IN /\ req[r].pc = "patch_write"
       /\ UpdateId(r, doc, named)

\* Activity with ObjectID jobTemplate.ID; then 200.
PatchActivity(r) ==
    /\ req[r].pc = "activity" /\ req[r].kind = "patch"
    /\ RecordActivity(r, req[r].tid, "updated")

(***************************************************************************)
(* RemoveJTemplate                                                         *)
(***************************************************************************)
\* RemoveId(jobTemplate.ID): not found or an error is 500.
RemoveJTemplate(r) ==
    LET t == req[r].tid
    IN /\ req[r].pc = "remove"
       /\ \/ Respond(r, "500")
          \/ /\ t \in DOMAIN templates
             /\ templates' = [x \in DOMAIN templates \ {t} |-> templates[x]]
             /\ req' = [req EXCEPT ![r].pc = "activity"]
             /\ UNCHANGED <<allocated, activity, jobs, queued, lastSet>>

\* Activity with ObjectID user.ID; then 204.
RemoveActivity(r) ==
    /\ req[r].pc = "activity" /\ req[r].kind = "remove"
    /\ RecordActivity(r, UserId, "deleted")

(***************************************************************************)
(* Launch                                                                  *)
(***************************************************************************)
\* Mutant: the prompted credential is taken without a length check.
LaunchPrepareNoLengthCheck(r) ==
    LET c == req[r].copy
        b == req[r].body
    IN /\ req[r].pc = "launch_prepare"
       /\ \/ Respond(r, "500")
          \/ /\ req' = [req EXCEPT ![r].pc = "launch_insert", ![r].runnerCred = c.cred,
                                 ![r].jobCred = IF c.promptCred THEN b.cred ELSE c.cred]
             /\ UNCHANGED <<templates, allocated, activity, jobs, queued, lastSet>>

\* The job is built from the loaded template and runnerJob is built from a
\* copy of it. With PromptCredential the body's credential id must have
\* length 24, but req.MachineCredentialID is a bson.ObjectId, 12 bytes once
\* bound (or empty), so every prompted launch answers 400. The credential,
\* project and token lookups that follow read the store and answer 500 on
\* an error.
LaunchPrepare(r) ==
    LET c == req[r].copy
    IN /\ req[r].pc = "launch_prepare"
       /\ IF c.promptCred
          THEN Respond(r, "400")
          ELSE \/ Respond(r, "500")
               \/ /\ req' = [req EXCEPT ![r].pc = "launch_insert",
                                        ![r].runnerCred = c.cred, ![r].jobCred = c.cred]
                  /\ UNCHANGED <<templates, allocated, activity, jobs, queued, lastSet>>

\* db.TerrafromJobs().Insert(job), status "new"; 500 on error.
LaunchInsert(r) ==
    /\ req[r].pc = "launch_insert"
    /\ \/ Respond(r, "500")
       \/ /\ jobs' = jobs \cup {[id |-> r, template |-> req[r].tid, cred |-> req[r].jobCred]}
          /\ req' = [req EXCEPT ![r].pc = "launch_scm"]
          /\ UNCHANGED <<templates, allocated, activity, queued, lastSet>>

\* runners.UpdateProject(project) when the project has ScmUpdateOnLaunch;
\* an error answers 500, the inserted job stays.
LaunchUpdateProject(r) ==
    /\ req[r].pc = "launch_scm"
    /\ IF ScmUpdateOnLaunch[req[r].copy.project]
       THEN \/ Respond(r, "500")
            \/ Goto(r, "launch_publish")
       ELSE Goto(r, "launch_publish")

\* jobQueue.PublishBytes(json.Marshal(runnerJob)): its result is ignored;
\* then 201.
LaunchPublish(r) ==
    /\ req[r].pc = "launch_publish"
    /\ \/ queued' = queued \cup {[job |-> r, cred |-> req[r].runnerCred]}
       \/ UNCHANGED queued
    /\ req' = [req EXCEPT ![r].pc = "done", ![r].outcome = "ok"]
    /\ UNCHANGED <<templates, allocated, activity, jobs, lastSet>>

(***************************************************************************)
(* The system                                                              *)
(***************************************************************************)
Request(r) ==
    \/ Begin(r) \/ Middleware(r)
    \/ AddCheck(r) \/ AddInsert(r) \/ AddActivity(r)
    \/ UpdateCheck(r) \/ UpdateWrite(r) \/ UpdateActivity(r)
    \/ PatchCheck(r) \/ PatchWrite(r) \/ PatchActivity(r)
    \/ RemoveJTemplate(r) \/ RemoveActivity(r)
    \/ LaunchPrepare(r) \/ LaunchInsert(r) \/ LaunchUpdateProject(r) \/ LaunchPublish(r)

Next == \E r \in Reqs : Request(r)

SpecJobTemplates == Init /\ [][Next]_vars

\* The specification JobTemplates implements: the refinement mapping is the
\* identity on the four collections and on the data; the requests, the
\* activity stream and the history lastSet are hidden.
Store == INSTANCE JobTemplateStore
            WITH Ids <- Ids, Doc <- Doc, Reqs <- Reqs, Creds <- Creds,
                 templates <- templates, allocated <- allocated,
                 jobs <- jobs, queued <- queued

(***************************************************************************)
(* Properties                                                              *)
(***************************************************************************)
\* Seen from its collections, the controller behaves as JobTemplateStore:
\* each step of any request is one atomic store operation or none; a
\* template id is never used twice, a job is created once per Launch for a
\* template that was created and never changes, and a message is queued
\* only for a stored job, whatever the interleaving of the requests' calls.
ImplementsStore == Store!SpecJobTemplateStore

\* Names are unique per project (the 400 "Terraform Job Template with this
\* Name already exists" of AddJTemplate, UpdateJTemplate, PatchJTemplate).
UniqueNamesPerProject ==
    \A t1, t2 \in DOMAIN templates :
        /\ t1 # t2
        /\ templates[t1].project = templates[t2].project
        => templates[t1].name # templates[t2].name

\* "patch will only update feilds which included in the POST body": each
\* field of a template holds what the last successful Add, Update or Patch
\* that named the field wrote, whatever other requests did meanwhile.
PatchKeepsOtherFields ==
    \A t \in DOMAIN templates : Fields(templates[t]) = lastSet[t]

\* Launch "adds the job into job queue": once a Launch has answered, the job
\* it inserted is on the queue as it was stored, with the same machine
\* credential: no job is left "new" with no runner to pick it up, and no
\* runner gets a job other than the one recorded.
LaunchedJobQueued ==
    \A j \in jobs :
        req[j.id].pc = "done" => \E m \in queued : m.job = j.id /\ m.cred = j.cred

====
