# TLA+ models of tensor

This directory holds TLA+ models of the tensor operations console
(`src/`), the TLC configurations that check them, and `PROJECT.json`,
which lists every component, every run, the mutant that shows each
checked property can fail, the source lines each definition models, the
findings and the hazards.

## 1. Inventory of the system

The repository is a Go web service (gin + MongoDB + RabbitMQ). Most of it
is request handlers that read and write MongoDB documents. The parts in
`src/` are listed below.

| Component | Source | State it keeps | Operations |
|---|---|---|---|
| Role catalog | `rbac` constants (outside `src/`), descendant lists in `acl.go` | none (static) | role names, implied roles |
| Inventory permission evaluator | `src/rbac/inventory.go` | none of its own; reads organizations, teams and the inventory document | `inventoryRead`, `inventoryWrite`, `inventoryUse` |
| Grant store | MongoDB `organizations`, `teams`, resource `roles` arrays | role assignments, team members | changed by sharing handlers outside `src/` |
| Credential access list | `src/api/common/credentials/acl.go` | per-request map `allaccess` | `AccessList` |
| Terraform job templates | `src/api/terraform/jtemplates/controller.go` | `terraform_job_templates`, `terraform_jobs`, `activity_stream` collections; gin context copy of the template | `Middleware`, `AddJTemplate`, `UpdateJTemplate`, `PatchJTemplate`, `RemoveJTemplate`, `Launch`; read-only `GetJTemplate(s)`, `ActivityStream`, `Jobs`, `LaunchInfo`, `ObjectRoles` |
| Job queue | `src/queue/queue.go`, `src/api/queue.go` | RabbitMQ durable queues | `TestConnect`, `Publish`, `QueueStats` |
| Configuration | `src/util/config.go` | global `Config` | `init` (file, environment, defaults) |
| Secret cipher | `src/util/cipher.go` | none | `Cipher`, `Decipher` |
| Self-upgrade | `src/util/upgrade.go` | global `UpdateAvailable`, temporary file, installed binary | `CheckUpdate`, `DoUpgrade` |
| Legacy access keys | `src/api/project_old/keys.go` | access keys, events | `AddKey`, `UpdateKey`, `RemoveKey` |
| Daemon | `src/tensord/main.go` | process | start-up sequence, background runners |

How they interact. Every handler runs in its own goroutine, one per HTTP
request; they share nothing in memory and meet only in MongoDB. A handler
is preceded by a middleware that loads the object from MongoDB into the gin
context, so the handler works on a copy read before it started. Permission
checks (`rbac`) read the organization and team collections at evaluation
time but scan the role array of the document the caller already loaded.
`Launch` inserts a job and hands it to the runners through the job queue
(RabbitMQ); the runners (`exec/ansible`, `exec/terraform`) are not in
`src/`.

What is hard:

* concurrency between requests: every check-then-act (uniqueness,
  existence, permission) is two MongoDB operations with other requests in
  between, and every update writes back a whole document read earlier;
* MongoDB query semantics: a filter on a field the documents do not
  have (`"organization_id"` on organizations), a key with a typo
  (`"_id:"`), and `Count()` that returns 0 on an error;
* partial failure: handlers do several writes (job, SCM update, queue
  publish, activity) and stop at the first failure without undoing the
  earlier ones;
* ordering: Go map iteration order under pagination, a struct copied
  before it is finished;
* boundary values: empty ciphertexts, unparsable numbers, empty tags.

Properties that make each component correct:

* evaluator: agrees with the role catalog (spec.md 4.1, 4.3, 8):
  organization admins have every capability, team grants reach members;
  capability order (Write or Use implies Read); monotone in grants;
  fail-closed, and no allow on a grant that did not exist while the
  request ran;
* access list: lists every user-type grantee exactly once and fails only
  when a user lookup fails (spec.md 4.4, 7);
* job templates: names unique per project; a patch changes only the
  fields in its body; every change of a template appears in its activity
  stream; a launched job is either queued or reported failed, never left
  new and unqueued; the queued job carries the credentials of the job;
* queue: a publish reported successful is on the durable queue;
* configuration: environment beats file beats default, for each key;
* cipher: `Decipher(Cipher(t)) = t` for every text, never a panic (not
  modelled: see section 4);
* upgrade: the installed binary is the old one or a complete release
  binary, never a partial file or an error page.

## 2. Plan

Modules in the order of their importance (the permission evaluator is the
subsystem spec.md is about):

1. `RBACSpec` (done): the abstract `canAccess` of spec.md 4.1/4.3 as
   operators over a grant store.
2. `InventoryRBAC` + `MC_InventoryRBAC` (done): the three evaluator
   functions as request processes against a grant store that concurrent
   sharing operations change; compared with `RBACSpec`.
3. `CredentialAccessList` (done): `AccessList` over the organization's and
   the credential's role arrays, the nil map, per-user lookups that can
   fail in map order; compared with the aggregator of spec.md 4.4.
4. `JobTemplates` (done): Middleware + Add/Update/Patch/Remove/Launch as
   concurrent request processes with one step per MongoDB operation;
   uniqueness, lost updates, removal, orphaned jobs; and the abstract
   `JobTemplateStore` (done), which it is checked to implement.
5. `JobQueue`: `Launch` publishes through `queue.OpenJobQueue()`, which is
   not under `src/`, so the hand-off is modelled inside `JobTemplates` (a
   publish whose result is ignored and which may be lost); `queue.Publish`
   has no caller under `src/`.
6. `ConfigInit` (done): `init` as one step from a file and an environment
   to the configuration it leaves, checked against the precedence the
   code follows for every other setting.
7. `Upgrade` (done): `DoUpgrade` steps with failures, write-back of file
   data and a machine crash; never a partial binary.
8. `ConfigInit` start-up steps of `main` (done).
9. `Cipher` and `AccessKeys`: not modelled (section 4).

## 3. What is modelled now

### RBACSpec

The promised evaluator: `CanAccess(u, i, cap, orgR, invR, teamR)` is the
disjunction of the super-user flag, the auditor flag for Read, the
organization check (admin for every capability, member or auditor for
Read) and a direct or team grant whose implied roles include the
capability. It models no code; the properties of `InventoryRBAC` compare
the code with it.

### InventoryRBAC

State: `orgRoles[o]` (the `roles` array of organization `o`, user
grantees), `invRoles[i]` (`inventory.GetRoles()`), `teamRoles[t]` (the
`roles.user_id` values of team `t`), `req[r]` (a running evaluation) and
`seen[r]`, a history variable that records what the evaluator, run at
once, would answer to `r`'s question after each step while `r` runs.

Operators translate the code:

* `FlagGrants` the first `if` of each function (auditors only in
  `inventoryRead`);
* `OrgAdminCount` the organization query. `OrgIdIs` gives the meaning of
  its filter on `"organization_id"`: an organization document is keyed by
  `_id` (`credentials/acl.go:23` loads it with `FindId`) and has no such
  field, so the filter compares null with the id and matches nothing.
  `ArrayFieldMatches` gives the meaning of `"roles.user_id"` and
  `"roles.role"` on an array (some element has the user, some element has
  the role); it is never reached;
* `CapRoles`, `UserGrantFound`, `TeamIds` the loop over `GetRoles()`;
* `TeamCount` the team query, with `IdIn` giving the meaning of a filter
  on the key `"_id:"`, which a team document does not have (missing
  field = null, and the id list holds no null);
* `CountOrZero` mgo's `Count()` on an error: 0, logged, go on.

Actions: `Begin` (the caller passes the user and the inventory document
it loaded), `CheckFlags`, `CheckOrg`, `ScanRoles`, `CheckTeams` (each query
may fail), and the sharing operations `GrantOrgRole`, `RevokeOrgRole`,
`GrantInvRole`, `RevokeInvRole`, `AddTeamMember`, `RemoveTeamMember`
(the handlers are outside `src/`; modelled from spec.md section 3).

### Runs

| Run | Expect | What it shows |
|---|---|---|
| `rbac_store` | pass | Over every store with at most 2 entries per document (50k states), Write or Use implies Read, and adding a grant never denies what was allowed. |
| `rbac_requests` | pass | One evaluation interleaved with sharing operations and failing queries (1.2M states): it never allows unless the evaluator would have at some instant of the request (no stale allow, fail-closed). |
| `rbac_team_grants` | violation | A member of a team granted admin is denied everything. |
| `rbac_org_admin_override` | violation | `OrgAdminOverride`: u1 is made admin of the organization that owns the inventory, and all three functions deny u1 (the organization query matches no document). |

With the organization and team queries both matching nothing, an
evaluation decides only on the flags and on the document the caller
loaded, so the checks of the request run are about that snapshot and about
failing queries. spec.md 4.3 also lets organization Members and Auditors
read; the code never asks for those roles, which a single call shows, so
no run is spent on it.

Bounds. Three users (u3 super user, u2 system auditor, u1 plain), one
organization, one inventory, one team of that organization. Two entries
per document are enough for every two-entry interaction the properties
are about (the monotonicity mutant needs two entries of one user). The request run uses
one entry per document and one request: every violation of the
request-level properties needs only one request and one or two sharing
steps, and a second request would only interleave independently (the
evaluations share nothing but the store).

Fairness. None, here or in any module. Every property checked is a safety
property or a refinement of a safety specification. No code in `src/`
waits: every handler step of every module is enabled whenever its request
is at that step (a failure of a store call is one of its alternatives, not
a state it blocks in), so "every request eventually answers" would follow
from weak fairness by the shape of the model alone, whatever the code did.
The waits that exist are in MongoDB, RabbitMQ and the runners, none of
which is under `src/`.

Not checked by a run: `inventoryWrite` accepts `InventoryUpdate` and
`inventoryUse` does not (inventory.go 89-96, 139-146), against spec.md 4.1
where Update implies Use and Read and never Admin. The model keeps the
code's role sets (`CapRoles`), so every property above is about the code
as it is.

### CredentialAccessList

State: `orgRoles` and `credRoles` (the `roles` arrays of the credential's
organization and of the credential, user- and team-type grantees),
`users` (the ids in the users collection) and `req[r]`, a running
`AccessList`: the credential the Middleware loaded, the organization it
read, the map `allaccess` as a function whose domain is the keys holding a
non-nil `*AccessType`, the keys the range has not reached, the `usrs`
slice, the outcome (`ok`, `error` = 500 written by the handler, `panic`)
and whether a read of the store failed.

Actions: `Begin` (line 20), `LoadOrg` (22-31, may fail), `IndirectAccess`
(35-103) and `DirectAccess` (105-157), each one in-memory loop over a
role array, `LookupUser` (one iteration of the range at 159-174, any key
since Go's map order is random, the read may fail or the user be gone),
`Respond` (176-190). `NilDeref` is the nil pointer dereference of
`allaccess[v.GranteeID].IndirectAccess` on a map that is never made; since
the code never stores into the map, `LookupUser` and `Respond` are reached
only with an empty map. Environment: granting and revoking roles on both
documents and removing users (handlers outside `src/`).

| Run | Expect | What it shows |
|---|---|---|
| `acl_fails_only_on_store_error` | violation | One grant of organization admin to a user, then an access list request: every read succeeds and the handler panics. |

Also seen while modelling, not a run: the credential loop lists only
`CredentialAdmin` and `InventoryUse` grantees, so a user holding only a
credential read role is missing from an access list that spec.md 4.4
says lists grantees of any resource role.

Bounds: two users, one team, one request, one role entry per document:
the panic needs one entry.

### JobTemplates

State: `templates` (the `terraform_job_templates` collection, id to
document), `allocated` (ids `bson.NewObjectId` has handed out), `activity`
(the `activity_stream` entries: object id and what happened), `jobs` and
`queued` (the `terraform_jobs` collection and the job queue), `req[r]` (a
running request: handler, template id, the Middleware's copy, body,
credentials of the job and of `runnerJob`, response) and `lastSet`, a
history variable holding, per template and field, what the last
successful write that named the field stored.

A document keeps the fields the properties tell apart: name (a base name,
possibly with blanks that `strings.Trim` removes), project, vars, machine
credential and the prompt-for-credential flag.

Actions, one per MongoDB operation in code order: `Begin` (the request and
its body), `Middleware` (`FindId`, 404), `AddCheck` (uniqueness,
`IsNotUniqueJTemplate`), `AddInsert`, `AddActivity`; `UpdateCheck`
(uniqueness only when the name changes, with the untrimmed name),
`UpdateWrite` (`UpdateId` of the whole copy, trimmed name), `UpdateActivity`
(ObjectID = the body's `id`); `PatchCheck`, `PatchWrite`, `PatchActivity`;
`RemoveJTemplate`, `RemoveActivity` (ObjectID = the user's id);
`LaunchPrepare` (job and `runnerJob` built from the copy; a template
with `PromptCredential` always answers 400, since line 844 asks the 12-byte
`bson.ObjectId` of the body for length 24; then the credential, project
and token lookups),
`LaunchInsert`, `LaunchUpdateProject`, `LaunchPublish` (result ignored,
may be lost). Every store operation may fail; the handler then answers
500 and stops, except activity inserts, which are only logged.
`PatchCheck` calls `helpers.IsNotUniqueJTemplate`, a package outside
`src/`; it is modelled as the same name-and-project count query as the
controller's own `IsNotUniqueJTemplate`, which is why that operator is
marked as modelled from the spec.

| Run | Expect | What it shows |
|---|---|---|
| `jt_store` | pass | Two concurrent requests of any handler (6.3M states, about a minute). `ImplementsStore`: seen from its collections the controller implements `JobTemplateStore` (below): every step is one atomic store operation or none, so a removed template never reappears (an Update or Patch that loaded it gets "not found" from `UpdateId`), an id is never reused, a job is created once, for a template that was created, and a message is queued only for a stored job. `TypeOK` includes that every stored or queued job carries a machine credential id, never the empty id of a body (lines 843-851). |
| `jt_duplicate_names` | violation | Two `AddJTemplate` with the same name both pass the check and both insert. |
| `jt_lost_update` | violation | A Patch that loaded the template before a concurrent Update writes its copy back and undoes the Update's vars. |
| `jt_orphan_job` | violation | `Launch` inserts the job, `UpdateProject` fails, 500: the job stays new and is on no queue. With no SCM update the same property fails on a lost publish (line 970 ignores the result). |

`JobTemplateStore` is the abstract specification: the collections
`templates` (id to document), `allocated` (every id ever created), `jobs`
and `queued`, and five atomic operations: `CreateTemplate` under an id
never used, `ReplaceTemplate` and `RemoveTemplate` of a stored template,
`CreateJob` for an allocated template, `Enqueue` of a stored job.
`JobTemplates` instantiates it `WITH` the refinement mapping spelled out:
the identity on the four collections and on the constants; requests, the activity stream and the last-set history
are hidden. A step that changes no collection (checks, activity, a
response) is a stuttering step. The refinement holds whatever the
interleaving because each handler writes with one MongoDB call per
collection; what it cannot say is the check-then-act races, which are
checked by the violation runs below. Mutant: `UpdateId` as an upsert
(a write of a removed template recreates it).

Bounds: three template ids (one stored at the start, one for each request
that adds), two names (each with and without blanks), two projects (one
with SCM update on launch, one without), two values of vars, two
credentials, two requests. Two requests are what every property here needs:
duplicates, lost updates and a removal racing an update are two-request
interleavings; the launch properties need one. The run stops when both
requests have answered, so it is run without the deadlock check.

### ConfigInit (`src/util/config.go`)

`init` runs once, before `main`, so the module has a step `Load`
from the state before it (variables `args`, `file`, `doc`, `env`; `Config`
nil, `status = "init"`) to the state it leaves: `status` is `printed`
(`-hash` or `-secrets`: a value is printed and the process exits 0 before
the file is read), `exit` (the file cannot be read or parsed, or the
projects directory cannot be created: `logrus.Fatal`), `panic`, or
`loaded` with `Config`. `main` (`src/tensord/main.go`) follows with one step per call
that can fail: `ConnectDB` (MongoDB, `Fatalln` on error), `TestConnect`
(`src/queue/queue.go`: dial `Config.RabbitMQ`, which cannot succeed with
an empty URL, then open a channel) and `Serve`: a server that listens never
returns; one that cannot listen (an address such as
`8080:`, a port in use) returns an error that main puts into
`logrus.WithFields` without ever logging it, so main returns and the
process exits with status 0 (`returned`), unreported. `file` is `absent` (line 93: an empty `configType`),
`unreadable`, `invalid`, `empty` (a file with no YAML document:
`yaml.Unmarshal` decodes nothing into `&Config`, which stays nil, and line
110 dereferences it) or `doc`. `Config` is a record of three functions, one
per kind of field. The overrides are operators applied in code order:
`SetHost` (110-114), `SetPort` (116-120, with the code's assignment of
`TENSOR_PORT` to `Host` and its guard on `Host`), and `SetOthers` for the
settings that each depend only on their own inputs: defaults for
`ProjectsHome` and `Salt`, the timeouts through `Atoi` (error dropped, so
unparsable text is 0), the MongoDB, RabbitMQ and SSL settings, which only
the environment overrides, and the two flags, set by the value `"true"`.

| Run | Expect | What it shows |
|---|---|---|
| `config_listen_address` | violation | `ServesIntendedConfig`: tensord prints what a flag asks for, exits on an error it reports, or goes on with the configuration the environment, else the file, else the defaults give, for every setting. With neither the file nor the environment giving a port, the listen address `GetAddress()` is `0.0.0.0:`: the port default of line 119 is guarded by `len(Config.Host) == 0`, which never holds after line 113. The same property fails for a set `TENSOR_PORT`, which is written to `Host`, for a file without a document, which panics, and, checked on the timeouts alone, for a `TENSOR_*_TIMEOUT` that `strconv.Atoi` rejects: the timeout becomes 0, which init itself treats as unset when it comes from the file (line 137), instead of the file's value or 3600. The other string settings and the flags, checked alone, follow the rule. |

Bounds: one setting of each kind besides `Host` and `Port` (each is
computed by the same code from its own inputs), each string input empty or
one value, the timeout from the file 0 or 60 and from the environment
unset, a numeral or unparsable text, and each set of the two printing
flags: 26,112 initial states, every combination of flags, file kind and
environment.

### Upgrade (`src/util/upgrade.go`)

`DoUpgrade` (after `CheckUpdate`) run by each of a set of processes, and
the file system under them. Per process `p`: `pc[p]` (the step, or
`done`, `failed`, `panic`, `crashed`), `available[p]` (its
`UpdateAvailable`), `body[p]` (the HTTP response body) and `fd[p]` (the
inode its temporary file descriptor refers to). The file system is inodes
with a content (`data`) and whether it has reached the disk (`durable`),
and two paths: `tmpPath` (the fixed `os.TempDir()/hilbertspace-upgrade`,
or none) and `binPath` (the binary). One action per call that can fail:
`CheckUpdate` (list releases; a tag whose first character is cut: `v2`
gives 2, a plain `2` gives nothing that equals a version, an empty tag
panics on the slice), `FindAsset`, `OpenTmp` (`O_CREATE|O_TRUNC`: the
file at the path, truncated even when another process has it open, or a
new inode), `Download` (any HTTP status is accepted, so the body is the
release binary or an error page), `Copy` (through the descriptor; a broken
transfer leaves a partial file), `FindBinary`, `Rename` (atomic; it moves
whatever the temporary path names, and fails when another process has
already moved it). The code never calls `Sync` or `Close`, so `Writeback`
may make an inode durable at any time, and `Crash` (a machine crash, at
any time) leaves an inode that is not durable with its content, empty, or
partial. `UpdateAvailable` is a package variable, but the processes are
separate programs, so each has its own.

| Run | Expect | What it shows |
|---|---|---|
| `upgrade_install` | violation | `InstalledBinaryRunnable`: whatever fails, interleaves or crashes, the binary is complete and no older than the running one. TLC's trace installs release 1 over the running 2 (line 105 compares tags with `!=`). With only newer releases, one process and no crash, the property still fails: an error page is renamed over the binary (line 49 copies the body without checking `resp.StatusCode`). With only complete newer binaries and no crash it fails for two processes: the second's `O_TRUNC` empties the file the first has downloaded, and the first renames the empty file over the binary. A crash after a rename, before write-back, fails it as well. |

Bounds: three versions with the running one in the middle (an older, the
same and a newer release), the three tag forms, two processes (the fewest
that share the temporary path; each opens it once, so three inodes
suffice). Nothing restarts an upgrade after a crash. 2,706 states reach
the violation; the whole space, without the property, is 32,119 states.

## 4. Not modelled, and why

Four hazards of `PROJECT.json` have no property. Each has its reason there,
in short:
* `controller.go:615`: neither the code nor spec.md says whether a job
  for a template removed during its Launch is wrong. `JobTemplateStore`
  states what the code does permit: a job for any template that was
  created.
* `queue.go:76`: `Publish` has no caller in `src/`.
* The cipher (two hazards) is left out for the reasons below.

* `RemoveJTemplate` and `UpdateJTemplate` record their activity under the
  user's id and the body's id, so a template's activity stream misses them;
  the model records the entries, and a unit test of `ActivityStream`
  after a remove shows it as well, so no run is spent on it.
* The read-only handlers (`GetJTemplate(s)`, `ActivityStream`, `Jobs`,
  `LaunchInfo`, `ObjectRoles`, `QueueStats`) change no state; pagination
  arithmetic (`util.NewPagination`) is not in `src/`.
* The runners `tensord/main.go` starts (`exec/ansible`, `exec/terraform`)
  and `db.Connect` are not in `src/`; their effect on `main` is the
  success or failure of one step.
* `Cipher`/`Decipher` (`src/util/cipher.go`) have no caller under `src/`.
  Their flaws (an empty or short ciphertext sliced without a length check,
  the salt used as the key) show on a single call, which a unit test
  reaches directly; AES itself is out of TLC's reach, and a round trip over
  an abstract cipher would hold by construction.
* `src/api/project_old` (legacy access keys) imports packages that do not
  exist in the repository and is not built; it is left out.
* Logging, JSON rendering and HTTP status codes are left out except where
  a property is about whether a request failed.
* Organization role grants to teams: the organization query matches no
  document at all, so they cannot change any evaluator answer.
