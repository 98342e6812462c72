----------------------------- MODULE ConfigInit -----------------------------
(***************************************************************************)
(* The loading of the configuration in src/util/config.go (func init), and *)
(* the start-up of tensord that uses it (main in src/tensord/main.go): the *)
(* connections to MongoDB and RabbitMQ, and the HTTP(S) server on          *)
(* GetAddress.                                                             *)
(*                                                                         *)
(* init runs once, before main: it reads /etc/tensor.conf into the pointer *)
(* Config (or makes an empty configType when the file does not exist),     *)
(* then overrides each setting by its environment variable when that is   *)
(* non-empty, or else gives it its default when the file left it empty.    *)
(* Load is one step from the state before init to the state it leaves: a  *)
(* loaded Config, an exit on a configuration error, or a panic. main then  *)
(* takes one step per call that can fail: ConnectDB, TestConnect, Serve.   *)
(*                                                                         *)
(* Data is abstracted: a setting is a key, a string value is "" (empty) or *)
(* a model value, the file's values and the environment's are drawn from   *)
(* small sets; strconv.Atoi is modelled by what it does on a numeral and   *)
(* on text it cannot parse (its error is dropped and 0 is kept). The       *)
(* -hash and -secrets flags, which print a value and exit before the file  *)
(* is read, are an input (args); -setup sets a variable nothing reads.     *)
(***************************************************************************)
EXTENDS Naturals

CONSTANTS
    DefKeys,    \* string settings with a default (ProjectsHome, Salt)
    IntKeys,    \* the timeouts, read with strconv.Atoi, default 3600
    OptKeys,    \* settings the environment may only override (MongoDB, ...)
    FlagKeys,   \* TLSEnabled and Debug: set when the variable is "true"
    Default,    \* Default[k]: the default of a setting of DefKeys
    FileVal,    \* FileVal[k]: the non-empty value a file may hold for k
    EnvVal,     \* EnvVal[k]: the non-empty value a variable may hold for k
    Numeral,    \* an environment value strconv.Atoi parses ...
    NumeralVal, \* ... and the number it denotes
    Garbage     \* an environment value strconv.Atoi rejects

ASSUME "RabbitMQ" \in OptKeys

VARIABLES
    args,     \* the flags given: a subset of {"hash", "secrets"}
    file,     \* "absent", "unreadable", "invalid", "empty" or "doc"
    doc,      \* the settings of the file when file = "doc"
    env,      \* env[k]: the environment variable of setting k ("" = unset)
    Config,   \* the pointer util.Config: NilConfig or a configuration
    status    \* "init", "loaded", "connected", "serving"; or how it ended:
              \* "exit" (a reported error), "panic", "returned" (main
              \* returned), "printed" (-hash or -secrets: printed, exit 0)

vars == <<args, file, doc, env, Config, status>>

StrKeys == {"Host", "Port"} \cup DefKeys \cup OptKeys
Keys == StrKeys \cup IntKeys \cup FlagKeys

DefaultHost == "0.0.0.0"
DefaultPort == "80"
DefaultTimeout == 3600

\* var Config *configType: a nil pointer.
NilConfig == [k \in {} |-> ""]
IsNil(c) == DOMAIN c = {}

\* configType, split by the kind of its fields.
ConfigType(strVals) ==
    [str : [StrKeys -> strVals], int : [IntKeys -> Nat], flag : [FlagKeys -> BOOLEAN]]

\* configType{}: every string empty, every number 0, every flag false.
EmptyConfig ==
    [str |-> [k \in StrKeys |-> ""], int |-> [k \in IntKeys |-> 0],
     flag |-> [k \in FlagKeys |-> FALSE]]

\* The documents yaml.Unmarshal can produce from a file.
Docs ==
    {d \in [str : [StrKeys -> {""} \cup {FileVal[k] : k \in StrKeys}],
            int : [IntKeys -> {0, 60}], flag : [FlagKeys -> BOOLEAN]] :
        \A k \in StrKeys : d.str[k] \in {"", FileVal[k]}}

\* The environment: one variable per setting ("" = unset).
Envs ==
    {e \in [Keys -> {"", "true", Numeral, Garbage} \cup {EnvVal[k] : k \in StrKeys}] :
        \A k \in Keys :
            e[k] \in CASE k \in IntKeys  -> {"", Numeral, Garbage}
                       [] k \in FlagKeys -> {"", "true"}
                       [] OTHER          -> {"", EnvVal[k]}}

\* time, _ := strconv.Atoi(s): the error is dropped, leaving 0.
Atoi(s) == IF s = Numeral THEN NumeralVal ELSE 0

TypeOK ==
    /\ args \subseteq {"hash", "secrets"}
    /\ file \in {"absent", "unreadable", "invalid", "empty", "doc"}
    /\ doc \in Docs
    /\ env \in Envs
    /\ IsNil(Config) \/ Config \in ConfigType(STRING \cup {FileVal[k] : k \in StrKeys}
                                                \cup {EnvVal[k] : k \in StrKeys}
                                                \cup {Default[k] : k \in DefKeys})
    /\ status \in {"init", "loaded", "connected", "serving", "exit", "panic", "returned",
                   "printed"}

Init ==
    /\ args \in SUBSET {"hash", "secrets"}
    /\ file \in {"absent", "unreadable", "invalid", "empty", "doc"}
    /\ doc \in IF file = "doc" THEN Docs ELSE {EmptyConfig}
    /\ env \in Envs
    /\ Config = NilConfig
    /\ status = "init"

(***************************************************************************)
(* The overrides of init, in code order, as functions of the configuration *)
(* they start from.                                                        *)
(***************************************************************************)
\* TENSOR_HOST, else "0.0.0.0" when the file left Host empty.
SetHost(c) ==
    IF env["Host"] # "" THEN [c EXCEPT !.str["Host"] = env["Host"]]
    ELSE IF c.str["Host"] = "" THEN [c EXCEPT !.str["Host"] = DefaultHost]
    ELSE c

\* TENSOR_PORT, else "80" when Host is empty.
SetPort(c) ==
    IF env["Port"] # "" THEN [c EXCEPT !.str["Host"] = env["Port"]]
    ELSE IF c.str["Host"] = "" THEN [c EXCEPT !.str["Port"] = DefaultPort]
    ELSE c

\* PROJECTS_HOME, TENSOR_SALT, the five timeouts, the MongoDB and RabbitMQ
\* settings, TLS and Debug: each setting depends only on its own inputs.
SetOthers(c) ==
    [str |-> [k \in StrKeys |->
                CASE k \in DefKeys -> IF env[k] # "" THEN env[k]
                                      ELSE IF c.str[k] = "" THEN Default[k] ELSE c.str[k]
                  [] k \in OptKeys -> IF env[k] # "" THEN env[k] ELSE c.str[k]
                  [] OTHER         -> c.str[k]],
     int |-> [k \in IntKeys |->
                IF env[k] # "" THEN Atoi(env[k])
                ELSE IF c.int[k] = 0 THEN DefaultTimeout ELSE c.int[k]],
     flag |-> [k \in FlagKeys |-> IF env[k] = "true" THEN TRUE ELSE c.flag[k]]]

\* init: -hash prints a bcrypt hash and exits 0, else -secrets prints a
\* salt and exits 0. Otherwise the file is read, then every override
\* applies to *Config. A file that cannot be read or parsed ends the
\* process (logrus.Fatal). A file that holds no YAML document leaves
\* yaml.Unmarshal nothing to decode: Config stays nil and the first
\* override dereferences it. Last, a missing ProjectsHome is created;
\* MkdirAll may fail (logrus.Fatal).
Load ==
    /\ status = "init"
    /\ \/ /\ args # {}
          /\ status' = "printed"
          /\ UNCHANGED Config
       \/ /\ args = {}
          /\ file \in {"unreadable", "invalid"}
          /\ status' = "exit"
          /\ UNCHANGED Config
       \/ /\ args = {}
          /\ file = "empty"
          /\ status' = "panic"
          /\ UNCHANGED Config
       \/ /\ args = {}
          /\ file \in {"absent", "doc"}
          /\ status' \in {"loaded", "exit"}
          /\ Config' = SetOthers(SetPort(SetHost(IF file = "doc" THEN doc ELSE EmptyConfig)))
    /\ UNCHANGED <<args, file, doc, env>>

(***************************************************************************)
(* main, after init.                                                       *)
(***************************************************************************)
\* db.Connect (not under src/) fails or not; a failure is logged with
\* Fatalln and ends the process.
ConnectDB ==
    /\ status = "loaded"
    /\ status' \in {"exit", "connected"}
    /\ UNCHANGED <<args, file, doc, env, Config>>

\* queue.TestConnect: amqp.Dial(Config.RabbitMQ) then conn.Channel(); an
\* empty URL cannot be dialled, any other may fail. A failure is logged
\* with Fatalln and ends the process.
TestConnect ==
    /\ status = "connected"
    /\ status' \in IF Config.str["RabbitMQ"] = "" THEN {"exit"} ELSE {"exit", "serving"}
    /\ UNCHANGED <<args, file, doc, env, Config>>

\* r.RunTLS(GetAddress(), cert, key) when TLSEnabled, else r.Run(GetAddress()):
\* a server that listens never returns (no further step); one that cannot
\* (a port in use, an address such as "8080:", RunTLS without a
\* certificate) returns its error, which only builds a log entry
\* (logrus.WithFields without a log call): main returns and the process
\* ends with status 0, unreported.
Serve ==
    /\ status = "serving"
    /\ status' = "returned"
    /\ UNCHANGED <<args, file, doc, env, Config>>

Next == Load \/ ConnectDB \/ TestConnect \/ Serve

SpecConfigInit == Init /\ [][Next]_vars

(***************************************************************************)
(* Properties                                                              *)
(***************************************************************************)
\* The value a setting is meant to get: its environment variable when set,
\* else the file's value when non-empty, else its default.
Intended(k, default) ==
    IF env[k] # "" THEN env[k] ELSE IF doc.str[k] # "" THEN doc.str[k] ELSE default

\* The same rule for a timeout, where 0 is init's own "not set": a value of
\* the environment that is not a number sets nothing.
IntendedTimeout(k) ==
    IF env[k] = Numeral THEN NumeralVal
    ELSE IF doc.int[k] # 0 THEN doc.int[k] ELSE DefaultTimeout

\* The configuration every setting meant: the strings, the timeouts, and the
\* flags (set by "true" in the environment, else as the file says).
IntendedConfig ==
    [str |-> [k \in StrKeys |->
                Intended(k, CASE k = "Host"    -> DefaultHost
                              [] k = "Port"    -> DefaultPort
                              [] k \in DefKeys -> Default[k]
                              [] OTHER         -> "")],
     int |-> [k \in IntKeys |-> IntendedTimeout(k)],
     flag |-> [k \in FlagKeys |-> env[k] = "true" \/ doc.flag[k]]]

\* tensord either prints what a flag asks for, or stops on an error it
\* reports, or goes on with the configuration the environment, else the
\* file, else the defaults give, for every setting init reads: the listen
\* address (GetAddress, Host:Port) and the job and token timeouts included.
ServesIntendedConfig ==
    status # "init" =>
        \/ status \in {"exit", "printed"}
        \/ /\ status \in {"loaded", "connected", "serving"}
           /\ Config = IntendedConfig

====
