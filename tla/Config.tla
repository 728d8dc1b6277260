------------------------------- MODULE Config -------------------------------
(***************************************************************************)
(* kconf/config.go as pure operators: Load starts from the defaults, lets  *)
(* the YAML file override them and KINZ_* variables override both.         *)
(*                                                                         *)
(* A value is abstracted to the class of its text: a word, a negative, a   *)
(* small (1 .. 2^32-1) or a huge (2^32 .. 2^63-1) number, or a duration    *)
(* such as "5s"; these are the classes the parsers tell apart.             *)
(***************************************************************************)
EXTENDS Naturals, Sequences, FiniteSets

Texts == {"word", "negative", "small", "huge", "duration"}

\* The fields of Config, in the order in which applyEnv reads their variables.
Fields == <<"Name", "Host", "Port", "MaxConn", "MaxPacketSize", "WorkerPoolSize",
            "MaxWorkerTaskLen", "WriteQueueSize", "WriteTimeout">>

Field == {Fields[i] : i \in DOMAIN Fields}

KindOf == [k \in Field |->
    CASE k \in {"Name", "Host"} -> "string"
      [] k \in {"Port", "MaxConn", "WriteQueueSize"} -> "int"
      [] k = "WriteTimeout" -> "Duration"
      [] OTHER -> "uint32"]

\* What a field accepts from the environment: Atoi, ParseUint(v, 10, 32) and
\* ParseDuration, which insists on a unit.
Parses(kind) ==
    CASE kind = "string" -> Texts
      [] kind = "int" -> {"negative", "small", "huge"}
      [] kind = "uint32" -> {"small"}
      [] kind = "Duration" -> {"duration"}

\* What it accepts from the file: a Duration may be a number of nanoseconds.
UnmarshalYAML(kind) ==
    Parses(kind) \cup (IF kind = "Duration" THEN Parses("int") ELSE {})

\* Values for some of the fields, and for at most n of them.
AnySettings == UNION {[S -> Texts] : S \in SUBSET Field}
Settings(n) ==
    UNION {[S -> Texts] : S \in {T \in SUBSET Field : Cardinality(T) <= n}}

Default == [k \in Field |-> "default"]

\* A file: the outcome of reading it, and the fields it sets; without a path,
\* nothing is read.  The environment: the variables that are set.
Files(settings) ==
    {[read |-> o, sets |-> <<>>] : o \in {"none", "missing", "unreadable", "malformed"}}
        \cup {[read |-> "ok", sets |-> s] : s \in settings}

\* A *Config is a set of at most one: {} is the nil returned with an error.
\* yaml.Unmarshal over the defaults:
ApplyFile(cfg, file) ==
    IF \A k \in DOMAIN file.sets : file.sets[k] \in UnmarshalYAML(KindOf[k])
    THEN {[k \in DOMAIN cfg |-> IF k \in DOMAIN file.sets THEN file.sets[k] ELSE cfg[k]]}
    ELSE {}

\* One variable: absent, refused, or assigned.  An error ends applyEnv.
ApplyVar(cfgs, env, k) ==
    IF k \notin DOMAIN env THEN cfgs
    ELSE {[cfg EXCEPT ![k] = env[k]] : cfg \in {c \in cfgs : env[k] \in Parses(KindOf[k])}}

applyEnv(cfgs, env) ==
    LET after[i \in 0..Len(Fields)] ==
            IF i = 0 THEN cfgs ELSE ApplyVar(after[i - 1], env, Fields[i])
    IN  after[Len(Fields)]

\* Mutant: the file is read after the environment.
LoadEnvFirst(file, env) ==
    UNION {CASE file.read = "ok" -> ApplyFile(cfg, file)
             [] file.read \in {"none", "missing"} -> {cfg}
             [] OTHER -> {} : cfg \in applyEnv({Default}, env)}

Load(file, env) ==
    CASE file.read = "ok" -> applyEnv(ApplyFile(Default, file), env)
      [] file.read \in {"none", "missing"} -> applyEnv({Default}, env)
      [] OTHER -> {}

\* What Load should return: each field with the value of the last source that
\* sets it, or nothing if a source cannot be read or one of its values parsed.
Expected(file, env) ==
    LET valid == /\ file.read \notin {"unreadable", "malformed"}
                 /\ \A k \in DOMAIN file.sets : file.sets[k] \in UnmarshalYAML(KindOf[k])
                 /\ \A k \in DOMAIN env : env[k] \in Parses(KindOf[k])
        wanted == [k \in Field |->
                      CASE k \in DOMAIN env -> env[k]
                        [] k \in DOMAIN file.sets \ DOMAIN env -> file.sets[k]
                        [] OTHER -> "default"]
    IN  IF valid THEN {wanted} ELSE {}

\* The files that set one field at most and the environments that set two at
\* most for which Load returns something else.
LoadFaults ==
    {in \in Files(Settings(1)) \X Settings(2) : Load(in[1], in[2]) # Expected(in[1], in[2])}
=============================================================================
