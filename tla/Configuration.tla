---------------------------- MODULE Configuration ----------------------------
(***************************************************************************)
(* The settings of the program and of the graph editor:                    *)
(* application/configuration, the start of the server that migrates the    *)
(* files of older versions, and the requests that change them.  A request  *)
(* loads all settings of its scope, changes one, asks for a confirmation   *)
(* when a risky one differs, and saves all of them: a temporary file is    *)
(* written and takes the place of the settings file.  No lock is held, and *)
(* the temporary file has one name for all.  The scope "graph" also holds  *)
(* the runtime defaults of the start node, which live in the workspace     *)
(* state of the service and not in the file.                               *)
(*                                                                         *)
(* A value is a number, 0 the default.  The scope "project", whose values  *)
(* are all in the workspace state, and the backup of a migrated file,      *)
(* which nothing reads, are left out.                                      *)
(***************************************************************************)
EXTENDS Naturals

CONSTANTS
    Admins,             \* the clients that change settings, one request each at a time
    MaxSettingChanges,  \* bound: requests that change settings
    MaxKills            \* bound: crashes of the server

ASSUME ConfigurationAssumption == MaxSettingChanges \in Nat /\ MaxKills \in Nat

VARIABLES
    file,       \* the settings file of each scope
    temp,       \* the temporary file beside it
    runtime,    \* initial_variables and browser_config of the start node
    created,    \* server.workbench_service was created
    server,     \* "down", or how far its start is: "program", "graph", "up"
    legacy,     \* the policy that the start found in a legacy file
    admin,      \* the requests of the clients
    confirmed,  \* history: the values of the risky setting that were confirmed
    changes,
    kills

confVars == <<file, temp, runtime, created, server, legacy, admin, confirmed, changes, kills>>

FileScopes == {"program", "graph"}
InFile(scope) == IF scope = "program" THEN {"plain", "risky", "limits"} ELSE {"policy"}
Settings == {"plain", "risky", "limits", "policy", "runtime"}
ScopeOf(s) == IF s \in InFile("program") THEN "program" ELSE "graph"

Values == [Settings -> Nat]
Defaults == [s \in Settings |-> 0]

\* The value of "limits" (network_defaults.response_limits) with both limits
\* zero, which was the default of an earlier version; now there is none.
ZeroLimits == 1

\* What a file holds: nothing, the beginning of a document, a document of an
\* older version (of the program, with the policy in it), or a current one.
Contents == [format : {"missing", "torn", "legacy", "current"}, values : Values]
Without(format) == [format |-> format, values |-> Defaults]
Document(values, scope) ==
    [format |-> "current",
     values |-> [s \in Settings |-> IF s \in InFile(scope) THEN values[s] ELSE 0]]

Rest == [at |-> "rest", scope |-> "program", asked |-> {}, values |-> Defaults,
         into |-> "temp", alone |-> FALSE, blind |-> FALSE]
AdminStates ==
    [at : {"rest", "open", "write", "replace", "entry"},
     scope : FileScopes,
     asked : SUBSET Settings,  \* what it is to change
     values : Values,          \* what it saves
     into : {"temp", "file"},  \* which of the two it has open
     alone : BOOLEAN,          \* history: no other request ran since it came
     blind : BOOLEAN]          \* history: it loaded before the service existed

OldValues == [s \in Settings |-> IF s \in {"runtime", "limits"} THEN 0 ELSE 1]
OldProgram == [format |-> "legacy", values |-> OldValues]

\* The file of a current version from before the limits had no default.
EarlyProgram == Document([OldValues EXCEPT !["limits"] = ZeroLimits], "program")

\* A new installation, or one of an earlier version.
ConfigurationInit ==
    /\ file \in {[program |-> p, graph |-> Without("missing")] :
                    p \in {Without("missing"), OldProgram, EarlyProgram}}
    /\ temp = [scope \in FileScopes |-> Without("missing")]
    /\ runtime = 1 /\ created = FALSE
    /\ server = "down" /\ legacy = 0
    /\ admin = [c \in Admins |-> Rest]
    /\ confirmed = {} /\ changes = 0 /\ kills = 0

-----------------------------------------------------------------------------
(* The start: migrate_configuration_storage.                               *)

ReadLegacy ==
    /\ server = "down" /\ server' = "program"
    /\ legacy' = IF file["program"].format = "legacy" THEN file["program"].values["policy"] ELSE 0
    /\ UNCHANGED <<file, temp, runtime, created, admin, confirmed, changes, kills>>

\* _replace_legacy_response_limit_defaults
WithoutZeroLimits(values) == [values EXCEPT !["limits"] = IF @ = ZeroLimits THEN 0 ELSE @]

\* A file that cannot be read is taken for an older one without settings, and
\* those have no limits. Limits of zero in a current file are taken for the
\* earlier default, at every start.
MigrateProgram ==
    /\ server = "program" /\ server' = "graph"
    /\ file' = IF file["program"].format = "missing" THEN file
               ELSE [file EXCEPT !["program"] =
                        Document(WithoutZeroLimits(@.values), "program")]
    /\ UNCHANGED <<temp, runtime, created, legacy, admin, confirmed, changes, kills>>

\* The policy comes from the legacy file of the program.
MigrateGraph ==
    /\ server = "graph" /\ server' = "up"
    /\ file' = IF \/ file["graph"].format = "current"
                  \/ file["graph"].format = "missing" /\ legacy = 0
               THEN file
               ELSE [file EXCEPT !["graph"] =
                        Document([Defaults EXCEPT !["policy"] = legacy], "graph")]
    /\ UNCHANGED <<temp, runtime, created, legacy, admin, confirmed, changes, kills>>

-----------------------------------------------------------------------------
(* The requests.                                                           *)

Stands(c, place) == admin[c].at = place
Pending(c) == ~Stands(c, "rest")
Moves(c, upd) == admin' = [admin EXCEPT ![c] = upd]

\* get_entrypoint_runtime: nothing while the service does not exist.
SeenRuntime == IF created THEN runtime ELSE 0

\* ConfigurationService._load_values: what cannot be read is the default.
LoadValues(scope) ==
    IF scope = "program" THEN file[scope].values
    ELSE [file[scope].values EXCEPT !["runtime"] = SeenRuntime]

\* _collect_high_risk_changes
NeedsConfirmation(before, after) == before["risky"] # after["risky"]

Come(c, scope, targets, values) ==
    LET alone == \A d \in Admins : ~Pending(d)
    IN  /\ server = "up" /\ ~Pending(c)
        /\ admin' = [d \in Admins |->
              IF d = c
              THEN [at |-> "open", scope |-> scope, asked |-> targets, values |-> values,
                    into |-> "temp", alone |-> alone, blind |-> ~created]
              ELSE [admin[d] EXCEPT !.alone = FALSE]]
        /\ UNCHANGED <<file, temp, runtime, created, server, legacy, kills>>

\* What a client asks for: a value that nothing had yet, or no bytes at all.
NewValues(s) == {changes + 2} \cup (IF s = "limits" THEN {ZeroLimits} ELSE {})

\* apply: one that lacks its confirmation is refused.
ApplyChange(c, s, value, confirm) ==
    LET before == LoadValues(ScopeOf(s))
        after == [before EXCEPT ![s] = value]
    IN  /\ changes < MaxSettingChanges /\ changes' = changes + 1
        /\ NeedsConfirmation(before, after) => confirm
        /\ confirmed' = IF confirm THEN confirmed \cup {after["risky"]} ELSE confirmed
        /\ Come(c, ScopeOf(s), {s}, after)

\* reset: the defaults need no confirmation.
Reset(c, scope) ==
    /\ changes < MaxSettingChanges /\ changes' = changes + 1
    /\ Come(c, scope, {s \in Settings : ScopeOf(s) = scope}, Defaults)
    /\ UNCHANGED confirmed

\* Others that save the same scope and have the temporary file open.
Writing(c) == {d \in Admins \ {c} : Stands(d, "write") /\ admin[d].scope = admin[c].scope}

\* BUG PATTERN: the settings file itself is written.
FaultyOpenTemp(c) ==
    /\ Stands(c, "open")
    /\ file' = [file EXCEPT ![admin[c].scope] = Without("torn")]
    /\ Moves(c, [admin[c] EXCEPT !.at = "write", !.into = "file"])
    /\ UNCHANGED <<temp, runtime, created, server, legacy, confirmed, changes, kills>>

\* Opening the temporary file empties it.
OpenTemp(c) ==
    /\ Stands(c, "open")
    /\ temp' = [temp EXCEPT ![admin[c].scope] = Without("torn")]
    /\ Moves(c, [admin[c] EXCEPT !.at = "write"])
    /\ UNCHANGED <<file, runtime, created, server, legacy, confirmed, changes, kills>>

\* Two that write at once may leave a mixture.
WriteTemp(c) ==
    LET r == admin[c]
    IN  /\ Stands(c, "write")
        /\ \E content \in {Document(r.values, r.scope)}
                          \cup (IF Writing(c) = {} THEN {} ELSE {Without("torn")}) :
              IF r.into = "temp"
              THEN temp' = [temp EXCEPT ![r.scope] = content] /\ UNCHANGED file
              ELSE file' = [file EXCEPT ![r.scope] = content] /\ UNCHANGED temp
        /\ Moves(c, [r EXCEPT !.at = "replace"])
        /\ UNCHANGED <<runtime, created, server, legacy, confirmed, changes, kills>>

\* Path.replace fails when another thread has taken the file away, and on
\* Windows when one has it open; elsewhere that one goes on with the settings
\* file in its hands.
Replace(c) ==
    LET r == admin[c]
        next == IF r.scope = "program" THEN Rest ELSE [r EXCEPT !.at = "entry"]
    IN  /\ Stands(c, "replace")
        /\ \/ /\ temp[r.scope].format # "missing"
              /\ file' = [file EXCEPT ![r.scope] = temp[r.scope]]
              /\ temp' = [temp EXCEPT ![r.scope] = Without("missing")]
              /\ admin' = [d \in Admins |-> IF d = c THEN next
                                              ELSE IF d \in Writing(c)
                                              THEN [admin[d] EXCEPT !.into = "file"]
                                              ELSE admin[d]]
           \/ /\ temp[r.scope].format = "missing" \/ Writing(c) # {}
              /\ Moves(c, Rest)
              /\ UNCHANGED <<file, temp>>
        /\ UNCHANGED <<runtime, created, server, legacy, confirmed, changes, kills>>

\* The second half of a save of the scope "graph": the start node, when it
\* differs from what is seen of it now.
UpdateEntry(c) ==
    /\ Stands(c, "entry")
    /\ IF created /\ runtime = admin[c].values["runtime"]
       THEN UNCHANGED <<runtime, created>>
       ELSE runtime' = admin[c].values["runtime"] /\ created' = TRUE
    /\ Moves(c, Rest)
    /\ UNCHANGED <<file, temp, server, legacy, confirmed, changes, kills>>

\* Another request creates the service, or edits the graph as well.
OtherRequest(editing) ==
    /\ server = "up" /\ created' = TRUE
    /\ IF editing
       THEN /\ changes < MaxSettingChanges /\ changes' = changes + 1 /\ runtime' = changes + 2
            /\ admin' = [c \in Admins |-> [admin[c] EXCEPT !.alone = FALSE]]
       ELSE /\ ~created /\ UNCHANGED <<changes, runtime, admin>>
    /\ UNCHANGED <<file, temp, server, legacy, confirmed, kills>>

\* The server stops anywhere; a file that a thread has open stays torn.
Kill ==
    /\ server # "down" /\ kills < MaxKills
    /\ kills' = kills + 1
    /\ server' = "down" /\ created' = FALSE /\ legacy' = 0
    /\ file' = [scope \in FileScopes |->
                  IF \E c \in Admins : Stands(c, "write") /\ admin[c].into = "file"
                                       /\ admin[c].scope = scope
                  THEN Without("torn") ELSE file[scope]]
    /\ admin' = [c \in Admins |-> Rest]
    /\ UNCHANGED <<temp, runtime, confirmed, changes>>

Serve(c) == OpenTemp(c) \/ WriteTemp(c) \/ Replace(c) \/ UpdateEntry(c)

ConfigurationNext ==
    \/ ReadLegacy \/ MigrateProgram \/ MigrateGraph \/ Kill
    \/ \E editing \in BOOLEAN : OtherRequest(editing)
    \/ \E c \in Admins :
         \/ Serve(c)
         \/ \E s \in Settings, confirm \in BOOLEAN : \E value \in NewValues(s) :
              ApplyChange(c, s, value, confirm)
         \/ \E scope \in FileScopes : Reset(c, scope)

ConfigurationSpec == ConfigurationInit /\ [][ConfigurationNext]_confVars

-----------------------------------------------------------------------------
ConfigurationTypeOK ==
    /\ file \in [FileScopes -> Contents] /\ temp \in [FileScopes -> Contents]
    /\ runtime \in Nat /\ legacy \in Nat /\ created \in BOOLEAN
    /\ server \in {"down", "program", "graph", "up"}
    /\ admin \in [Admins -> AdminStates]
    /\ confirmed \subseteq Nat /\ changes \in Nat /\ kills \in Nat

\* The value a setting has for the user, now or when the server is up again.
Effective(s) ==
    CASE s = "runtime" -> runtime
      [] s \in InFile("program") -> file["program"].values[s]
      [] s = "policy" -> IF file["graph"].format = "current" THEN file["graph"].values[s]
                         ELSE IF file["program"].format = "legacy"
                              THEN file["program"].values[s]
                         ELSE IF server = "graph" THEN legacy ELSE 0

\* A thread that may change s by what it does now: one that runs alone has been
\* asked to, or loaded the settings before the service was there, and then takes
\* the runtime defaults back (get_entrypoint_runtime answers {}).
MayChange(c, s) ==
    LET r == admin[c]
    IN  /\ r.at \in {"write", "replace", "entry"} /\ admin'[c] # r
        /\ ScopeOf(s) = r.scope
        /\ r.alone => s \in r.asked \/ (s = "runtime" /\ r.blind)

\* A start takes limits of zero for the default of an earlier version, also when
\* it was the user who set them.
MayForget(s) == s = "limits" /\ server = "program" /\ Effective(s) = ZeroLimits /\ Effective(s)' = 0

\* A kill may cost a setting: the policy between the two migrations, since the
\* next start finds it in no file any more, and what two threads wrote at once.
MayLose(s) ==
    /\ kills' # kills
    /\ \/ s = "policy" /\ server = "graph"
       \/ \E c \in Admins : admin[c].into = "file" /\ ~admin[c].alone

\* Whatever starts, migrations and kills come between, a setting changes only
\* by a request that is to change it or that overlaps with one, and a risky one
\* only to what somebody confirmed, what the older version had, or its default.
\* Excepted are response limits of zero, which the next start takes away.
SettingsAreKept ==
    [][/\ \A s \in Settings : Effective(s)' # Effective(s) =>
             \/ \E c \in Admins : MayChange(c, s)
             \/ MayLose(s) \/ MayForget(s)
             \/ s = "runtime" /\ changes' # changes
       /\ file'["program"].values["risky"] \in confirmed \cup {0, 1}]_confVars
=============================================================================
