------------------------------- MODULE Console -------------------------------
(***************************************************************************)
(* The admin console's sessions (src/src/admin/auth.ts, routes.ts) and the *)
(* registry of tools, which it and an owner's command reload with the      *)
(* plugins on disk (src/src/tools/registry.ts, src/src/plugins).           *)
(*                                                                         *)
(* A session is the number of its login.  A load reads the plugin files    *)
(* one after another, each import is awaited; the first load, at the       *)
(* start, is number 0 and does not wait its turn as reloads do.            *)
(***************************************************************************)
EXTENDS Stage, SequencesExt

CONSTANTS
  Browsers,
  SessionTtl, MaxSessions,
  LoginLimit, LoginWindow,
  Levels,     \* permissions, least first
  MaxReloads

(* The levels that are the default are among them, and what the scenes     *)
(* give as lists are lists: of files that may be there, and of tools.      *)
ASSUME ConsoleAssumption ==
  /\ SessionTtl \in Nat /\ MaxSessions \in Nat /\ MaxReloads \in Nat
  /\ Levels \in Seq(ToSet(Levels)) /\ Levels[1] = "user" /\ "premium" \in ToSet(Levels)
  /\ \A s \in Scenes :
       /\ s.permits \subseteq ToSet(Levels)
       /\ s.core \in Seq(ToSet(s.core)) /\ s.files \in Seq(DOMAIN s.disk)
       /\ \A p \in (s.plugins \cup {s.disk[f] : f \in DOMAIN s.disk}) \ {None} : p.tools \in Seq(ToSet(p.tools))

VARIABLES
  sessions,   \* [ids of those there are -> when they expire]
  cookie,     \* [Browsers -> id of the session whose cookie it has, or 0]
  page,       \* [Browsers -> id of the session its open page is of]
  attempts,   \* [Browsers -> [count, until]], by address
  issued,     \* (history) when each session was issued
  signedOut,  \* (history)
  disk,       \* [files -> plugin or None]
  modules,    \* what the process has imported: [some files -> plugin]
  loads,      \* [0 .. MaxReloads -> [at, files, got]], files as places in scene.files
  generation, \* reloads asked for
  catalog,   \* [by, tools, commands]: the load it comes from
  reports     \* what became of the plugins, of all loads

consoleVars == <<sessions, cookie, page, attempts, issued, signedOut, disk, modules, loads, generation, catalog, reports>>
sessionVars == <<sessions, cookie, page, attempts, issued, signedOut>>
registryVars == <<disk, modules, loads, generation, catalog, reports>>
-----------------------------------------------------------------------------
Alive(id) == id \in DOMAIN sessions /\ sessions[id] > now

(* Maps: some keys set to a value, and some deleted. *)
MapSet(f, keys, v) == [k \in DOMAIN f \cup keys |-> IF k \in keys THEN v ELSE f[k]]
MapDelete(f, keys) == [k \in DOMAIN f \ keys |-> f[k]]

Expired == {id \in DOMAIN sessions : sessions[id] <= now}
Unexpired == MapDelete(sessions, Expired)

(* Mutant of Issue: the newest is evicted. *)
IssueEvictingNew ==
  LET added == MapSet(Unexpired, {Len(issued) + 1}, now + SessionTtl)
  IN sessions' = IF Cardinality(DOMAIN added) > MaxSessions THEN MapDelete(added, {Max(DOMAIN added)}) ELSE added

(* What has expired is dropped, then, at the limit, the oldest: of the     *)
(* numbers of logins the least.                                            *)
Issue ==
  LET added == MapSet(Unexpired, {Len(issued) + 1}, now + SessionTtl)
  IN sessions' = IF Cardinality(DOMAIN added) > MaxSessions THEN MapDelete(added, {Min(DOMAIN added)}) ELSE added

(* An attempt counts, whatever comes of it. *)
MayAttempt(b) == attempts[b].until <= now \/ attempts[b].count < LoginLimit
Attempted(b) == IF attempts[b].until <= now THEN [count |-> 1, until |-> now + LoginWindow] ELSE [attempts[b] EXCEPT !.count = @ + 1]

Login(b, right) ==
  /\ Spend(IF right THEN "login" ELSE "guess") /\ UNCHANGED <<signedOut, registryVars>>
  /\ IF ~MayAttempt(b) THEN UNCHANGED <<sessions, cookie, page, attempts, issued>>
     ELSE /\ attempts' = [attempts EXCEPT ![b] = Attempted(b)]
          /\ IF right
             THEN /\ Issue /\ issued' = Append(issued, now)
                  /\ cookie' = [cookie EXCEPT ![b] = Len(issued) + 1] /\ page' = [page EXCEPT ![b] = Len(issued) + 1]
             ELSE UNCHANGED <<sessions, cookie, page, issued>>

(* A request with the cookie of a session that has expired drops it.       *)
Verified(b) == sessions' = MapDelete(sessions, Expired \cap {cookie[b]})

(* A page asks again whose it is; without a session it is the login's. *)
PageOf(b) == IF Alive(cookie[b]) THEN cookie[b] ELSE 0

Refresh(b) ==
  /\ cookie[b] # 0 /\ Spend("visit") /\ Verified(b)
  /\ page' = [page EXCEPT ![b] = PageOf(b)]
  /\ UNCHANGED <<cookie, attempts, issued, signedOut, registryVars>>

Logout(b) ==
  /\ cookie[b] # 0 /\ Spend("logout") /\ sessions' = MapDelete(sessions, {cookie[b]})
  /\ signedOut' = (signedOut \cup {cookie[b]}) /\ cookie' = [cookie EXCEPT ![b] = 0]
  /\ UNCHANGED <<page, attempts, issued, registryVars>>
-----------------------------------------------------------------------------
(* Plugins: [tools, manifest], manifest None or [perms, enabled]; a tool   *)
(* is [name, aliases, perm, valid].                                        *)
Level(p) == CHOOSE i \in 1 .. Len(Levels) : Levels[i] = p

(* The operator names a level: it and those below are allowed. *)
Allowed ==
  {Levels[i] : i \in 1 .. (IF scene.permits = {} THEN Level("premium") ELSE CHOOSE i \in {Level(p) : p \in scene.permits} : \A p \in scene.permits : Level(p) <= i)}

AdmitsManifest(manifest) == manifest = None \/ (manifest.enabled /\ manifest.perms \subseteq Allowed)

Exported(tools, tool) == IF tool.valid THEN Append(tools, tool) ELSE tools

(* What a file exports, less the tools whose names are no commands. *)
Instances(plugin) == FoldLeft(Exported, <<>>, plugin.tools)

AdmitsTools(plugin) ==
  \A t \in ToSet(Instances(plugin)) : t.perm \in (IF plugin.manifest = None THEN {"user"} ELSE plugin.manifest.perms)

Admitted(plugin) == AdmitsManifest(plugin.manifest) /\ AdmitsTools(plugin)

(* A tool is registered unless its name, or an alias, is taken.  A name    *)
(* that is an alias of another takes it over.                              *)
Entered(acc, tool) ==
  IF \/ \E t \in ToSet(acc.tools) : t.name = tool.name
     \/ tool.aliases \cap DOMAIN acc.commands # {}
  THEN acc
  ELSE [acc EXCEPT !.tools = Append(@, tool), !.commands = MapSet(@, {tool.name} \cup tool.aliases, tool.name)]

Entries(tools) == FoldLeft(Entered, [tools |-> <<>>, commands |-> <<>>], tools)

(* Every load replaces tools and commands at once. *)
Catalog(n, tools) == [by |-> n, tools |-> Entries(tools).tools, commands |-> Entries(tools).commands]

NoAttempts == [count |-> 0, until |-> 0]

ConsoleInit ==
  /\ sessions = <<>> /\ cookie = [b \in Browsers |-> 0] /\ page = [b \in Browsers |-> 0]
  /\ attempts = [b \in Browsers |-> NoAttempts] /\ issued = <<>> /\ signedOut = {}
  /\ disk = scene.disk /\ modules = <<>> /\ generation = 0 /\ reports = <<>>
  /\ loads = [n \in 0 .. MaxReloads |-> [at |-> IF n = 0 /\ scene.core # <<>> THEN "asked" ELSE "off", files |-> {}, got |-> <<>>]]
  /\ catalog = Catalog(-1, scene.core)

(* Reloads wait for those before them. *)
ReloadRegistry == generation' = generation + 1 /\ loads' = [loads EXCEPT ![generation + 1].at = "asked"]

Reload(b) ==
  /\ generation < MaxReloads /\ Spend("reload") /\ ReloadRegistry
  /\ \/ Alive(cookie[b]) /\ page[b] = cookie[b]
     \/ scene.owner
  /\ UNCHANGED <<sessionVars, disk, modules, catalog, reports>>

ListFiles(n) ==
  /\ loads[n].at = "asked" /\ (n > 0 => \A m \in 1 .. n - 1 : loads[m].at = "done")
  /\ loads' = [loads EXCEPT ![n].at = "reading", ![n].files = {i \in DOMAIN scene.files : disk[scene.files[i]] # None}]
  /\ UNCHANGED <<stage, sessionVars, disk, modules, generation, catalog, reports>>

(* What the operator is told of a file. *)
Report(f, plugin) ==
  <<f, IF ~Admitted(plugin) THEN "refused" ELSE IF plugin.manifest = None THEN "unreviewed" ELSE "loaded">>

(* A file is imported once by a process: what changed since is not seen.   *)
ReadPlugin(n) ==
  LET first == Min(loads[n].files)
      f == scene.files[first]
      plugin == IF f \in DOMAIN modules THEN modules[f] ELSE disk[f]
      ok == plugin # None /\ Admitted(plugin)
  IN /\ loads[n].at = "reading" /\ loads[n].files # {}
     /\ modules' = IF plugin = None THEN modules ELSE MapSet(modules, {f}, plugin)
     /\ loads' = [loads EXCEPT ![n].files = @ \ {first}, ![n].got = IF ok THEN @ \o Instances(plugin) ELSE @]
     /\ reports' = IF plugin = None \/ (AdmitsManifest(plugin.manifest) /\ Instances(plugin) = <<>>) THEN reports ELSE Append(reports, Report(f, plugin))
     /\ UNCHANGED <<stage, sessionVars, disk, generation, catalog>>

(* Mutant of Apply: the first load is applied whenever it ends. *)
ApplyAlways(n) ==
  /\ loads[n].at = "reading" /\ loads[n].files = {}
  /\ loads' = [loads EXCEPT ![n].at = "done"]
  /\ catalog' = Catalog(n, scene.core \o loads[n].got)
  /\ UNCHANGED <<stage, sessionVars, disk, modules, generation, reports>>

(* The first load is dropped once a reload was asked for. *)
Apply(n) ==
  /\ loads[n].at = "reading" /\ loads[n].files = {}
  /\ loads' = [loads EXCEPT ![n].at = "done"]
  /\ catalog' = IF n = 0 /\ generation > 0 THEN catalog ELSE Catalog(n, scene.core \o loads[n].got)
  /\ UNCHANGED <<stage, sessionVars, disk, modules, generation, reports>>

(* Someone puts a file there, replaces it or takes it away. *)
Deploys(f, plugin) ==
  /\ disk[f] # plugin /\ Spend("deploy") /\ disk' = [disk EXCEPT ![f] = plugin]
  /\ UNCHANGED <<sessionVars, modules, loads, generation, catalog, reports>>

ConsoleNext ==
  \/ \E b \in Browsers : (\E right \in BOOLEAN : Login(b, right)) \/ Refresh(b) \/ Logout(b) \/ Reload(b)
  \/ \E n \in 0 .. MaxReloads : ListFiles(n) \/ ReadPlugin(n) \/ Apply(n)
  \/ \E f \in ToSet(scene.files), p \in scene.plugins \cup {None} : Deploys(f, p)
  \/ Tick /\ UNCHANGED consoleVars
-----------------------------------------------------------------------------
(* A session lasts until it expires, its browser signs out, or as many     *)
(* others as there may be have signed in since, and no longer              *)
(* (auth.ts:93-160).                                                       *)
SessionKept ==
  \A id \in 1 .. Len(issued) :
    LET over == id \in signedOut \/ now >= issued[id] + SessionTtl
    IN IF Alive(id) THEN ~over ELSE over \/ Len(issued) - id >= MaxSessions

(* The registry is that of the last load that has ended, whoever was       *)
(* first; every tool answers to its name, and no plugin's asks for more    *)
(* than the operator allows (registry.ts:618-679, manifest.ts:120-213).    *)
RegistrySound ==
  /\ \A n \in 0 .. MaxReloads : loads[n].at = "done" => catalog.by >= n \/ (n = 0 /\ generation > 0)
  /\ catalog.by = 0 => \A n \in 1 .. MaxReloads : loads[n].at # "done"
  /\ \A t \in ToSet(catalog.tools) :
       /\ catalog.commands[t.name] = t.name
       /\ t \in ToSet(scene.core) \/ t.perm \in Allowed

(* The console serves those signed in, and what was loaded last.           *)
ConsoleSound == SessionKept /\ RegistrySound
=============================================================================
