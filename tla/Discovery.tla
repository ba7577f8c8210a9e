------------------------------ MODULE Discovery ------------------------------
(***************************************************************************)
(* discover_candidates: from the command line, the environment and the       *)
(* config files to the candidate databases, their evidence labels and        *)
(* whether they may be mutated.  One behaviour is one configuration; the     *)
(* roots are visited one by one, and several of them may name one place.     *)
(*                                                                          *)
(* A place is a directory; it holds one database when it is in occupied.     *)
(* Home is the platform's default Codex home.                               *)
(***************************************************************************)
EXTENDS Naturals, Sequences

CONSTANTS
  Places,    \* directories that the configuration can name
  Home,      \* ~/.codex
  Profile,   \* the name of the one profile
  None

DiscoveryConstants == Home \in Places /\ None \notin Places /\ Profile # None

MaybePlace == Places \cup {None}

\* What a config.toml in a Codex home says, with <Profile>.config.toml beside
\* it; a file that cannot be read says nothing.  Profiles inside the profile's
\* own file are left out.
Configs == [top : MaybePlace, profile : MaybePlace, selected : BOOLEAN,
            file : MaybePlace]

VARIABLES
  setting,   \* the configuration, fixed
  next,      \* index of the root to visit
  order,     \* candidates in the order they were found
  info       \* info[p]: sources, labels and cross-boundary flag gathered for p

vars == <<setting, next, order, info>>

Entry == [sources |-> {}, labels |-> {}, cross |-> FALSE]

-----------------------------------------------------------------------------
(* Wrong variants, used to test that the properties notice them. *)

\* Keeps the first mention of a Codex home, effective or not.
FirstMention(s, r) ==
  IF \E i \in DOMAIN s : s[i].place = r.place THEN s ELSE Append(s, r)

\* Believes the first root that reached the database.
FirstRootDecides(e, f) == IF e.sources = {} THEN f ELSE e.cross

-----------------------------------------------------------------------------
(* Codex homes and their configuration *)

EnvHome == setting.envCodex

\* seen_config_roots: a home that is named twice is effective if one of the
\* mentions is.
AddHome(s, r) ==
  IF \E i \in DOMAIN s : s[i].place = r.place
  THEN [i \in DOMAIN s |->
          IF s[i].place = r.place
          THEN [s[i] EXCEPT !.effective = @ \/ r.effective] ELSE s[i]]
  ELSE Append(s, r)

Mention(p, e) == [place |-> p, effective |-> e]

\* Explicit homes first, then CODEX_HOME, then the default; the environment's
\* home is the effective one if it is set.
ConfigHomes ==
  LET explicit == IF setting.explicitCodex = None THEN <<>>
                  ELSE <<Mention(setting.explicitCodex, FALSE)>>
  IN  IF EnvHome = None THEN AddHome(explicit, Mention(Home, TRUE))
      ELSE AddHome(AddHome(explicit, Mention(EnvHome, TRUE)), Mention(Home, FALSE))

\* load_config_sqlite_homes and discover_config_sqlite_homes: the top-level
\* home, the profile's, and the top-level home of the profile's own file,
\* which never counts as selected.
Entries(h) ==
  LET c == setting.config[h.place]
      item(p, s, prof, sel) ==
        IF p = None THEN <<>>
        ELSE <<[place |-> p, source |-> s, profile |-> prof, selected |-> sel,
                effective |-> h.effective]>>
  IN  item(c.top, "config:top_level", None, FALSE)
      \o item(c.profile, "config:profile", Profile, c.selected)
      \o item(c.file, "config_file:profile", Profile, FALSE)

Configured ==
  LET hs == ConfigHomes
  IN  Entries(hs[1])
      \o (IF Len(hs) >= 2 THEN Entries(hs[2]) ELSE <<>>)
      \o (IF Len(hs) >= 3 THEN Entries(hs[3]) ELSE <<>>)

SelectedProfile(entries) ==
  \E i \in DOMAIN entries : entries[i].effective /\ entries[i].selected

HasCurrentConfig(entries) == \E i \in DOMAIN entries : entries[i].effective

IsCurrent(e, entries) ==
  e.effective /\ IF SelectedProfile(entries) THEN e.profile # None
                 ELSE e.profile = None

-----------------------------------------------------------------------------
(* _candidate_roots *)

Root(p, s, cur, forced) ==
  IF p = None THEN <<>>
  ELSE <<[place |-> p, source |-> s, current |-> cur, forced |-> forced]>>

Roots ==
  LET entries == Configured
      config  == HasCurrentConfig(entries)
      sqlite  == setting.envSqlite # None
  IN  Root(setting.explicitSqlite, "explicit:sqlite_home", FALSE, FALSE)
      \o Root(setting.explicitCodex, "explicit:codex_home", FALSE, FALSE)
      \o Root(setting.envSqlite, "environment:CODEX_SQLITE_HOME", ~config, FALSE)
      \o Root(EnvHome, "environment:CODEX_HOME", ~config /\ ~sqlite, FALSE)
      \o [i \in DOMAIN entries |->
            [place |-> entries[i].place, source |-> entries[i].source,
             current |-> IsCurrent(entries[i], entries), forced |-> FALSE]]
      \o Root(Home, "platform:default", ~config /\ ~sqlite /\ EnvHome = None, FALSE)
      \o Root(IF setting.wsl THEN setting.windowsHome ELSE None,
              "platform:wsl_windows_default", FALSE, TRUE)

Explicit == {"explicit:sqlite_home", "explicit:codex_home"}
FromConfig == {"config:top_level", "config:profile", "config_file:profile"}

Label(r) ==
  IF r.source \in Explicit THEN "explicit_selection"
  ELSE IF r.current THEN "configured_current"
  ELSE IF r.source \in FromConfig THEN "configured_profile"
  ELSE "none"

\* A path under /mnt/<drive> seen from WSL, or a WSL path seen from Windows.
IsCrossBoundary(p) == setting.wsl /\ p \in setting.mounted

-----------------------------------------------------------------------------
(* discover_candidates *)

Settings ==
  [explicitSqlite : MaybePlace, explicitCodex : MaybePlace,
   envSqlite : MaybePlace, envCodex : MaybePlace,
   config : [Places -> Configs], wsl : BOOLEAN, windowsHome : MaybePlace,
   mounted : SUBSET Places, occupied : SUBSET Places]

\* The Codex homes whose config files are read.
ReadHomes(s) ==
  {s.explicitCodex, IF s.envCodex = None THEN Home ELSE s.envCodex, Home}

NoConfig == [top |-> None, profile |-> None, selected |-> FALSE, file |-> None]

InitWith(S) ==
  /\ setting \in S
  /\ next = 1 /\ order = <<>>
  /\ info = [p \in Places |-> Entry]

Init == InitWith(Settings)

Listed(p) == \E i \in DOMAIN order : order[i] = p

List(p) == IF Listed(p) THEN order ELSE Append(order, p)

\* Cross-boundary evidence from any root stays.
Cross(e, found) == e.cross \/ found

Visit ==
  /\ next \in DOMAIN Roots
  /\ LET r == Roots[next]
         e == info[r.place]
         l == Label(r)
     IN IF r.place \in setting.occupied
        THEN /\ order' = List(r.place)
             /\ info' = [info EXCEPT ![r.place] =
                  [sources |-> e.sources \cup {r.source},
                   labels |-> IF l = "none" THEN e.labels ELSE e.labels \cup {l},
                   cross |-> Cross(e, r.forced \/ IsCrossBoundary(r.place))]]
        ELSE UNCHANGED <<order, info>>
  /\ next' = next + 1
  /\ UNCHANGED setting

Next == Visit

Spec == Init /\ [][Next]_vars

Finished == next > Len(Roots)

MutationAllowed(p) == ~info[p].cross

-----------------------------------------------------------------------------
(* Properties *)

\* The types; a database is listed once, however many roots lead to it, and
\* only if it has a source.
TypeOK ==
  /\ setting \in Settings
  /\ next \in Nat \ {0}
  /\ \A i, j \in DOMAIN order : order[i] = order[j] => i = j
  /\ \A p \in Places : Listed(p) <=> info[p].sources # {}

\* The home whose configuration counts, and the place that Codex will use
\* according to configuration and environment, if the code names one.
EffectiveHome == IF EnvHome = None THEN Home ELSE EnvHome
EffectiveConfig == setting.config[EffectiveHome]
ConfigSilent == \A k \in {"top", "profile", "file"} : EffectiveConfig[k] = None

CurrentPlaces ==
  LET c == EffectiveConfig IN
  ( IF c.selected /\ c.profile # None THEN {c.profile, c.file}
    ELSE IF ~ConfigSilent THEN {c.top}
    ELSE IF setting.envSqlite # None THEN {setting.envSqlite}
    ELSE {EffectiveHome} ) \ {None}

\* The label configured_current goes to exactly the databases that the
\* effective home's configuration, or else the environment, selects, also when
\* the same home or the same place is named explicitly or by another profile.
CurrentIsWhatIsConfigured ==
  Finished =>
    \A p \in setting.occupied :
      "configured_current" \in info[p].labels <=> p \in CurrentPlaces

\* A database that any root places on the other side of the WSL boundary is
\* never offered for mutation, whichever root found it first.
CrossBoundaryRefused ==
  Finished =>
    \A p \in Places : Listed(p) /\ MutationAllowed(p) =>
      ~IsCrossBoundary(p) /\ ~(setting.wsl /\ p = setting.windowsHome)

=============================================================================
