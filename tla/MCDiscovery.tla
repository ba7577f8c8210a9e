---------------------------- MODULE MCDiscovery ----------------------------
EXTENDS Discovery

\* Every combination of the two config files, roots and platforms over two
\* places; homes whose config is not read have none.
MCSettings ==
  {s \in [explicitSqlite : {None}, explicitCodex : MaybePlace,
          envSqlite : MaybePlace, envCodex : MaybePlace,
          config : {c \in [Places -> Configs] :
                      \A p \in Places \ {Home} : c[p].file = None /\ c[p].top # Home},
          wsl : BOOLEAN, windowsHome : MaybePlace,
          mounted : {{}, Places \ {Home}}, occupied : {Places}] :
     /\ \A p \in Places \ ReadHomes(s) : s.config[p] = NoConfig
     /\ IF s.wsl THEN s.windowsHome # None /\ s.mounted # {}
        ELSE s.windowsHome = None /\ s.mounted = {}}

\* Explicit SQLite homes and empty places, with one config file and no file of
\* a profile's own.
MCSmallSettings ==
  {s \in [explicitSqlite : MaybePlace, explicitCodex : MaybePlace,
          envSqlite : MaybePlace, envCodex : {None},
          config : {c \in [Places -> Configs] :
                      \A p \in Places : c[p].file = None /\ (p # Home => c[p] = NoConfig)},
          wsl : BOOLEAN, windowsHome : MaybePlace,
          mounted : {Places \ {Home}}, occupied : SUBSET Places] :
     ~s.wsl => s.windowsHome = None}

MCInit == InitWith(MCSettings) \/ InitWith(MCSmallSettings)
=============================================================================
