----------------------------- MODULE MCEnvReset -----------------------------
(* Instances of EnvReset for TLC: no name, one, two, a name given twice,   *)
(* and more names than the table has room for when MaxNames is 2.          *)
EXTENDS EnvReset

CONSTANTS lua, luajit

MCConfigs == {<<>>, <<lua>>, <<lua, luajit>>, <<lua, lua>>, <<luajit, lua, lua>>}
=============================================================================
