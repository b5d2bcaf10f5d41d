------------------------------ MODULE MCIcCache -------------------------------
(* Instances of IcCache for TLC: one or two requests.                      *)
EXTENDS IcCache, TLC

CONSTANTS first, second, \* requests
          day1, day2,    \* keys
          old, new,      \* contents
          p,             \* process
          e              \* entry

(* hres_0.1: each key is cut to hres_0 *)
KeyOfDay == first :> day1 @@ second :> day2
OneFileForAll == first :> e @@ second :> e
OldInputs == first :> old @@ second :> old

(* One request *)
TheKey == first :> day1
TheFile == first :> e
OldInput == first :> old
=============================================================================
