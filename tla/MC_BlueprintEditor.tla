------------------------ MODULE MC_BlueprintEditor -------------------------
(* The editor with two rows, one of which exists at first, and texts with   *)
(* the shapes that matter: a starter, a device uplinked to itself, unnamed  *)
(* devices and one called like the placeholder of the first, an uplink to a *)
(* name that every object inherits, and text that is not YAML.  Numbers are *)
(* exact up to 4 only; among the host names is one that is too long.        *)
EXTENDS BlueprintEditor

core == <<"core", -1>>
long == <<"long", -1>>
constructor == <<"constructor", -1>>
sw(n) == <<"switch", n>>
dev(host, uplink) == [host |-> host, uplink |-> uplink]
InheritedNames == {constructor}
LongNames == {long}

HomeText == Text(<<dev(core, NoHost), dev(sw(1), core)>>)
Odd == Text(<<dev(NoHost, core), dev(NoHost, constructor), dev(core, core)>>)
Placeholder == Text(<<dev(NoHost, sw(4)), dev(<<"(unnamed)", 1, 0>>, NoHost), dev(sw(4), NoHost)>>)
Blank == Text(<<>>)
OtherTexts == {Text(<<dev(core, NoHost)>>)}
TypedTexts == {Odd, Placeholder}
FileTexts == {Malformed}
StarterTexts == {HomeText, Blank}
TypedHosts == {core, sw(3), long, constructor}
NameSet == {<<"home">>, <<"shop">>}
OtherNames == {<<"shop">>}
=============================================================================
