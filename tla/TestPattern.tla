---------------------------- MODULE TestPattern -----------------------------
(***************************************************************************)
(* hm2_test of hm2-export.c: a board that is an image in memory, filled by *)
(* the module parameter test_pattern, each with something wrong that the   *)
(* HostMot2 core (external) has to find.  The core reads and checks one    *)
(* thing after the other and refuses the board at the first that is bad.   *)
(* It refuses every pattern, so a loaded driver and its exit do not exist; *)
(* no failure path calls hal_exit (hm2-export.c:1512, 1535), so the HAL    *)
(* refuses a second load.                                                  *)
(***************************************************************************)
EXTENDS Integers

HM2_ADDR_IOCOOKIE     == \h100
HM2_ADDR_CONFIGNAME   == \h104
HM2_ADDR_IDROM_OFFSET == \h10C
HM2_IOCOOKIE          == \h55AACAFE
HM2_GTAG_IOPORT       == 3

\* The image is a function on the addresses that are set; the rest is 0.
set32(img, a, v) == [x \in DOMAIN img \cup {a} |-> IF x = a THEN v ELSE img[x]]

Cookie     == set32(<<>>, HM2_ADDR_IOCOOKIE, HM2_IOCOOKIE)
Identified == set32(Cookie, HM2_ADDR_CONFIGNAME, "HOSTMOT2")
Located    == set32(Identified, HM2_ADDR_IDROM_OFFSET, \h400)
Typed      == set32(Located, \h400, 2)
WithPorts(n, width, portwidth) ==
  set32(set32(set32(Typed, \h41C, n), \h420, width), \h424, portwidth)
WithClocks(img, low, high) == set32(set32(img, \h428, low), \h42C, high)
WithOffsets(img, modules, pins) == set32(set32(img, \h404, modules), \h408, pins)

\* n good pin descriptors, of which the primary tag is kept.
PinsAt(n) == {\h600 + 4 * k : k \in 0 .. n - 1}
WithPins(img, n) ==
  [a \in DOMAIN img \cup PinsAt(n) |-> IF a \in PinsAt(n) THEN HM2_GTAG_IOPORT ELSE img[a]]

\* Nothing, no name, no ID ROM, a bad type.
Bare(n) ==
  CASE n = 0 -> <<>> [] n = 1 -> Cookie [] n = 2 -> Identified
    [] n = 3 -> set32(Located, \h400, \h1234)

\* A port width of 0, of 29, a good one and nothing else.
Widths(n) ==
  CASE n = 4 -> Typed [] n = 5 -> set32(Typed, \h424, 29) [] n = 6 -> set32(Typed, \h424, 24)

\* Mutant: the addresses of IOPorts and IOWidth are mixed up.
SizesSwapped(n) == CASE n = 7 -> WithPorts(99, 1, 24) [] n = 8 -> WithPorts(48, 2, 24)

\* A width that does not match, and one port too many for the connectors.
Sizes(n) == CASE n = 7 -> WithPorts(1, 99, 24) [] n = 8 -> WithPorts(2, 48, 24)

\* ClockLow is bad, ClockHigh is bad.
BadClocks(n) ==
  CASE n = 9  -> set32(WithPorts(1, 24, 24), \h428, 12345)
    [] n = 10 -> WithClocks(WithPorts(1, 24, 24), 2000000, 0)

\* 144 pins and no pin descriptor; good descriptors and no module that has them.
Descriptors(n) ==
  CASE n = 11 -> WithOffsets(WithClocks(WithPorts(6, 144, 24), 2000000, 20000000), 64, \h1C0)
    [] n = 12 ->
         WithPins(WithOffsets(WithClocks(WithPorts(1, 24, 24), 2000000, 20000000), 64, \h200), 24)

\* A board with 5 pins to a connector that says 24, and one with 37.
Connectors(n) == CASE n = 13 -> set32(Typed, \h424, 24) [] n = 14 -> set32(Typed, \h424, 37)

Known == 0 .. 14
Pattern(n) ==
  CASE n \in 0 .. 3 -> Bare(n)        [] n \in 4 .. 6 -> Widths(n)
    [] n \in 7 .. 8 -> Sizes(n)       [] n \in 9 .. 10 -> BadClocks(n)
    [] n \in 11 .. 12 -> Descriptors(n) [] n \in 13 .. 14 -> Connectors(n)

VARIABLES test_pattern, image, num_ioport_connectors, pins_per_connector,
          main,      \* unloaded, or what rtapi_app_main is doing
          check,     \* what the core looks at next
          component  \* hal_init has been called and hal_exit has not

testVars == <<test_pattern, image, num_ioport_connectors, pins_per_connector,
              main, check, component>>

TestInit ==
  /\ test_pattern = -1 /\ image = <<>> /\ num_ioport_connectors = 0
  /\ pins_per_connector = 0 /\ main = "unloaded" /\ check = 0 /\ component = FALSE

-----------------------------------------------------------------------------
\* rtapi_app_main up to hm2_register.
LoadPattern(n) ==
  /\ main = "unloaded"
  /\ test_pattern' = n /\ component' = TRUE
  /\ IF component \/ n \notin Known
     THEN /\ main' = IF component THEN "no_component" ELSE "unknown_pattern"
          /\ check' = 0
          /\ UNCHANGED <<image, num_ioport_connectors, pins_per_connector>>
     ELSE /\ image' = Pattern(n)
          /\ num_ioport_connectors' = IF n = 11 THEN 6 ELSE 1
          /\ pins_per_connector' = CASE n = 13 -> 5 [] n = 14 -> 37 [] OTHER -> 24
          /\ main' = "registering" /\ check' = 1

\* hm2_test_read
hm2_test_read(a) == IF a \in DOMAIN image THEN image[a] ELSE 0

\* What the core looks at, in its order, and what has to hold.
Checks == <<"cookie", "name", "type", "portwidth", "iowidth", "ioports", "clocklow",
            "clockhigh", "pins", "modules">>

IDROM(o) == hm2_test_read(hm2_test_read(HM2_ADDR_IDROM_OFFSET) + o)
Good ==
  CASE Checks[check] = "cookie"    -> hm2_test_read(HM2_ADDR_IOCOOKIE) = HM2_IOCOOKIE
    [] Checks[check] = "name"      -> HM2_ADDR_CONFIGNAME \in DOMAIN image
    [] Checks[check] = "type"      -> IDROM(0) = 2
    [] Checks[check] = "portwidth" -> IDROM(\h24) = pins_per_connector
    [] Checks[check] = "iowidth"   -> IDROM(\h20) = IDROM(\h1C) * IDROM(\h24)
    [] Checks[check] = "ioports"   -> IDROM(\h1C) = num_ioport_connectors
    [] Checks[check] = "clocklow"  -> IDROM(\h28) >= 1000000
    [] Checks[check] = "clockhigh" -> IDROM(\h2C) >= 1000000
    [] Checks[check] = "pins" ->
         \A k \in 0 .. IDROM(\h20) - 1 : IDROM(IDROM(8) + 4 * k) = HM2_GTAG_IOPORT
    [] Checks[check] = "modules" ->
         \E k \in 0 .. 31 : IDROM(IDROM(4) + 12 * k) = HM2_GTAG_IOPORT

Check ==
  /\ main = "registering" /\ Good /\ check' = check + 1
  /\ UNCHANGED <<test_pattern, image, num_ioport_connectors, pins_per_connector, main, component>>

\* hm2_register refuses and rtapi_app_main returns -EIO.
RefuseBoard ==
  /\ main = "registering" /\ ~Good /\ main' = "refused"
  /\ UNCHANGED <<test_pattern, image, num_ioport_connectors, pins_per_connector, check, component>>

\* A load that failed leaves no module behind, and another may be tried.
LoadFailed ==
  /\ main \in {"refused", "unknown_pattern", "no_component"} /\ main' = "unloaded"
  /\ UNCHANGED <<test_pattern, image, num_ioport_connectors, pins_per_connector, check, component>>

TestNext ==
  \/ \E n \in -1 .. 15 : LoadPattern(n)
  \/ Check \/ RefuseBoard \/ LoadFailed
-----------------------------------------------------------------------------
\* What is wrong with each pattern, from the comments in hm2-export.c 1080-1488;
\* 6 and 14, with a good port width, say nothing of ports.
Meant ==
  <<"name", "type", "type", "portwidth", "portwidth", "ioports", "iowidth", "ioports",
    "clocklow", "clockhigh", "pins", "modules", "portwidth", "ioports">>

(***************************************************************************)
(* Every pattern is good up to what its comment says is wrong with it, and *)
(* is refused there: each tests the check it was made for, and not one     *)
(* before.                                                                 *)
(***************************************************************************)
RefusedWhereMeant ==
  main = "refused" =>
    Checks[check] = IF test_pattern = 0 THEN "cookie" ELSE Meant[test_pattern]
=============================================================================
