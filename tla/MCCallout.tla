------------------------------ MODULE MCCallout ------------------------------
(* Instances of Callout for TLC.                                           *)
EXTENDS Callout

(* The timers of domaininit() and ifinit(), with the clock slowed down     *)
(* from hz = 100 to 10 ticks a second; pffasttimo runs hz / 5 after it     *)
(* last ran, pfslowtimo hz / 2 and if_slowtimo hz.                         *)
MCHz == 10
KernelTimers == {"if_slowtimo", "pffasttimo", "pfslowtimo"}
KernelPeriod ==
  [t \in KernelTimers |-> CASE t = "if_slowtimo" -> MCHz
                            [] t = "pffasttimo" -> MCHz \div 5
                            [] t = "pfslowtimo" -> MCHz \div 2]

(* ifinit() calls if_slowtimo(), which arms itself; then domaininit().     *)
KernelBoot ==
  <<<<"if_slowtimo", MCHz>>, <<"pffasttimo", 1>>, <<"pfslowtimo", 1>>>>

(* The interface watchdog of net/if.c runs for ever, which is what         *)
(* re-arming itself every hz ticks is for.                                 *)
WatchdogRecurs == Recurs("if_slowtimo")
=============================================================================
