------------------------------- MODULE MCBrew --------------------------------
(***************************************************************************)
(* The brew cycle on small instances: each configuration turns on the      *)
(* features whose interplay it is about, and bounds its samples,           *)
(* connections and cycles.                                                 *)
(***************************************************************************)
EXTENDS BrewCycle

Brew(features, weights, numbers) ==
    [features |-> features, weights |-> weights, connections |-> numbers[1],
     cycles |-> numbers[2], extra |-> numbers[3],
     wall |-> numbers[4], minShot |-> 1]

\* Weight control alone: losses of the link, implausible samples, recovery.
Recovery == Brew({"guard", "loss"}, {0, 2}, <<2, 1, 0, 3>>)

\* A cup put on the scale after the start, the retare, and the tare's
\* baseline; the answers of the scale may come at any time.
Retare == Brew({"autoTare", "autoRetare", "cup", "commands", "steady"}, {2},
               <<1, 1, 0, 2>>)

\* A first drop says that what is on the scale is coffee.
Drops == Brew({"autoTare", "autoRetare", "cup", "drops", "steady"}, {2, 5},
               <<1, 1, 0, 2>>)

\* The guards of fast and slow extractions, with a trend.
Fast == Brew({"fast", "trend", "guard", "steady"}, {1, 3}, <<1, 1, 0, 3>>)
Slow == Brew({"slow", "trend", "steady"}, {0, 2}, <<1, 1, 0, 4>>)

\* Touches and overloads.
Touch == Brew({"touch", "loss"}, {2, 9}, <<1, 1, 0, 3>>)

\* The scale's timer and the record of a shot over several cycles, brews and
\* rinses, begun at the machine or on the web.
Timers == Brew({"timerOnly", "commands", "rinse", "webhook"}, {},
               <<1, 2, 1, 1>>)
Override == Brew({"override", "web", "rinse", "webhook", "timerOnly",
                  "steady"}, {},
                 <<1, 2, 0, 2>>)

\* From boot on, with a worker that stalls; a momentary machine.
Boot == Brew({"boot", "stalls", "momentary", "webhook"}, {0, 2}, <<1, 1, 0, 2>>)
TimerOnly == Brew({"boot", "timerOnly", "commands", "hold"}, {0, 2}, <<1, 1, 1, 4>>)

MCConfigs == {Recovery, Retare, Drops, Fast, Slow, Touch, Timers, Override,
              Boot, TimerOnly}
=============================================================================
