--------------------------- MODULE MCDeviceService ---------------------------
(* Instances of DeviceService for TLC.                                      *)
EXTENDS DeviceService, TLC

\* main's default rules.
DefaultRules ==
  <<[metric |-> "temperature", operator |-> ">", threshold |-> 80],
    [metric |-> "battery", operator |-> "<", threshold |-> 15],
    [metric |-> "humidity", operator |-> ">", threshold |-> 95]>>

\* At the thresholds of two rules, and beyond those of two others, without the
\* metric of the rule in between.
AtThresholds == [battery |-> 15, temperature |-> 80]
Beyond       == [temperature |-> 81, humidity |-> 96]
DefaultPayloads == {AtThresholds, Beyond}

\* Bound: one sample carries the first timestamp, the other one none; the other
\* one breaches rules where the history holds a single point.
TwoSamples ==
  LET other == CHOOSE s \in Samples : TRUE
  IN  Init /\ \A s \in Samples :
        /\ sample[s].ts = IF s = other THEN ZeroTime ELSE 1
        /\ sample[s].metrics = IF s = other /\ maxHistory = 1 THEN Beyond
                                                            ELSE AtThresholds

TwoSamplesSpec == TwoSamples /\ [][Next]_vars /\ Fairness

NoRules == <<>>
NoMetrics == {<<>>}
=============================================================================
