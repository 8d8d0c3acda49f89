\* Every part that computes a chart or a measure; the instances are in MCCharts.
SPECIFICATION Spec
INVARIANTS AggregatesExact PivotsExact SetupExact StudiesExact RangeIsOfTheTape ReviewIsTheRecord
PROPERTY TrendlinesStand
CONSTANT NoBar = NoBar
CHECK_DEADLOCK FALSE
