SPECIFICATION Spec
CONSTANTS
    Width = 6
    Second = 8
    Lead = 1
    Start = 20
    Gaps = {2, 3}
    Horizon = 24
PROPERTIES
    ReportEverySecond
