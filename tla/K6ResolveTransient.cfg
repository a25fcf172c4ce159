SPECIFICATION Spec
CONSTANTS
    MaxMajor = 3
    MaxMinor = 1
    MaxFaults = 1
    Requests <- LatestRequests
INVARIANT OnlyAbsenceStopsTheScan
