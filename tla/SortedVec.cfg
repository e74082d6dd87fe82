SPECIFICATION Spec
CONSTANTS
  Elem = {1, 2, 3, 4, 5, 6}
  Cmp <- IdCmp
INVARIANTS TypeOK Sorted SearchExact StepsComputeSearch
PROPERTIES ContentKept SearchEnds
