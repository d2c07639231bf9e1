\* The bound of the file may stop the opens, the bound of the crashes the rest.
\* Two threads, two names, three paths, two of them with one digest.
SPECIFICATION Spec
CONSTANTS
  Threads = {t1, t2}
  Names = {n1, n2}
  n1 = n1
  n2 = n2
  p = p
  q = q
  nl = nl
  Paths <- SomePaths
  NameOf <- Digest
  ReadBack <- Csv
  None = None
  Garbled = Garbled
  Settings <- AllSettings
  MaxLines = 3
INVARIANTS EntriesOnDisk NamesOwn SolidFresh ReadersSafe
PROPERTIES Restarts ImplementsDurableMap
CHECK_DEADLOCK FALSE
