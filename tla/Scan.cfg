SPECIFICATION Spec
CONSTANTS
  Uses = {"files", "table", "rows"}
  Files = {"a", "b"}
  Schema <- TwoColumns
  Chunks <- AllChunks
  Batches <- FenceOrImport
  Compressions = {"none", "zlib"}
  FileList <- BothFiles
  Projections <- ColumnLists
  BatchRows = {0, 2}
  Keys = {1, 2, 3}
  Magic = Magic
  MaxRows = 3
  MaxWals = 3
  MaxBatches = 3
INVARIANTS ScanExact ScanComplete RowScanExact
PROPERTY ScanThrows
CHECK_DEADLOCK FALSE
