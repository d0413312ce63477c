CONSTANTS
  Ids = {x, y}
  MaxConns = 1
  MaxOpens = 2
  MaxDowns = 1
  MaxBusy = 0
SPECIFICATION CatalogSpec
PROPERTY ClosesEveryOpenWorker
