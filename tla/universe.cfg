SPECIFICATION Spec
CONSTANTS
  UniverseId = {"sp500"}
  Symbol = {1, 2}
  SectorName = {"energy"}
  FilesAtFirst <- OneAtFirst
  SectorOf <- OneIndustry
  Refresher = {"cli"}
  Seeder = {"api"}
  Limit = 1
  Client = {"reader"}
  MaxDay = 2
  MaxEdit = 1
  MaxAbort = 1
  Story = {"story"}
  Target = {"t"}
  LimitTickers = 2
  Invented = {9}
  ImpactAtFirst <- UpAtFirst
  MaxImpact = 1
CHECK_DEADLOCK FALSE
INVARIANTS NoDanglingRow PagingMissesNobody TickersAreConstituents
