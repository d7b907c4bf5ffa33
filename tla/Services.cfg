\* Two requests at a time of each service, over one or two rows of each table, with failures.
SPECIFICATION MCSpec
CONSTANTS
  r1 = r1
  r2 = r2
  Null = Null
  Reqs = {r1, r2}
  Faults = TRUE
  \* applications
  s1 = s1
  a1 = a1
  d1 = d1
  Applicants = {s1, d1}
  Profiled = {s1}
  Admins = {d1}
  Applications = {a1}
  \* partner applications
  i1 = i1
  i2 = i2
  Students = {s1}
  PartnerApplicationIds = {a1, d1}
  Intakes = {i1, i2}
  \* process templates and documents
  t1 = t1
  t2 = t2
  Templates = {t1, t2}
  Programs = {i1}
  Steps = {1, 2}
  Documents = {d1}
  \* files
  k1 = k1
  k2 = k2
  ObjectKeys = {k1, k2}
  Plain = {k1}
  Docs = {d1}
  MaxBatch = 2
  \* reviews
  v1 = v1
  v2 = v2
  v3 = v3
  ReviewIds = {v1, v2, v3}
  MaxHomepage = 1
  \* exchange rates
  RateRows = {v1, v2, v3}
  MaxDay = 2
  \* intakes
  IntakeIds = {i1, i2}
  Offers = {a1}
  StartMonths = {9}
  Years = {0}
  Deadlines = {2}
  Months = {0, 15}
  MaxYear = 2
  \* catalogue
  Rows <- CatalogRows
  KindOf <- Catalog
  RefersTo <- References
  Seeded <- CatalogRows
  CachedKeys <- TwoReads
  MaxMain = 1
  MaxWrites = 2
  \* scholarships
  u1 = u1
  u2 = u2
  ScholarshipIds = {s1}
  Universities = {u1, u2}
  \* accounts
  UserIds = {u1, u2}
  Emails = {"ann", "bob"}
  MaxRetries = 2
  \* statistics
  Written = {"application"}
  Asked = {"dashboard", "growth"}
  STATS_CACHE_TTL = 1
  MaxTime = 4
  Spans = {1, 12}
  Today <- MonthEnds
  NoDate = NoDate
SYMMETRY Symmetry
INVARIANTS TypeOK StoresAgree CacheFresh FlagsAgree ProfilesFollow FiguresAge
PROPERTIES Lifecycle OneActivePerIntake OneDefaultTemplate ChecklistsWhole HomepageCap MainCap LatestRates NoProgramDropped
CHECK_DEADLOCK FALSE
