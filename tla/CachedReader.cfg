CONSTANTS
    FileSizes <- MCFileSizes
    CacheSizes <- MCCacheSizes
    Requests <- MCRequests
SPECIFICATION ReaderSpec
PROPERTY ImplementsSource
